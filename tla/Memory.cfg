SPECIFICATION ApiSpec
CONSTANTS
    a = a
    b = b
    d1 = d1
    d2 = d2
    d3 = d3
    d4 = d4
    m1 = m1
    m2 = m2
    m3 = m3
    Profiles = {a, b}
    Onboarded = {b}
    Orders = {o1, o2}
    NoProfile = NoProfile
    Repairs = {"active", "cancelled"}
    MonthEnd <- MCMonthEnd
    YearEnd <- MCYearEnd
    MaxTime = 2
    MaxPeriods = 3
    MaxStarts = 2
    Publishers = {b}
    Manuscripts = {m1, m2, m3}
    AuthorOf <- MCAuthorOf
    Calls = {c1, c2}
    NoPair = NoPair
    MaxRequests = 3
    TrialQuota = 1
    PaidQuota = 2
    Documents = {d1, d2, d3, d4}
    ManuscriptOf <- MCManuscriptOf
    SizeOf <- MCSizeOf
    Uploads = {u1, u2}
    NoDocument = NoDocument
    TrialStorage = 2
    PaidStorage = 2
    MaxDecisions = 2
CONSTRAINT MCBound
CHECK_DEADLOCK FALSE
INVARIANTS
    RecoveryHelps
    OverrunIsBounded
    MailFollowsNotice
    SampleIsTheUpload
    DecisionStands
    StorageOverrunIsBounded
PROPERTIES
    PaymentTakesEffect
SYMMETRY MCSymmetry
