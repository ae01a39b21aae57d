SPECIFICATION Spec
CONSTANTS
    Profiles = {a, b, c}
    Subscribers = {a}
    Authors = {a}
    Publishers = {b, c}
    Creates = {c1, c2}
    NoCreate = NoCreate
    NoPair = NoPair
    NoRequester = NoRequester
    NoProfile = NoProfile
    Repairs = {"status", "event"}
    MaxTime = 0
    Sessions = {s1}
    Callbacks = {"success"}
    Requests = {r1, r2}
    TrialQuota = 1
    PaidQuota = 1
CHECK_DEADLOCK FALSE
INVARIANTS
    QuotaKept
    PaidOnce
PROPERTY ChargesCurrentPeriod
SYMMETRY MCSymmetry
