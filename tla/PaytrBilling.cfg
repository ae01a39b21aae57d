SPECIFICATION FairSpec
CONSTANTS
    Profiles = {a, b}
    Subscribers = {a}
    Authors = {a}
    Publishers = {b}
    Creates = {}
    NoCreate = NoCreate
    NoPair = NoPair
    NoRequester = NoRequester
    NoProfile = NoProfile
    Repairs = {}
    MaxTime = 2
    Sessions = {s1, s2}
    Callbacks = {"success", "failed", "unknown"}
    Requests = {}
    TrialQuota = 1
    PaidQuota = 1
CHECK_DEADLOCK FALSE
PROPERTY PaidIsActivated
