SPECIFICATION Spec
CONSTANTS
    Profiles = {a, b}
    Subscribers = {a, b}
    Authors = {a}
    Publishers = {b}
    Creates = {c1, c2}
    NoCreate = NoCreate
    NoPair = NoPair
    NoRequester = NoRequester
    NoProfile = NoProfile
    Repairs = {}
    MaxTime = 0
    Sessions = {}
    Callbacks = {"success"}
    Requests = {r1, r2}
    TrialQuota = 2
    PaidQuota = 2
CHECK_DEADLOCK FALSE
INVARIANT AcceptedIsTerminal
