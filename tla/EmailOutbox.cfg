SPECIFICATION FairSpec
CONSTANTS
    m1 = m1
    m2 = m2
    Emails <- MCEmails
    Runs = {r1, r2}
    Handlers = {h1}
    Messages = {m1, m2}
    NoEmail = NoEmail
    NoMessage = NoMessage
    BatchLimit = 2
    EventTypes = {"delivered", "failed"}
    MaxFailures = 1
    MayCrash = TRUE
CONSTRAINT MCBound
CHECK_DEADLOCK FALSE
INVARIANTS
    ExclusiveClaim
    SendsAreClaimed
    StatusIsReported
PROPERTIES
    KeepsPromise
    EmailIsSettled
