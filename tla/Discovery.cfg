SPECIFICATION FairSpec
CONSTANTS
    a1 = a1
    Authors = {a1}
    Publishers = {p1}
    Manuscripts = {m1, m2}
    OwnerOf <- MCOwnerOf
    NoManuscript = NoManuscript
    Moderated = {m1}
    Modes = {"supabase", "test"}
    Calls = {c1, c2}
    RunsPerHour = 2
    MaxFaults = 1
    Asks = {k1}
    Decisions = {d1, d2}
CONSTRAINT MCBound
CHECK_DEADLOCK FALSE
INVARIANTS
    SucceededIsComplete
    GrantsAreBacked
    AccessIsEarned
PROPERTY RunIsSettled
