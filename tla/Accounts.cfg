SPECIFICATION Spec
CONSTANTS
    u1 = u1
    u2 = u2
    Users = {u1, u2}
    Staff = {u1}
    Readers = {u2}
    Requests = {q1, q2}
    Roles = {"author", "publisher"}
    Kinds <- MCKinds
    MaxReviews = 3
    Limit = 2
    Places <- MCPlaces
    PageSize = 1
CONSTRAINT MCBound
CHECK_DEADLOCK FALSE
INVARIANTS
    PageIsComplete
    FeedIsComplete
    DecidedOnce
    ProfileFollowsLog
PROPERTY
    OnlyAdminsDecide
SYMMETRY MCSymmetry
