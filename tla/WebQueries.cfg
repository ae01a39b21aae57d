SPECIFICATION Spec
CONSTANTS
    Visited <- Followed
    Calls = {1, 2}
    MaxEvents = 2
INVARIANT OwnChangesAreShown
PROPERTIES OwnChangesStayShown SampleIsFollowed
CHECK_DEADLOCK FALSE
