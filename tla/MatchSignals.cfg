SPECIFICATION SignalSpec
CONSTANTS
    ManuscriptIds = {1, 2}
    PublisherIds = {11, 12}
    Eligible = {2, 11, 12}
    Runs = {1, 2}
    SourceOf <- MCSourceOf
    MaxVersion = 1
    Edited = {2, 11}
    TextOf <- MCTextOf
    Indexed <- MCIndexed
    Jitter <- MCJitter
    Distances = {5, 130}
    NeighborLimit = 3
    MaxStored = 1
CONSTRAINT MCBound
CHECK_DEADLOCK FALSE
INVARIANTS
    CurrentIsIndexed
    BestAreStored
    AuthorIsWarned
