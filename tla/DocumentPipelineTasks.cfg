SPECIFICATION FairSpec
CONSTANTS
    d1 = d1
    d2 = d2
    m1 = m1
    Documents = {d1, d2}
    Manuscripts = {m1}
    ManuscriptOf <- MCManuscriptOf
    NoDocument = NoDocument
    Workers = {w1, w2}
    Runners = {}
    NoCaller = NoCaller
    ScanVerdict <- MCScanVerdict
    UseCloudTasks = TRUE
    MaxFaults = 2
CHECK_DEADLOCK FALSE
PROPERTIES
    EnqueuedIsChecked
