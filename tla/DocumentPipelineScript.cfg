SPECIFICATION Spec
CONSTANTS
    d1 = d1
    d2 = d2
    m1 = m1
    Documents = {d1, d2}
    Manuscripts = {m1}
    ManuscriptOf <- MCManuscriptOf
    NoDocument = NoDocument
    Workers = {w1, w2}
    Runners = {r1, r2}
    NoCaller = NoCaller
    ScanVerdict <- MCScanVerdict
    UseCloudTasks = FALSE
    MaxFaults = 2
CHECK_DEADLOCK FALSE
INVARIANTS
    SampleIsTheUploadedDocument
    ProcessedHasOutputs
    OneRunPerJob
    OneReviewPerDocument
    UnsafeIsNeverExposed
SYMMETRY MCSymmetry
