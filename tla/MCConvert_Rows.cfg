CONSTANTS
    v0 = v0
    v1 = v1
    bad = bad
    Vals <- MCVals
    BadField <- bad
    TrkIn = "a"
    CsvIn = "b"
    OutName = "o"
    TrkChoices <- MCTrkChoices
    CsvChoices <- MCCsvChoices
    MaxRuns = 2
    OpenMayFail = TRUE

SPECIFICATION Spec

INVARIANT TrkFilesWholeRows

\* The invocations are bounded by MaxRuns: after the last one nothing runs.
CHECK_DEADLOCK FALSE
