CONSTANTS
    DPChoices <- MCDPChoices
    ExistingChoices <- MCExistingChoices
    CsvOutDir = "cwd"
    RunDirCounts = {1, 2}
    OpenMayFail = TRUE

SPECIFICATION Spec
INVARIANT DistinctOutputNames

\* main returns after the loop: its final state has no successor.
CHECK_DEADLOCK FALSE
