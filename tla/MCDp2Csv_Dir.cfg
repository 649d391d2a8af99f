CONSTANTS
    DPChoices <- MCDPChoices
    ExistingChoices <- MCExistingChoices
    CsvOutDir = "outDir"
    RunDirCounts = {1, 2}
    OpenMayFail = TRUE

SPECIFICATION Spec
INVARIANT OutputsBesideRequested

\* main returns after the loop: its final state has no successor.
CHECK_DEADLOCK FALSE
