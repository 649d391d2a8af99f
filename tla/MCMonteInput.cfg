CONSTANTS
    MonteDirs <- MCMonteDirs
    RunArgs <- MCRunArgs
    Files <- MCFiles
    RunIds <- MCRunIds
SPECIFICATION Spec
INVARIANTS TypeOK DataRowsAreSelectedRuns
