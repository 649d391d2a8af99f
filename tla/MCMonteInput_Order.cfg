CONSTANTS
    MonteDirs <- MCMonteDirs
    RunArgs <- MCRunArgs
    Files <- MCFiles
    RunIds <- MCBigRunIds
SPECIFICATION Spec
INVARIANT OrderFree
