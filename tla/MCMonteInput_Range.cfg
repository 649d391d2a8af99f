CONSTANTS
    MonteDirs <- MCMonteDirs
    RunArgs <- MCRunArgs
    Files <- MCGoodFiles
    RunIds <- MCRunIds
SPECIFICATION Spec
INVARIANT SubsetHonoursRange
