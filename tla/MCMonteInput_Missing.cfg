CONSTANTS
    MonteDirs <- MCMissingDirs
    RunArgs <- MCRunArgs
    Files <- MCGoodFiles
    RunIds <- MCRunIds
SPECIFICATION Spec
INVARIANT DataRowsAreSelectedRuns
