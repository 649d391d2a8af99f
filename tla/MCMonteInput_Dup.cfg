CONSTANTS
    MonteDirs <- MCMonteDirs
    RunArgs <- MCDupArgs
    Files <- MCGoodFiles
    RunIds <- MCRunIds
SPECIFICATION Spec
INVARIANT RunIdsDistinct
