CONSTANTS
    RunDps <- MCRunDps
    MapStrings <- MCMapStrings
    MapFiles <- MCMapFiles
    ShiftStrings <- MCShiftStrings
    TimeNames <- MCTimeNames
    MonteLists <- MCMonteLists
    Begins = {0, 1}
    Ends = {0, 1}
SPECIFICATION Spec
INVARIANT TrkTimeIsAName
