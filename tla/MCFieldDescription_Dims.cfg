CONSTANTS
    Comments <- MCEmptyComment
    Udunits <- MCUdunits
    MapUnits <- MCMapUnits
    DimSizes = {1}
    MaxFields = 1
    MaxDims = 9
SPECIFICATION Spec
CHECK_DEADLOCK FALSE
INVARIANTS DimsRecorded
