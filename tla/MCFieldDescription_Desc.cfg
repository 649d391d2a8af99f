CONSTANTS
    Comments <- MCDescComments
    Udunits <- MCUdunits
    MapUnits <- MCMapUnits
    DimSizes = {1}
    MaxFields = 2
    MaxDims = 1
SPECIFICATION Spec
CHECK_DEADLOCK FALSE
INVARIANT DescriptionKept

