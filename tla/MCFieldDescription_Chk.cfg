CONSTANTS
    Comments <- MCIoComments
    Udunits <- MCUdunits
    MapUnits <- MCMapUnits
    DimSizes = {1}
    MaxFields = 2
    MaxDims = 1
SPECIFICATION Spec
CHECK_DEADLOCK FALSE
PROPERTIES CheckpointBits
