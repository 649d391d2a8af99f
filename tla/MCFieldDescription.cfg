CONSTANTS
    Comments <- MCComments
    Udunits <- MCUdunits
    MapUnits <- MCMapUnits
    DimSizes = {1}
    MaxFields = 2
    MaxDims = 1
SPECIFICATION Spec
CHECK_DEADLOCK FALSE
INVARIANTS TypeOK UnitsMatchReference DescriptionRoundTrip
PROPERTIES UnitsValidated
