CONSTANTS
    p1 = p1
    p2 = p2
    TimeName = TimeName
    NoCurve = NoCurve
    ParamLists <- MCParamLists
    Series <- SmallSeries
    PastEndTimes <- ZeroTail
    PastEndMayFault = TRUE

SPECIFICATION Spec

INVARIANT TypeOK
INVARIANT ZeroOrderHoldWithinCurve
INVARIANT SuccessfulExportIsComplete
INVARIANT RegularInputExports

\* writeTrk returns: its final state has no successor.
CHECK_DEADLOCK FALSE
