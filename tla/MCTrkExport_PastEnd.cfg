CONSTANTS
    p1 = p1
    p2 = p2
    TimeName = TimeName
    NoCurve = NoCurve
    ParamLists <- MCParamLists
    Series <- ShortSeries
    PastEndTimes <- ZeroTail
    PastEndMayFault = FALSE

SPECIFICATION Spec

INVARIANT HoldBeyondCurveStop

\* writeTrk returns: its final state has no successor.
CHECK_DEADLOCK FALSE
