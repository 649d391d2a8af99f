CONSTANTS
    Times = {0, 1, 2}
    MaxEvents = 4
    MaxPending = 1

SPECIFICATION Spec

INVARIANT NoCallOnNullHandle


\* The window may be destroyed, and playback stops once MaxEvents events
\* have been queued: such states have no successor.
CHECK_DEADLOCK FALSE
