--------------------------- MODULE MpvEventChannel ---------------------------
(***************************************************************************)
(* What VideoWindow's event pump promises, with wakeups, posted calls and  *)
(* the drain loop hidden: a FIFO channel from mpv's core to the GUI.       *)
(* mpv puts events in while the window holds the handle; the GUI takes     *)
(* them in order, and taking the closing event (MPV_EVENT_SHUTDOWN) gives *)
(* the handle up; the window may also give it up on its own (destructor). *)
(* Every event in an open channel is eventually taken.                     *)
(***************************************************************************)
EXTENDS Sequences

CONSTANTS
    Events,    \* the events mpv can queue
    Closing    \* the event after which the consumer lets go of the handle

VARIABLES
    queue,     \* events put and not yet taken
    open       \* the consumer holds the handle

Init == queue = <<>> /\ open = TRUE

Put ==
    /\ open /\ \E e \in Events : queue' = Append(queue, e)
    /\ UNCHANGED open

Take ==
    /\ open /\ queue # <<>>
    /\ queue' = Tail(queue) /\ open' = (Head(queue) # Closing)

Close ==
    /\ open /\ open' = FALSE
    /\ UNCHANGED queue

Next == Put \/ Take \/ Close

Spec == Init /\ [][Next]_<<queue, open>> /\ WF_<<queue, open>>(Take)
====
