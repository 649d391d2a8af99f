----------------------------- MODULE VideoSync -----------------------------
(***************************************************************************)
(* VideoWindow (src/libkoviz/videowindow.cpp): the mpv player beside      *)
(* koviz.  Two threads share it.  mpv's core thread plays, seeks, quits    *)
(* and queues events on the client handle, calling wakeup() when the queue *)
(* needs attention; wakeup emits mpv_events, which a QueuedConnection      *)
(* turns into a posted on_mpv_events call on the GUI thread.  The GUI      *)
(* thread drains the queue one mpv_wait_event at a time, and also runs     *)
(* koviz's seek_time, on_file_open, focus changes and the destructor.      *)
(*                                                                         *)
(* mpv's client API coalesces wakeups: the callback runs when an event is  *)
(* queued and no wakeup is outstanding, and mpv_wait_event clears the      *)
(* outstanding flag.  That contract is the reason on_mpv_events loops.     *)
(***************************************************************************)
EXTENDS Integers, Sequences

CONSTANTS
    Times,       \* playback positions, 0..End
    MaxEvents,   \* bound on the events mpv queues in one behaviour
    MaxPending   \* bound on the commands sent to mpv and not yet run

End == CHOOSE e \in Times : \A x \in Times : x <= e

Windows == {"koviz", "video", "none"}

TimeEvent(t, playing) == [kind |-> "time", t |-> t, playing |-> playing]
Shutdown              == [kind |-> "shutdown", t |-> 0, playing |-> FALSE]

VARIABLES
    mpv,        \* VideoWindow::mpv: "handle" or "null"
    core,       \* mpv's core: "running" or "quit"
    idle,       \* mpv's core-idle property (paused or stopped at the end)
    pos,        \* mpv's playback position
    queue,      \* the client handle's event queue
    needWakeup, \* a wakeup is outstanding
    posted,     \* on_mpv_events calls posted to the GUI thread
    cmds,       \* commands sent to mpv and not yet run
    gui,        \* GUI thread: "ready", "drain" (in on_mpv_events), "gone", "crashed"
    active,     \* the active window
    kovizTime,  \* koviz's current time
    produced    \* events queued so far (bounded by MaxEvents)

vars == <<mpv, core, idle, pos, queue, needWakeup, posted, cmds, gui, active, kovizTime, produced>>

mpvSide == <<core, idle, pos, queue, needWakeup, produced>>

Init ==
    /\ mpv = "handle" /\ core = "running" /\ idle = TRUE /\ pos = 0
    /\ queue = <<>> /\ needWakeup = FALSE /\ posted = 0 /\ cmds = <<>>
    /\ gui = "ready" /\ active \in Windows /\ kovizTime = 0 /\ produced = 0

-----------------------------------------------------------------------------
(* mpv's core thread                                                       *)

\* queue an event; wakeup() -> emit mpv_events() -> post on_mpv_events
Push(e) ==
    /\ produced < MaxEvents
    /\ queue' = Append(queue, e) /\ produced' = produced + 1
    /\ needWakeup' = TRUE
    /\ posted' = IF needWakeup THEN posted ELSE posted + 1

\* playback advances time-pos
Play ==
    /\ core = "running" /\ ~idle /\ pos < End
    /\ pos' = pos + 1 /\ Push(TimeEvent(pos + 1, TRUE))
    /\ UNCHANGED <<mpv, core, idle, cmds, gui, active, kovizTime>>

\* keep-open=always: at the end of the file mpv pauses on the last frame
ReachEnd ==
    /\ core = "running" /\ ~idle /\ pos = End /\ idle' = TRUE
    /\ UNCHANGED <<mpv, core, pos, queue, needWakeup, posted, cmds, gui, active, kovizTime, produced>>

\* input-vo-keyboard: pause/play or quit typed into the video window
TogglePause ==
    /\ core = "running" /\ active = "video" /\ idle' = ~idle
    /\ UNCHANGED <<mpv, core, pos, queue, needWakeup, posted, cmds, gui, active, kovizTime, produced>>

Quit ==
    /\ core = "running" /\ active = "video" /\ core' = "quit" /\ Push(Shutdown)
    /\ UNCHANGED <<mpv, idle, pos, cmds, gui, active, kovizTime>>

\* mpv runs "seek t absolute" or "loadfile": time-pos changes
RunCommand ==
    /\ core = "running" /\ cmds # <<>> /\ cmds' = Tail(cmds)
    /\ LET c == Head(cmds) IN
          \/ c.op = "seek" /\ pos' = c.t /\ UNCHANGED idle /\ Push(TimeEvent(c.t, ~idle))
          \/ c.op = "load" /\ pos' = 0 /\ idle' = FALSE /\ Push(TimeEvent(0, TRUE))
    /\ UNCHANGED <<mpv, core, gui, active, kovizTime>>

-----------------------------------------------------------------------------
(* The GUI thread                                                          *)

\* the event loop runs a posted on_mpv_events
Deliver ==
    /\ gui = "ready" /\ posted > 0 /\ posted' = posted - 1 /\ gui' = "drain"
    /\ UNCHANGED <<mpv, mpvSide, cmds, active, kovizTime>>

\* Mutant of Emits: the isIdle test reads the state at the time the event was queued.
EmitsByEventState(e) == e.playing \/ active = "video"

\* if ( !isIdle || isActiveWindow() ) emit timechangedByMpv(time)
Emits(e) == core = "running" /\ (~idle \/ active = "video")

\* handle_mpv_event
Handle(e) ==
    \/ e.kind = "time" /\ kovizTime' = (IF Emits(e) THEN e.t ELSE kovizTime) /\ UNCHANGED mpv
    \/ e.kind = "shutdown" /\ mpv' = "null" /\ UNCHANGED kovizTime   \* mpv_terminate_destroy

\* Mutant of DrainStep: one event per call (if instead of while).
DrainStepOnce ==
    /\ gui = "drain"
    /\ \/ mpv = "null" /\ gui' = "ready" /\ UNCHANGED <<mpv, queue, needWakeup, kovizTime>>
       \/ mpv = "handle" /\ needWakeup' = FALSE
          /\ \/ queue = <<>> /\ gui' = "ready" /\ UNCHANGED <<mpv, queue, kovizTime>>
             \/ queue # <<>> /\ Handle(Head(queue)) /\ queue' = Tail(queue) /\ gui' = "ready"
    /\ UNCHANGED <<core, idle, pos, posted, cmds, active, produced>>

\* one iteration of while (mpv) { mpv_wait_event(mpv, 0) ... }
DrainStep ==
    /\ gui = "drain"
    /\ \/ mpv = "null" /\ gui' = "ready" /\ UNCHANGED <<mpv, queue, needWakeup, kovizTime>>
       \/ mpv = "handle" /\ needWakeup' = FALSE
          /\ \/ queue = <<>> /\ gui' = "ready" /\ UNCHANGED <<mpv, queue, kovizTime>>
             \/ queue # <<>> /\ Handle(Head(queue)) /\ queue' = Tail(queue) /\ UNCHANGED gui
    /\ UNCHANGED <<core, idle, pos, posted, cmds, active, produced>>

\* koviz's time changes and seek_time(t) is called: a core-idle query on
\* the handle, then a seek if mpv is idle and koviz's window is active
SeekTime ==
    /\ gui = "ready" /\ Len(cmds) < MaxPending
    /\ \E t \in Times :
          /\ kovizTime' = t
          /\ \/ mpv = "null" /\ gui' = "crashed" /\ UNCHANGED cmds    \* mpv_get_property(NULL, ...)
             \/ mpv = "handle" /\ core = "quit" /\ UNCHANGED <<gui, cmds>>   \* ret < 0
             \/ mpv = "handle" /\ core = "running" /\ UNCHANGED gui
                /\ cmds' = IF idle /\ active = "koviz" THEN Append(cmds, [op |-> "seek", t |-> t]) ELSE cmds
    /\ UNCHANGED <<mpv, mpvSide, posted, active>>

\* File/Open: mpv_command_async(loadfile) if the handle is still there
FileOpen ==
    /\ gui = "ready" /\ active = "video" /\ mpv = "handle" /\ Len(cmds) < MaxPending
    /\ cmds' = Append(cmds, [op |-> "load", t |-> 0])
    /\ UNCHANGED <<mpv, mpvSide, posted, gui, active, kovizTime>>

Focus ==
    /\ gui = "ready" /\ \E w \in Windows \ {active} : active' = w
    /\ UNCHANGED <<mpv, mpvSide, posted, cmds, gui, kovizTime>>

\* ~VideoWindow: mpv_terminate_destroy if the handle is still there
Destroy ==
    /\ gui = "ready" /\ gui' = "gone" /\ mpv' = "null" /\ core' = "quit" /\ posted' = 0
    /\ UNCHANGED <<idle, pos, queue, needWakeup, produced, cmds, active, kovizTime>>

Next ==
    \/ Play \/ ReachEnd \/ TogglePause \/ Quit \/ RunCommand
    \/ Deliver \/ DrainStep \/ SeekTime \/ FileOpen \/ Focus \/ Destroy

\* The Qt event loop runs every posted call and mpv's core runs every
\* command it is sent; nothing obliges the user to act.
Spec == Init /\ [][Next]_vars /\ WF_vars(Deliver) /\ WF_vars(DrainStep) /\ WF_vars(RunCommand)

-----------------------------------------------------------------------------
(* The event pump implements the FIFO channel of MpvEventChannel: every  *)
(* step of mpv's thread, of the Qt event loop and of on_mpv_events is a   *)
(* put, an in-order take, a close or no step of the channel, and every    *)
(* event mpv queues while the window holds its handle is eventually taken *)
(* off the queue, however mpv's coalesced wakeups interleave with the     *)
(* drain loop.                                                             *)
Channel == INSTANCE MpvEventChannel
             WITH Events  <- {TimeEvent(t, p) : t \in Times, p \in BOOLEAN} \cup {Shutdown},
                  Closing <- Shutdown,
                  open    <- (mpv = "handle")

ChannelSpec == Channel!Spec

(* No mpv API call is made on the NULL handle that MPV_EVENT_SHUTDOWN      *)
(* leaves behind: on_file_open, on_mpv_events and the destructor test      *)
(* mpv first.                                                              *)
NoCallOnNullHandle == gui # "crashed"

(* "If mpv playing, update time": a time-pos change queued while mpv was   *)
(* playing reaches koviz through timechangedByMpv when it is handled,      *)
(* whatever the user has done to mpv since (mpv has not quit).             *)
PlaybackReachesKoviz ==
    [][ (gui = "drain" /\ core = "running" /\ queue # <<>> /\ queue' = Tail(queue)
          /\ Head(queue).kind = "time" /\ Head(queue).playing)
        => kovizTime' = Head(queue).t ]_vars
=============================================================================
