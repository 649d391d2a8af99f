--------------------------- MODULE SJobThreadInfo ---------------------------
(***************************************************************************)
(* SJobExecThreadInfo (src/libsnaprt/sjobexecthreadinfo.cpp): reads one   *)
(* thread's kind, frequency and rt_cpu_number from a run's S_job_execution *)
(* file, in the constructor and again in every setThreadId.                *)
(*                                                                         *)
(* The file is a sequence of lines, each abstracted to what the parser     *)
(* tells apart: [k |-> kind, s |-> text class, n |-> number, ok |-> parses]*)
(* An error is numbered by the call that raised it; the message of a throw *)
(* is the contents of the static _err_string at that point.               *)
(***************************************************************************)
EXTENDS Integers, Sequences, SequencesExt

CONSTANTS
    Files,      \* candidate S_job_execution contents (NoFile: it cannot be opened)
    ThreadIds,  \* thread ids a caller passes
    AsyncFreq,  \* 1.0e20
    MaxCalls    \* bound on constructor and setThreadId calls

Line(k, s, n, ok) == [k |-> k, s |-> s, n |-> n, ok |-> ok]
NoFile == <<Line("unreadable", "", 0, FALSE)>>

VARIABLES
    file,                    \* the run's S_job_execution
    exists,                  \* the object has been constructed
    threadId, hasInfo, kind, freq, rtCPUNumber,   \* the members
    pc, pos,                 \* _calcThreadInfo's progress and current line
    inCtor,                  \* the call in progress is the constructor
    errString,               \* static _err_string: the errors written so far
    thrown,                  \* message of the last exception, or <<>>
    calls                    \* calls so far

vars == <<file, exists, threadId, hasInfo, kind, freq, rtCPUNumber, pc, pos, inCtor, errString, thrown, calls>>
members == <<threadId, hasInfo, kind, freq, rtCPUNumber>>

Init ==
    /\ file \in Files /\ exists = FALSE
    /\ threadId = -1 /\ hasInfo = FALSE /\ kind = "" /\ freq = 0 /\ rtCPUNumber = ""
    /\ pc = "idle" /\ pos = 0 /\ inCtor = FALSE /\ errString = <<>> /\ thrown = <<>> /\ calls = 0

Call(t, ctor) ==
    /\ pc = "idle" /\ calls < MaxCalls /\ calls' = calls + 1
    /\ threadId' = t /\ inCtor' = ctor /\ pc' = "calc" /\ thrown' = <<>>

\* the constructor: members initialised, then _calcThreadInfo
Construct ==
    /\ ~exists /\ \E t \in ThreadIds : Call(t, TRUE)
    /\ hasInfo' = FALSE /\ kind' = "" /\ freq' = 0 /\ rtCPUNumber' = ""
    /\ UNCHANGED <<file, exists, pos, errString>>

SetThreadId ==
    /\ exists /\ \E t \in ThreadIds : Call(t, FALSE)
    /\ UNCHANGED <<file, exists, hasInfo, kind, freq, rtCPUNumber, pos, errString>>

\* a call returns normally; a constructor's object now exists
Return == pc' = "idle" /\ exists' = (exists \/ inCtor)

\* _err_stream << ...; throw runtime_error(_err_string): the object of a
\* throwing constructor is never made; setThreadId leaves it as it is
Throw ==
    /\ errString' = Append(errString, calls) /\ thrown' = errString'
    /\ pc' = "idle" /\ UNCHANGED exists

\* the first line is "Thread information"
HasHeader(f) == f # NoFile /\ f # <<>> /\ f[1].k = "header"

\* negative id, the file cannot be opened, or no "Thread information" line
CalcStart ==
    /\ pc = "calc"
    /\ \/ (threadId < 0 \/ ~HasHeader(file)) /\ Return /\ UNCHANGED <<hasInfo, pos>>
       \/ threadId >= 0 /\ HasHeader(file)
          /\ hasInfo' = TRUE /\ pos' = 2 /\ pc' = "scan" /\ UNCHANGED exists
    /\ UNCHANGED <<file, threadId, kind, freq, rtCPUNumber, inCtor, errString, thrown, calls>>

\* one readLine of the first loop, looking for "Thread <threadId>"
Scan ==
    /\ pc = "scan" /\ pos' = pos + 1
    /\ \/ pos > Len(file) /\ pc' = "thread0"
       \/ pos <= Len(file) /\ file[pos] = Line("thread", "", threadId, TRUE) /\ pc' = "type"
       \/ pos <= Len(file) /\ file[pos] # Line("thread", "", threadId, TRUE) /\ UNCHANGED pc
    /\ UNCHANGED <<file, exists, members, inCtor, errString, thrown, calls>>

\* the Type value with " *Type = *" removed; a line of another kind is no type
TypeOf(l) == IF l.k = "type" THEN l.s ELSE "other"

KindOf == [asynchronous |-> "Asynchronous", scheduled |-> "Scheduled", amf |-> "AMF"]

\* Mutant of FreqOf: a scheduled thread keeps the frequency read before.
FreqOfNoReset(l, f) == CASE l.s = "asynchronous" -> AsyncFreq [] l.s = "amf" -> l.n [] OTHER -> f

\* _freq: 1.0e20, 0.0 (advance_sim_time may set it later), or the AMF period
FreqOf(l, f) == CASE l.s = "asynchronous" -> AsyncFreq [] l.s = "amf" -> l.n [] OTHER -> 0

\* the "Type = ..." line: asynchronous, scheduled, "asynchronous must
\* finish ... = f" (f must parse), or no match at all
ReadType ==
    /\ pc = "type" /\ pos' = pos + 1
    /\ LET l == file[pos] IN
       \/ pos > Len(file) /\ pc' = "thread0" /\ UNCHANGED <<kind, freq, errString, thrown>>
       \/ pos <= Len(file) /\ TypeOf(l) \in DOMAIN KindOf /\ (TypeOf(l) = "amf" => l.ok)
          /\ kind' = KindOf[TypeOf(l)] /\ freq' = FreqOf(l, freq)
          /\ pc' = "cpu" /\ UNCHANGED <<errString, thrown>>
       \/ pos <= Len(file) /\ TypeOf(l) = "amf" /\ ~l.ok /\ kind' = "AMF" /\ Throw /\ freq' = 0
       \/ pos <= Len(file) /\ TypeOf(l) = "other" /\ pc' = "cpu" /\ UNCHANGED <<kind, freq, errString, thrown>>
    /\ UNCHANGED <<file, exists, threadId, hasInfo, rtCPUNumber, inCtor, calls>>

\* the "rt_cpu_number = ..." line: a number or "unassigned", else throw
ReadCpu ==
    /\ pc = "cpu" /\ pos' = pos + 1
    /\ LET s == IF file[pos].k = "cpu" THEN file[pos].s ELSE "bad" IN
       \/ pos > Len(file) /\ pc' = "thread0" /\ UNCHANGED <<rtCPUNumber, errString, thrown>>
       \/ pos <= Len(file) /\ s # "bad" /\ rtCPUNumber' = s /\ pc' = "thread0"
          /\ UNCHANGED <<errString, thrown>>
       \/ pos <= Len(file) /\ s = "bad" /\ Throw /\ UNCHANGED rtCPUNumber
    /\ UNCHANGED <<file, exists, threadId, hasInfo, kind, freq, inCtor, calls>>

\* only thread 0 goes on to read the frame time
Thread0 ==
    /\ pc = "thread0"
    /\ \/ threadId = 0 /\ pc' = "adv" /\ UNCHANGED exists
       \/ threadId # 0 /\ Return
    /\ UNCHANGED <<file, members, pos, inCtor, errString, thrown, calls>>

\* one readLine of the second loop, looking for advance_sim_time (a failed
\* toDouble leaves _freq at 0 before the throw); its
\* fields.at(5) on a line of fewer than six fields reads out of bounds
ScanAdvance ==
    /\ pc = "adv" /\ pos' = pos + 1
    /\ LET l == file[pos] IN
       \/ pos > Len(file) /\ pc' = "freqcheck" /\ UNCHANGED <<freq, errString, thrown>>
       \/ pos <= Len(file) /\ l.k # "adv" /\ UNCHANGED <<pc, freq, errString, thrown>>
       \/ pos <= Len(file) /\ l.k = "adv" /\ l.s = "wide" /\ l.ok /\ freq' = l.n
          /\ pc' = "freqcheck" /\ UNCHANGED <<errString, thrown>>
       \/ pos <= Len(file) /\ l.k = "adv" /\ l.s = "wide" /\ ~l.ok /\ Throw /\ freq' = 0
       \/ pos <= Len(file) /\ l.k = "adv" /\ l.s = "narrow" /\ pc' = "crashed"
          /\ UNCHANGED <<freq, errString, thrown>>
    /\ UNCHANGED <<file, exists, threadId, hasInfo, kind, rtCPUNumber, inCtor, calls>>

\* if ( _freq == 0.0 ) throw
FreqCheck ==
    /\ pc = "freqcheck"
    /\ \/ freq # 0 /\ Return /\ UNCHANGED <<errString, thrown>>
       \/ freq = 0 /\ Throw
    /\ UNCHANGED <<file, members, pos, inCtor, calls>>

Next == Construct \/ SetThreadId \/ CalcStart \/ Scan \/ ReadType \/ ReadCpu
        \/ Thread0 \/ ScanAdvance \/ FreqCheck

Spec == Init /\ [][Next]_vars

-----------------------------------------------------------------------------
(* What the file says of thread t: its "Thread t" block (the first one)   *)
(* when its Type and rt_cpu_number lines are both recognised, and for     *)
(* thread 0 the frame time of the first advance_sim_time line after it.   *)
BlockAt(f, t) == SelectInSeq(f, LAMBDA l : l = Line("thread", "", t, TRUE))

Recognised(f, t) ==
    LET j == BlockAt(f, t) IN
    /\ j > 0 /\ j + 2 <= Len(f)
    /\ TypeOf(f[j + 1]) \in DOMAIN KindOf /\ (TypeOf(f[j + 1]) = "amf" => f[j + 1].ok)
    /\ f[j + 2].k = "cpu" /\ f[j + 2].s # "bad"

ExpectedFreq(f, t) ==
    LET j == BlockAt(f, t)
        a == SelectInSubSeq(f, j + 3, Len(f), LAMBDA l : l.k = "adv")
    IN IF t = 0 /\ a > 0 THEN f[a].n ELSE FreqOf(f[j + 1], 0)

\* a call has just returned normally
Returned == pc = "idle" /\ exists /\ thrown = <<>> /\ calls > 0

(* After any constructor or setThreadId that returns normally, on a file   *)
(* that describes thread threadId, the object reports that thread's kind, *)
(* frequency and rt_cpu_number, whatever threads it was set to before.    *)
InfoMatchesFile ==
    (Returned /\ threadId >= 0 /\ Recognised(file, threadId))
        => LET j == BlockAt(file, threadId) IN
           /\ kind = KindOf[TypeOf(file[j + 1])]
           /\ rtCPUNumber = file[j + 2].s
           /\ freq = ExpectedFreq(file, threadId)

(* A call for a thread the file does not describe reports no kind, rather  *)
(* than the kind of the thread the object was set to before.               *)
NoStaleInfo == (Returned /\ ~Recognised(file, threadId)) => kind = ""

(* The message of an exception describes that error alone: _err_string is *)
(* static and only ever appended to.                                        *)
ErrorMessageIsOwn == Len(thrown) <= 1
=============================================================================
