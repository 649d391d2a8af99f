----------------------------- MODULE TrkExport -----------------------------
(***************************************************************************)
(* writeTrk (src/koviz/main.cpp): extract DP parameters of one RUN into a  *)
(* new *.trk file on one synthesized timeline, in four phases:             *)
(*   check - look each parameter up, map it, reject empty curves and       *)
(*           curves not starting at 0;                                     *)
(*   freq  - infer each curve's frequency from t[1], verify the span,      *)
(*           collect the frequencies and the stop time;                    *)
(*   open  - create the file, write the header, reserve the data area;     *)
(*   write - the time column, then each curve's column by walking the      *)
(*           timeline with the curve's iterator (zero-order hold).         *)
(* Time is integer ticks: the 1.0e-9 / 1.0e-6 tolerances are exact         *)
(* comparisons and ROUNDOFF leaves a tick frequency unchanged.  A sample   *)
(* value is named by its (param, row).                                     *)
(***************************************************************************)
EXTENDS Integers, Sequences, FiniteSets, TLC

CONSTANTS
    ParamLists,     \* candidate DP parameter lists (sequences, in request order)
    TimeName,       \* the time parameter name (skipped if requested)
    Series,         \* candidate time columns a RUN's curve can have
    NoCurve,        \* MonteModel::curve found no (time, param) curve
    PastEndTimes,   \* times a read one row past the mapped data can return
    PastEndMayFault \* whether such a read can fault (end of the mapping)

Params == UNION {{l[i] : i \in DOMAIN l} : l \in ParamLists} \ {TimeName}

ASSUME /\ \A s \in Series : \A r \in 1..Len(s) - 1 : s[r] < s[r + 1]
       /\ NoCurve \notin Series
       /\ PastEndMayFault \in BOOLEAN

NoStop == -1000000   \* double stopTime = -1.0e20

VARIABLES
    paramList, data, existed, \* inputs: the list, param -> time column, exists()
    pc,         \* phase of writeTrk
    k,          \* index of the check and freq loops
    cols,       \* curves accepted by the check loop (curves list)
    mapCount,   \* outstanding map() calls per curve
    stopTime, freq, freqs, \* max stop time, curve2freq (missing = 0.0), freqs
    timeline,   \* TimeStamps(freqs, stopTime)
    file,       \* the destination path: "absent", "foreign" or "created"
    cells,      \* <<row, column>> -> value in the reserved data area
    col,        \* column being written (0 is time)
    cur,        \* resampling loop: [row (j), it, lastValue, lastTime]
    result      \* "running", "ok" or the error writeTrk returns false on

input == <<paramList, data, existed>>
plan  == <<stopTime, freq, freqs, timeline>>
out   == <<file, cells, col, cur>>
vars  == <<input, pc, k, cols, mapCount, plan, out, result>>

-----------------------------------------------------------------------------
RowVal(p, r) == [tag |-> "row", p |-> p, n |-> r]
TimeVal(t)   == [tag |-> "time", p |-> TimeName, n |-> t]
ZeroVal      == [tag |-> "zero", p |-> TimeName, n |-> 0]     \* 0.0
PastEndVal   == [tag |-> "pastend", p |-> TimeName, n |-> 0]  \* it.y() past end
Reserved     == [tag |-> "reserved", p |-> TimeName, n |-> 0] \* resize() fill

Times(p) == data[p]
RC(p)    == Len(data[p])

\* TrickCurveModel::indexAtTime: first row whose time >= t, else past the end.
IndexAtTime(s, t) ==
    IF \E r \in 1..Len(s) : s[r] >= t
    THEN CHOOSE r \in 1..Len(s) : s[r] >= t /\ \A q \in 1..r - 1 : s[q] < t
    ELSE Len(s) + 1

\* The elements of a finite set of integers in ascending order.
Ascending(S) ==
    [i \in 1..Cardinality(S) |-> CHOOSE m \in S : Cardinality({x \in S : x < m}) = i - 1]

\* TimeStamps(freqs, stopTime): the multiples of the frequencies in [0, stop].
TimeStamps(fs, stop) == Ascending({m \in 0..stop : \E f \in fs : m % f = 0})

Fail(reason) == result' = reason /\ pc' = "done"

Map(p, d) == mapCount' = [mapCount EXCEPT ![p] = @ + d]

CursorAtBegin == [row |-> 1, it |-> 1, lastValue |-> ZeroVal, lastTime |-> 0]

Init ==
    /\ paramList \in ParamLists
    /\ data \in [Params -> Series \cup {NoCurve}]
    /\ existed \in BOOLEAN
    /\ pc = "start" /\ k = 1 /\ cols = <<>>
    /\ mapCount = [p \in Params |-> 0]
    /\ stopTime = NoStop /\ freq = [p \in Params |-> 0] /\ freqs = {}
    /\ timeline = <<>>
    /\ file = IF existed THEN "foreign" ELSE "absent"
    /\ cells = <<>> /\ col = 0 /\ cur = CursorAtBegin
    /\ result = "running"

\* ftrki.exists(): "Will not overwrite"
RefuseOverwrite ==
    /\ pc = "start" /\ existed /\ Fail("AlreadyExists")
    /\ UNCHANGED <<input, k, cols, mapCount, plan, out>>

StartExtract ==
    /\ pc = "start" /\ ~existed /\ pc' = "check"
    /\ UNCHANGED <<input, k, cols, mapCount, plan, out, result>>

-----------------------------------------------------------------------------
(* Check loop: foreach yParam in paramList.                                *)
Checking == pc = "check" /\ k <= Len(paramList)
Yp == paramList[k]

\* if ( yParam == timeName ) continue;
CheckSkipTime ==
    /\ Checking /\ Yp = TimeName /\ k' = k + 1
    /\ UNCHANGED <<input, pc, cols, mapCount, plan, out, result>>

\* monteModel->curve() returned 0: "could not find curve"
CheckNoCurve ==
    /\ Checking /\ Yp # TimeName /\ data[Yp] = NoCurve
    /\ Fail("ChannelNotFound")
    /\ UNCHANGED <<input, k, cols, mapCount, plan, out>>

\* c->map(); then an error return before c->unmap()
CheckRejected ==
    /\ Checking /\ Yp # TimeName /\ data[Yp] # NoCurve /\ Map(Yp, 1)
    /\ \/ RC(Yp) = 0 /\ Fail("NoData")
       \/ RC(Yp) > 0 /\ IndexAtTime(Times(Yp), 0) # 1 /\ Fail("StartTimeNotZero")
    /\ UNCHANGED <<input, k, cols, plan, out>>

\* map, checks pass, params.append(p), curves.append(c), unmap
CheckAccept ==
    /\ Checking /\ Yp # TimeName /\ data[Yp] # NoCurve
    /\ RC(Yp) > 0 /\ IndexAtTime(Times(Yp), 0) = 1
    /\ cols' = Append(cols, Yp) /\ k' = k + 1
    /\ UNCHANGED <<input, pc, mapCount, plan, out, result>>

\* params.size() < 2: only the time parameter
NoParamsFound ==
    /\ pc = "check" /\ k > Len(paramList) /\ cols = <<>>
    /\ Fail("NoParams")
    /\ UNCHANGED <<input, k, cols, mapCount, plan, out>>

BeginFreq ==
    /\ pc = "check" /\ k > Len(paramList) /\ cols # <<>>
    /\ pc' = "freq" /\ k' = 1
    /\ UNCHANGED <<input, cols, mapCount, plan, out, result>>

-----------------------------------------------------------------------------
(* Frequency loop: f = it[1].t(), s = it[0].t(), e = it[rc-1].t().         *)
Freqing == pc = "freq" /\ k <= Len(cols)
Yf == cols[k]
Span(p)    == Times(p)[RC(p)] - Times(p)[1]
Assumed(p) == (RC(p) - 1) * Times(p)[2]

\* qAbs(d-a) > 1.0e-6: "frequency ... is irregular", returned while mapped
FreqIrregular ==
    /\ Freqing /\ RC(Yf) > 1 /\ Span(Yf) # Assumed(Yf) /\ Map(Yf, 1)
    /\ Fail("IrregularFrequency")
    /\ UNCHANGED <<input, k, cols, plan, out>>

\* rc > 1 and regular: stop time, ROUNDOFF(f), freqs.append, curve2freq
FreqInfer ==
    /\ Freqing /\ RC(Yf) > 1 /\ Span(Yf) = Assumed(Yf)
    /\ stopTime' = IF Times(Yf)[RC(Yf)] > stopTime THEN Times(Yf)[RC(Yf)] ELSE stopTime
    /\ freqs' = freqs \cup {Times(Yf)[2]}
    /\ freq' = [freq EXCEPT ![Yf] = Times(Yf)[2]]
    /\ k' = k + 1
    /\ UNCHANGED <<input, pc, cols, mapCount, timeline, out, result>>

\* rc <= 1: the curve gets no frequency and does not move the stop time
FreqSkipShort ==
    /\ Freqing /\ RC(Yf) <= 1 /\ k' = k + 1
    /\ UNCHANGED <<input, pc, cols, mapCount, plan, out, result>>

\* TimeStamps::usort(freqs); TimeStamps timeStamps(freqs, stopTime)
BuildTimeline ==
    /\ pc = "freq" /\ k > Len(cols)
    /\ timeline' = TimeStamps(freqs, stopTime) /\ pc' = "open"
    /\ UNCHANGED <<input, k, cols, mapCount, stopTime, freq, freqs, out, result>>

-----------------------------------------------------------------------------
(* Open, write the header, resize to headerSize + nRecords * recordSize.  *)
OpenFails ==
    /\ pc = "open" /\ Fail("OpenFailed")
    /\ UNCHANGED <<input, k, cols, mapCount, plan, out>>

OpenAndReserve ==
    /\ pc = "open" /\ pc' = "write" /\ file' = "created"
    /\ cells' = [x \in (1..Len(timeline)) \X (0..Len(cols)) |-> Reserved]
    /\ UNCHANGED <<input, k, cols, mapCount, plan, col, cur, result>>

\* curve 0 is the null "time curve": write the time stamps
WriteTimeColumn ==
    /\ pc = "write" /\ col = 0 /\ col' = 1
    /\ cells' = [x \in DOMAIN cells |-> IF x[2] = 0 THEN TimeVal(timeline[x[1]]) ELSE cells[x]]
    /\ UNCHANGED <<input, pc, k, cols, mapCount, plan, file, cur, result>>

\* Mutant of BeginCurveColumn: the column loop forgets curve->map().
BeginCurveColumnUnmapped ==
    /\ pc = "write" /\ 1 <= col /\ col <= Len(cols)
    /\ pc' = "resample" /\ cur' = CursorAtBegin
    /\ UNCHANGED <<input, k, cols, mapCount, plan, file, cells, col, result>>

\* curve->map(); it = begin(); lastValue = 0.0; lastTime = 0.0
BeginCurveColumn ==
    /\ pc = "write" /\ 1 <= col /\ col <= Len(cols)
    /\ Map(cols[col], 1) /\ pc' = "resample" /\ cur' = CursorAtBegin
    /\ UNCHANGED <<input, k, cols, plan, file, cells, col, result>>

(***************************************************************************)
(* Iteration j of the resampling loop for curve cols[col].  The code reads *)
(* t = it.t() before comparing it with end(): once the curve is exhausted *)
(* the read is one or more rows past the data, whose outcome is whatever  *)
(* the mapping holds there (PastEndTimes) or a fault.                     *)
(***************************************************************************)
Resampling == pc = "resample" /\ cur.row <= Len(timeline)
Yc == cols[col]
TimeStamp == timeline[cur.row]
ReadTimes == IF cur.it <= RC(Yc) THEN {Times(Yc)[cur.it]} ELSE PastEndTimes

\* it != e ? it.y() : it[rc-1].y()
ItValue == CASE cur.it <= RC(Yc)    -> RowVal(Yc, cur.it)
             [] cur.it = RC(Yc) + 1 -> RowVal(Yc, RC(Yc))
             [] OTHER               -> PastEndVal

\* Mutant of Emit: lastValue is not updated after a write.
EmitKeepLast(v, t, step) ==
    /\ cells' = [cells EXCEPT ![<<cur.row, col>>] = v]
    /\ cur' = [cur EXCEPT !.row = @ + 1, !.it = @ + step, !.lastTime = t]

\* out << v at (j, i); lastValue = v; lastTime = t; ++j (and ++it on step 1)
Emit(v, t, step) ==
    /\ cells' = [cells EXCEPT ![<<cur.row, col>>] = v]
    /\ cur' = [row |-> cur.row + 1, it |-> cur.it + step, lastValue |-> v, lastTime |-> t]

\* t - timeStamp < 1.0e-9: on the timeline (or behind it); write and ++it
ResampleOnTimeline ==
    /\ Resampling /\ \E t \in ReadTimes : t <= TimeStamp /\ Emit(ItValue, t, 1)
    /\ UNCHANGED <<input, pc, k, cols, mapCount, plan, file, col, result>>

\* Mutant of HoldConsistent: the qAbs(t-lastTime) > 1.0e-9 test is dropped.
HoldConsistentFreqOnly(t) == freq[Yc] = t - cur.lastTime

\* the bad-timestamp test fails: t == lastTime or t - lastTime == curve2freq
HoldConsistent(t) == t = cur.lastTime \/ freq[Yc] = t - cur.lastTime

\* curve time past the timestamp and consistent: v = lastValue
ResampleHold ==
    /\ Resampling
    /\ \E t \in ReadTimes : t > TimeStamp /\ HoldConsistent(t) /\ Emit(cur.lastValue, t, 0)
    /\ UNCHANGED <<input, pc, k, cols, mapCount, plan, file, col, result>>

\* "bad timestamp": curve->unmap(); trk.close(); return false
ResampleBadTimestamp ==
    /\ Resampling /\ \E t \in ReadTimes : t > TimeStamp /\ ~HoldConsistent(t)
    /\ Map(Yc, -1) /\ Fail("UnexpectedTimestamp")
    /\ UNCHANGED <<input, k, cols, plan, out>>

\* it.t() past the end of the mapping faults: the process dies mid-write
ResamplePastEndFault ==
    /\ Resampling /\ PastEndMayFault /\ cur.it > RC(Yc) /\ Fail("Crash")
    /\ UNCHANGED <<input, k, cols, mapCount, plan, out>>

\* Mutant of EndCurveColumn: the loop stops one timestamp early.
EndCurveColumnEarly ==
    /\ pc = "resample" /\ cur.row >= Len(timeline)
    /\ Map(Yc, -1) /\ pc' = "write" /\ col' = col + 1
    /\ UNCHANGED <<input, k, cols, plan, file, cells, cur, result>>

\* end of the timeline: curve->unmap(); ++i
EndCurveColumn ==
    /\ pc = "resample" /\ cur.row > Len(timeline)
    /\ Map(Yc, -1) /\ pc' = "write" /\ col' = col + 1
    /\ UNCHANGED <<input, k, cols, plan, file, cells, cur, result>>

\* trk.close(); return true
CloseTrk ==
    /\ pc = "write" /\ col > Len(cols) /\ result' = "ok" /\ pc' = "done"
    /\ UNCHANGED <<input, k, cols, mapCount, plan, out>>

-----------------------------------------------------------------------------
Next ==
    \/ RefuseOverwrite \/ StartExtract
    \/ CheckSkipTime \/ CheckNoCurve \/ CheckRejected \/ CheckAccept
    \/ NoParamsFound \/ BeginFreq
    \/ FreqIrregular \/ FreqInfer \/ FreqSkipShort \/ BuildTimeline
    \/ OpenFails \/ OpenAndReserve \/ WriteTimeColumn \/ BeginCurveColumn
    \/ ResampleOnTimeline \/ ResampleHold \/ ResampleBadTimestamp
    \/ ResamplePastEndFault \/ EndCurveColumn \/ CloseTrk

\* writeTrk runs on the main thread to completion: weak fairness of its steps.
Spec == Init /\ [][Next]_vars /\ WF_vars(Next)

-----------------------------------------------------------------------------
(* Properties                                                              *)

TypeOK ==
    /\ paramList \in ParamLists
    /\ pc \in {"start", "check", "freq", "open", "write", "resample", "done"}
    /\ cols \in Seq(Params)
    /\ mapCount \in [Params -> Nat]
    /\ freq \in [Params -> Nat] /\ freqs \subseteq Nat
    /\ file \in {"absent", "foreign", "created"}
    /\ \A x \in DOMAIN cells :
          cells[x].tag \in {"row", "time", "zero", "pastend", "reserved"}
    /\ cur.row \in Nat /\ cur.it \in Nat

\* The row of time column s in effect at time T under zero-order hold.
ZOHRow(s, T) == CHOOSE r \in 1..Len(s) : s[r] <= T /\ (r = Len(s) \/ s[r + 1] > T)

Written(x) == cells[x].tag # "reserved"
CurveCells == {x \in DOMAIN cells : x[2] >= 1}

(* Every value writeTrk writes into a curve's column at a timestamp within *)
(* the curve's own time span is the curve's sample in effect there (zero- *)
(* order hold): the iterator walk, the hold branch and lastValue never    *)
(* put another row there.                                                 *)
ZeroOrderHoldWithinCurve ==
    \A x \in CurveCells :
        LET s == Times(cols[x[2]])
            T == timeline[x[1]]
        IN (Written(x) /\ s[1] <= T /\ T <= s[Len(s)])
              => cells[x] = RowVal(cols[x[2]], ZOHRow(s, T))

(* Spec 4.4 step 3: once a curve is exhausted (the merged timeline runs   *)
(* past its stop time) its column holds the curve's last value.          *)
HoldBeyondCurveStop ==
    \A x \in CurveCells :
        LET s == Times(cols[x[2]])
        IN (Written(x) /\ timeline[x[1]] > s[Len(s)]) => cells[x] = RowVal(cols[x[2]], Len(s))

(* A writeTrk that returns true has written every cell of the reserved    *)
(* data area: the time column and one value per curve per timestamp.     *)
SuccessfulExportIsComplete ==
    result = "ok" =>
        \A x \in DOMAIN cells :
           Written(x) /\ (x[2] = 0 => cells[x] = TimeVal(timeline[x[1]]))

\* Every requested curve exists, starts at 0 and is sampled regularly.
RegularInput ==
    /\ ~existed
    /\ \A p \in {paramList[i] : i \in DOMAIN paramList} \ {TimeName} :
          /\ data[p] # NoCurve /\ RC(p) > 0 /\ Times(p)[1] = 0
          /\ RC(p) > 1 => \A r \in 1..RC(p) : Times(p)[r] = (r - 1) * Times(p)[2]

(* Fail-fast never fires on good data: for requested curves that all      *)
(* start at 0 with regular sampling, writeTrk does not stop with          *)
(* IrregularFrequency or UnexpectedTimestamp, however the frequencies of  *)
(* the curves interleave on the merged timeline.                         *)
RegularInputExports ==
    RegularInput => result \notin {"IrregularFrequency", "UnexpectedTimestamp"}

(* Spec 5: a cursor's storage view is released on every exit path, error *)
(* paths included: when writeTrk returns, no curve is left mapped.        *)
MapsReleasedOnReturn ==
    result \notin {"running", "Crash"} => \A p \in Params : mapCount[p] = 0

(* Spec 5/7: a failed export leaves no partial output: when writeTrk      *)
(* fails after creating the destination, the file is gone.               *)
NoPartialOutputOnFailure ==
    result \notin {"running", "ok", "AlreadyExists"} => file # "created"

(* Spec 3: export aborts with StartTimeNotZero unless row 0's time is 0.0: *)
(* every curve the check loop accepts starts at time 0.                  *)
AcceptedCurvesStartAtZero == \A i \in 1..Len(cols) : Times(cols[i])[1] = 0
=============================================================================
