----------------------------- MODULE MonteInput -----------------------------
(***************************************************************************)
(* The Monte Carlo input table of koviz (src/koviz/main.cpp): the RUNs    *)
(* selected by -beginRun/-endRun (presetBeginRun, presetEndRun,           *)
(* runsSubset), then, for a Monte directory, the table read from its      *)
(* monte_runs file (monteInputModel, monteInputModelTrick07 or            *)
(* monteInputModelTrick17), and for RUN directories given one by one the  *)
(* table of their names (runsInputModel).                                  *)
(*                                                                         *)
(* A run name is [path, num]: path says a directory comes before RUN_,    *)
(* num is the number after RUN_ (-1: not a number).  A line of monte_runs *)
(* is [k, id, ok, n]: its kind, the run id it carries, whether that id    *)
(* parses (for a Trick07 data line: whether it has the '#'), and its      *)
(* number of values (of variables, for the header and VARS entries).      *)
(* The table is the set of its <<row, RunId>> items; the values in a row  *)
(* are left out, only their count is checked.                              *)
(***************************************************************************)
EXTENDS Integers, Sequences, SequencesExt, FiniteSets, RunSelect

CONSTANTS
    MonteDirs,   \* candidate RUN_* entries of a Monte directory (5-digit names)
    RunArgs,     \* candidate RUN directories given on the command line
    Files,       \* candidate monte_runs contents (NoFile: cannot be opened)
    RunIds       \* values -beginRun and -endRun can be given

L(k, id, ok, n) == [k |-> k, id |-> id, ok |-> ok, n |-> n]
NoFile == <<L("unreadable", 0, FALSE, 0)>>

VARIABLES
    mode,      \* "monte": runDirs is one Monte directory; "runs": RUN dirs
    dir,       \* the Monte directory's RUN_* entries, or the RUN dirs given
    file,      \* monte_runs
    args,      \* the -beginRun/-endRun options, in command-line order
    beginRun, endRun,   \* opts.beginRun, opts.endRun
    runs,      \* runsSubset's result
    pc, pos,   \* the step of main and the line the parser reads next
    nVars,     \* vars.size()
    lo, hi,    \* the parser's beginRun and endRun
    vhead,     \* the vertical header of each row (a run id)
    table,     \* the <<row, RunId>> items set so far
    nData      \* Trick07's nDataLines

vars == <<mode, dir, file, args, beginRun, endRun, runs, pc, pos, nVars, lo, hi, vhead, table, nData>>
input == <<mode, dir, file, args, beginRun, endRun>>

Init ==
    /\ \/ mode = "monte" /\ dir \in MonteDirs
       \/ mode = "runs" /\ dir \in RunArgs
    /\ file \in Files /\ args = <<>> /\ beginRun = 0 /\ endRun = 100000
    /\ runs = <<>> /\ pc = "options" /\ pos = 1 /\ nVars = 0
    /\ lo = 0 /\ hi = 0 /\ vhead = <<>> /\ table = {} /\ nData = 0

Exit == pc' = "exit"

Arg(o, v) == [opt |-> o, v |-> v]
ArgSet == {Arg(o, v) : o \in {"beginRun", "endRun"}, v \in RunIds}
\* no option, one, or two of them (the same one twice included)
ArgLists == {<<>>} \cup {<<a>> : a \in ArgSet} \cup {<<a, c>> : a, c \in ArgSet}

\* presetBeginRun refuses a value above opts.endRun, presetEndRun one below
\* opts.beginRun, each as opts.parse meets it; an accepted value is stored
Preset(st, a) ==
    IF a.opt = "beginRun"
    THEN IF a.v > st.e THEN [st EXCEPT !.ok = FALSE] ELSE [st EXCEPT !.b = a.v]
    ELSE IF a.v < st.b THEN [st EXCEPT !.ok = FALSE] ELSE [st EXCEPT !.e = a.v]

\* opts.parse over the options from the defaults 0 and 100000; a refused
\* option makes ok false for good
Parse(as) ==
    FoldLeft(LAMBDA st, a : IF st.ok THEN Preset(st, a) ELSE st,
             [b |-> 0, e |-> 100000, ok |-> TRUE], as)

\* opts.parse and the if ( !ok ) exit of main
Options ==
    /\ pc = "options"
    /\ \E as \in ArgLists :
          /\ args' = as
          /\ \/ Parse(as).ok /\ beginRun' = Parse(as).b /\ endRun' = Parse(as).e
                /\ pc' = "select"
             \/ ~Parse(as).ok /\ Exit /\ UNCHANGED <<beginRun, endRun>>
    /\ UNCHANGED <<mode, dir, file, runs, pos, nVars, lo, hi, vhead, table, nData>>

\* runsSubset; an empty subset aborts
Select ==
    /\ pc = "select"
    /\ LET s == RunsSubset(dir, beginRun, endRun) IN
       \/ dir = <<>> /\ Exit /\ UNCHANGED runs          \* "no RUN dirs in"
       \/ dir # <<>> /\ s = <<>> /\ Exit /\ UNCHANGED runs
       \/ dir # <<>> /\ s # <<>> /\ runs' = s
          /\ pc' = IF mode = "monte" THEN "detect" ELSE "runsModel"
    /\ UNCHANGED <<input, pos, nVars, lo, hi, vhead, table, nData>>

\* runsInputModel: numeric RUN_ names give RunId = the number, else the row
RunsModel ==
    /\ pc = "runsModel" /\ pc' = "done"
    /\ LET numeric == \A i \in 1..Len(runs) : runs[i].num >= 0
           id(r)   == IF numeric THEN runs[r + 1].num ELSE r
       IN /\ vhead' = [i \in 1..Len(runs) |-> id(i - 1)]
          /\ table' = {<<r, id(r)>> : r \in 0..Len(runs) - 1}
    /\ UNCHANGED <<input, runs, pos, nVars, lo, hi, nData>>

-----------------------------------------------------------------------------
IsTrick07 == \E i \in DOMAIN file : file[i].k = "numruns"

\* monteInputModel: monte_runs cannot be opened, or has a NUM_RUNS: line
\* (Trick07), or not (Trick17, whose first line is the header)
Detect ==
    /\ pc = "detect"
    /\ \/ file = NoFile /\ Exit /\ UNCHANGED pos
       \/ file # NoFile /\ IsTrick07 /\ pc' = "07num" /\ UNCHANGED pos
       \/ file # NoFile /\ ~IsTrick07 /\ pc' = "17check" /\ pos' = 2
    /\ UNCHANGED <<input, runs, nVars, lo, hi, vhead, table, nData>>

Line == file[pos]
AtEnd == pos > Len(file)

\* Trick07: skip to NUM_RUNS:, whose count must parse; then skip to VARS:
Seek07 ==
    /\ \/ pc = "07num" /\ AtEnd /\ Exit
       \/ pc = "07num" /\ ~AtEnd /\ Line.k = "numruns"
          /\ pc' = IF Line.ok THEN "07vars" ELSE "exit"
       \/ pc = "07vars" /\ AtEnd /\ Exit
       \/ pc = "07vars" /\ ~AtEnd /\ Line.k = "vars" /\ pc' = "07list"
       \/ pc \in {"07num", "07vars"} /\ ~AtEnd
          /\ Line.k # (IF pc = "07num" THEN "numruns" ELSE "vars")
          /\ UNCHANGED pc
    /\ pos' = pos + 1
    /\ UNCHANGED <<input, runs, nVars, lo, hi, vhead, table, nData>>

\* Trick07 VARS list up to DATA:; '#' lines are skipped, a line whose first
\* word is empty adds no variable
Vars07 ==
    /\ pc = "07list"
    /\ \/ AtEnd /\ Exit /\ UNCHANGED nVars
       \/ ~AtEnd /\ Line.k = "data" /\ pc' = "07hdr" /\ UNCHANGED nVars
       \/ ~AtEnd /\ Line.k \notin {"data", "hash"}
          /\ nVars' = nVars + (IF Line.n > 0 THEN 1 ELSE 0) /\ UNCHANGED pc
       \/ ~AtEnd /\ Line.k = "hash" /\ UNCHANGED <<pc, nVars>>
    /\ pos' = pos + 1
    /\ UNCHANGED <<input, runs, lo, hi, vhead, table, nData>>

\* row r's header is run r's number, run.mid(4).toInt(), and the ids read
\* are limited to the least and greatest of those numbers
RowHeaders(next) ==
    /\ LET ids == [i \in 1..Len(runs) |-> IdOf(runs[i]).id] IN
          /\ vhead' = ids
          /\ lo' = Min(Range(ids)) /\ hi' = Max(Range(ids))
    /\ pc' = next
    /\ UNCHANGED <<input, runs, pos, nVars, table, nData>>

\* Trick07: the table is allocated and its row headers set after DATA:
Headers07 == pc = "07hdr" /\ RowHeaders("07data")

\* Trick17: the same loop, after the sanity check
Headers17 == pc = "17hdr" /\ RowHeaders("17data")

Name(id) == Run(FALSE, id)

\* Trick07 data: a line needs '#' and a run id; ids out of [lo, hi] are
\* skipped; the id needs its RUN_%05d among runs and the line as many
\* values as VARS; its items go to row nDataLines
Data07 ==
    /\ pc = "07data"
    /\ \/ AtEnd /\ pc' = "done" /\ UNCHANGED <<table, nData>>
       \/ ~AtEnd /\ ~Line.ok /\ Exit /\ UNCHANGED <<table, nData>>
       \/ ~AtEnd /\ Line.ok /\ (Line.id < lo \/ Line.id > hi) /\ UNCHANGED <<pc, table, nData>>
       \/ ~AtEnd /\ Line.ok /\ lo <= Line.id /\ Line.id <= hi
          /\ IF Name(Line.id) \in Range(runs) /\ Line.n = nVars
             THEN table' = table \cup {<<nData, Line.id>>} /\ nData' = nData + 1 /\ UNCHANGED pc
             ELSE Exit /\ UNCHANGED <<table, nData>>
    /\ pos' = pos + 1
    /\ UNCHANGED <<input, runs, nVars, lo, hi, vhead>>

\* Trick17 sanity check: line k + 1 starts with run id k - 1; then the vars
\* are the header's words, the first replaced by RunId (vars.replace(0, ..)
\* on an empty list is undefined: "crash")
Check17 ==
    /\ pc = "17check"
    /\ \/ AtEnd /\ nVars' = (IF file = <<>> THEN 0 ELSE file[1].n)
          /\ pc' = (IF nVars' = 0 THEN "crash" ELSE "17hdr") /\ pos' = 2
       \/ ~AtEnd /\ (~Line.ok \/ Line.id + 1 # pos - 1) /\ Exit /\ UNCHANGED <<pos, nVars>>
       \/ ~AtEnd /\ Line.ok /\ Line.id + 1 = pos - 1 /\ pos' = pos + 1 /\ UNCHANGED <<pc, nVars>>
    /\ UNCHANGED <<input, runs, lo, hi, vhead, table, nData>>

\* Mutant of Data17: the items go to row lineNum - 2.
Data17RowOffByOne ==
    /\ pc = "17data"
    /\ \/ AtEnd /\ pc' = "done" /\ UNCHANGED table
       \/ ~AtEnd /\ Line.n # nVars /\ Exit /\ UNCHANGED table
       \/ ~AtEnd /\ Line.n = nVars /\ (Line.id < lo \/ Line.id > hi) /\ UNCHANGED <<pc, table>>
       \/ ~AtEnd /\ Line.n = nVars /\ lo <= Line.id /\ Line.id <= hi
          /\ table' = table \cup {<<pos - 3, Line.id>>} /\ UNCHANGED pc
    /\ pos' = pos + 1
    /\ UNCHANGED <<input, runs, nVars, lo, hi, vhead, nData>>

\* Trick17 data: a line needs as many values as vars; ids out of [lo, hi]
\* are skipped; its items go to row lineNum - 1
Data17 ==
    /\ pc = "17data"
    /\ \/ AtEnd /\ pc' = "done" /\ UNCHANGED table
       \/ ~AtEnd /\ Line.n # nVars /\ Exit /\ UNCHANGED table
       \/ ~AtEnd /\ Line.n = nVars /\ (Line.id < lo \/ Line.id > hi) /\ UNCHANGED <<pc, table>>
       \/ ~AtEnd /\ Line.n = nVars /\ lo <= Line.id /\ Line.id <= hi
          /\ table' = table \cup {<<pos - 2, Line.id>>} /\ UNCHANGED pc
    /\ pos' = pos + 1
    /\ UNCHANGED <<input, runs, nVars, lo, hi, vhead, nData>>

\* koviz goes on to the GUI (or has exited)
Finished == pc \in {"done", "exit", "crash"} /\ UNCHANGED vars

Next ==
    \/ Options \/ Select \/ RunsModel \/ Detect \/ Seek07 \/ Vars07 \/ Headers07
    \/ Data07 \/ Check17 \/ Headers17 \/ Data17 \/ Finished

Spec == Init /\ [][Next]_vars

-----------------------------------------------------------------------------
TypeOK ==
    /\ pc \in {"options", "select", "runsModel", "detect", "07num", "07vars", "07list",
               "07hdr", "07data", "17check", "17hdr", "17data", "done", "exit", "crash"}
    /\ pos \in 1..Len(file) + 2 /\ nVars \in Nat /\ nData \in Nat
    /\ table \subseteq Nat \X Int

\* the RUN numbers of a Monte directory that lie in [-beginRun, -endRun]
Wanted == {dir[i].num : i \in {j \in DOMAIN dir : beginRun <= dir[j].num /\ dir[j].num <= endRun}}

(* The table read from monte_runs holds one row for each RUN_ directory of *)
(* the Monte directory whose number is in [-beginRun, -endRun], and no      *)
(* other: runsSubset's selection, the parser's own [beginRun, endRun], and  *)
(* the rows of Trick07's nDataLines or Trick17's lineNum agree.             *)
DataRowsAreSelectedRuns ==
    (pc = "done" /\ mode = "monte")
        => /\ {t[2] : t \in table} = Wanted
           /\ Cardinality(table) = Cardinality(Wanted)

(* Row r of the table is the run its vertical header names, and every row  *)
(* the headers announce has its run id: the items setItem places are in    *)
(* the rows setHeaderData labelled.                                         *)
RowsMatchHeaders ==
    pc = "done" => table = {<<r, vhead[r + 1]>> : r \in 0..Len(vhead) - 1}

(* runsSubset leaves out every run whose RUN_ number lies outside          *)
(* [-beginRun, -endRun], also a run given with its directory.               *)
SubsetHonoursRange ==
    pc \notin {"options", "select", "exit"}
        => \A i \in DOMAIN runs : runs[i].num >= 0 => beginRun <= runs[i].num /\ runs[i].num <= endRun

(* The RunId column of the runs table tells the runs apart.                *)
RunIdsDistinct ==
    pc = "done" => Cardinality({t[2] : t \in table}) = Cardinality(table)

\* the value an option was last given, or its default
Given(as, o, default) ==
    LET s == SelectSeq(as, LAMBDA a : a.opt = o) IN IF s = <<>> THEN default ELSE Last(s).v

(* koviz refuses -beginRun and -endRun, each given at most once, only    *)
(* when the range they give is empty (begin above end), whatever order    *)
(* they are written in: the usage calls them the inclusive bounds of the  *)
(* RUNs, and presetBeginRun's message names -endRun as the bound.          *)
OrderFree ==
    (pc = "exit" /\ ~Parse(args).ok /\ IsInjective([i \in DOMAIN args |-> args[i].opt]))
        => Given(args, "beginRun", 0) > Given(args, "endRun", 100000)
====
