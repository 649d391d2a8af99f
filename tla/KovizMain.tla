----------------------------- MODULE KovizMain ------------------------------
(***************************************************************************)
(* main() of koviz (src/koviz/main.cpp) after the options are parsed: it   *)
(* splits the command line into DP files and RUN directories, builds the   *)
(* -map, -shift and -timeName tables, runs the -trk2csv / -csv2trk         *)
(* conversions and the -rt report (each returns before the plot), checks   *)
(* the -pdf / -dp2trk / -dp2csv options, selects the runs (RunSelect), and *)
(* then writes the PDF, the trk or the csv, or opens the window.           *)
(* An option is chosen when main() first reads it.  The conversions, the   *)
(* -rt report, loading the runs and the writers are modelled by their      *)
(* outcome: Convert, Dp2Csv and TrkExport model what they do inside.       *)
(***************************************************************************)
EXTENDS Integers, Sequences, SequencesExt, KovizOptions, RunSelect

CONSTANTS
    RunDps,        \* opts.rundps the user can give: sequences of Items
    MapStrings,    \* non-empty -map values
    MapFiles,      \* -mapFile contents: sequences of lines
    ShiftStrings,  \* -shift values (<<>>: none)
    TimeNames,     \* -timeName values
    MonteLists,    \* the RUN_* entries a MONTE_ directory can hold
    Begins, Ends   \* -beginRun and -endRun values

\* an element of opts.rundps: a DP_ file, a run directory or a MONTE_
\* directory, with its name (compared by getShiftHash) and its run name
Items == [kind : {"dp", "run", "monte"}, name : Seq(STRING), run : [path : BOOLEAN, num : Int]]
NoItem == [kind |-> "none"]
Outputs == {"pdf", "trk", "csv"}
NoMapIn == [opt |-> "none", s |-> <<>>, lines |-> <<>>]
EmptyMap == [ok |-> TRUE, map |-> NoMap]

VARIABLES
    pc,
    rundps, conv, rt, out,   \* the options, once read
    mapIn, varMap,           \* -map / -mapFile and what getVarMap made of it
    timeName, timeNames,     \* opts.timeName and getTimeNames(opts.timeName)
    runsList,                \* the runs loaded
    status,                  \* ret, or the argument of exit()
    written,                 \* what koviz produced
    trkTime, csvRun          \* the time name writeTrk got, the dir writeCsv read

vars == <<pc, rundps, conv, rt, out, mapIn, varMap, timeName, timeNames,
          runsList, status, written, trkTime, csvRun>>

Dps     == SelectSeq(rundps, LAMBDA f : f.kind = "dp")
RunDirs == SelectSeq(rundps, LAMBDA f : f.kind # "dp")
IsMonte == Len(RunDirs) = 1 /\ RunDirs[1].kind = "monte"

Init ==
    /\ pc = "start" /\ rundps = <<>> /\ conv = {} /\ rt = FALSE /\ out = {}
    /\ mapIn = NoMapIn /\ varMap = EmptyMap /\ timeName = <<>> /\ timeNames = <<>>
    /\ runsList = <<>> /\ status = -1 /\ written = {} /\ trkTime = <<>> /\ csvRun = NoItem

\* Mutant of Quit: exit(1).
QuitOne == pc' = "end" /\ status' = 1

\* exit(-1), or return -1
Quit == pc' = "end" /\ status' = -1

\* the DP_ / run split; no runs and no conversion is a usage error
Start ==
    /\ pc = "start"
    /\ \E r \in RunDps, c \in SUBSET {"trk2csv", "csv2trk"} :
          /\ rundps' = r /\ conv' = c
          /\ IF r = <<>> /\ c = {} THEN Quit ELSE pc' = "maps" /\ UNCHANGED status
    /\ UNCHANGED <<rt, out, mapIn, varMap, timeName, timeNames, runsList, written, trkTime, csvRun>>

\* -map and -mapFile exclude each other; getVarMap / getVarMapFromFile
\* exit on a malformed entry or an unreadable file
Maps ==
    /\ pc = "maps"
    /\ \/ pc' = "shift" /\ UNCHANGED <<mapIn, varMap, status>>
       \/ mapIn' = [NoMapIn EXCEPT !.opt = "both"] /\ Quit /\ UNCHANGED varMap
       \/ mapIn' = [NoMapIn EXCEPT !.opt = "unreadable"] /\ Quit /\ UNCHANGED varMap
       \/ \E s \in MapStrings :
             /\ mapIn' = [NoMapIn EXCEPT !.opt = "map", !.s = s] /\ varMap' = GetVarMap(s)
             /\ IF varMap'.ok THEN pc' = "shift" /\ UNCHANGED status ELSE Quit
       \/ \E ls \in MapFiles :
             /\ mapIn' = [NoMapIn EXCEPT !.opt = "file", !.lines = ls]
             /\ varMap' = GetVarMapFromFile(ls)
             /\ IF varMap'.ok THEN pc' = "shift" /\ UNCHANGED status ELSE Quit
    /\ UNCHANGED <<rundps, conv, rt, out, timeName, timeNames, runsList, written, trkTime, csvRun>>

\* getShiftHash(opts.shiftString, runDirs); the tables go to Runs and the
\* window, which the model leaves out, so they are not kept
ShiftHash ==
    /\ pc = "shift"
    /\ \E s \in ShiftStrings :
          IF GetShiftHash(s, [i \in DOMAIN RunDirs |-> RunDirs[i].name]).ok
          THEN pc' = "time" /\ UNCHANGED status ELSE Quit
    /\ mapIn' = NoMapIn /\ varMap' = EmptyMap
    /\ UNCHANGED <<rundps, conv, rt, out, timeName, timeNames, runsList, written, trkTime, csvRun>>

GetTime ==
    /\ pc = "time" /\ pc' = "trk2csv"
    /\ \E t \in TimeNames : timeName' = t /\ timeNames' = GetTimeNames(t)
    /\ UNCHANGED <<rundps, conv, rt, out, mapIn, varMap, runsList, status, written, trkTime, csvRun>>
\* convert2csv, then convert2trk: a failure ends koviz with -1 (convert2csv's
\* false, or the trk reader's exception, caught then exit(-1); convert2trk
\* throws nothing and only returns false, so no try is needed around it)
Convert(c, next) ==
    /\ pc = c
    /\ \/ c \notin conv /\ pc' = next /\ UNCHANGED <<status, written>>
       \/ c \in conv /\ written' = written \cup {c} /\ pc' = next /\ UNCHANGED status
       \/ c \in conv /\ Quit /\ UNCHANGED written
    /\ UNCHANGED <<rundps, conv, rt, out, mapIn, varMap, timeName, timeNames, runsList, trkTime, csvRun>>

\* -rt prints a Snap report per run (an exception exits); -rt or a
\* conversion returns 0 here, without reading the output options
ReportRT ==
    /\ pc = "rt"
    /\ \E r \in BOOLEAN :
          /\ rt' = r
          /\ \/ r /\ RunDirs # <<>> /\ Quit /\ UNCHANGED <<out, written>>
             \/ /\ written' = IF r THEN written \cup {"rt"} ELSE written
                /\ IF r \/ conv # {}
                   THEN pc' = "end" /\ status' = 0 /\ out' \in SUBSET Outputs
                   ELSE pc' = "outputs" /\ UNCHANGED <<status, out>>
    /\ UNCHANGED <<rundps, conv, mapIn, varMap, timeName, timeNames, runsList, trkTime, csvRun>>

\* -pdf, -dp2trk and -dp2csv exclude each other; each needs a DP file and
\* a run directory
CheckOutputs ==
    /\ pc = "outputs"
    /\ \E o \in SUBSET Outputs :
          /\ out' = o
          /\ IF \/ \E x, y \in o : x # y
                \/ o # {} /\ (Dps = <<>> \/ RunDirs = <<>>)
             THEN Quit ELSE pc' = "select" /\ UNCHANGED status
    /\ UNCHANGED <<rundps, conv, rt, mapIn, varMap, timeName, timeNames, runsList, written, trkTime, csvRun>>

\* a single MONTE_ directory: its RUN_* entries (none exits); otherwise the
\* run directories; runsSubset keeps -beginRun..-endRun (none exits)
SelectRuns ==
    /\ pc = "select"
    /\ \E b \in Begins, e \in Ends, entries \in MonteLists :
          LET list == IF IsMonte THEN entries ELSE [i \in DOMAIN RunDirs |-> RunDirs[i].run]
              sub  == RunsSubset(list, b, e)
          IN /\ b <= e
             /\ IF list = <<>> \/ sub = <<>> THEN Quit /\ UNCHANGED runsList
                ELSE runsList' = sub /\ pc' = "load" /\ UNCHANGED status
    /\ UNCHANGED <<rundps, conv, rt, out, mapIn, varMap, timeName, timeNames, written, trkTime, csvRun>>

\* new Runs, MonteModel, the vars and inputs models: a run that cannot be
\* read throws, and the catch at the end of main exits
LoadRuns ==
    /\ pc = "load"
    /\ \/ pc' = "write" /\ UNCHANGED status
       \/ Quit
    /\ UNCHANGED <<rundps, conv, rt, out, mapIn, varMap, timeName, timeNames, runsList, written, trkTime, csvRun>>

\* savePdf leaves ret as it was
WritePdf ==
    /\ pc = "write" /\ "pdf" \in out
    /\ \/ written' = written \cup {"pdf"} /\ pc' = "end" /\ UNCHANGED status
       \/ Quit /\ UNCHANGED written
    /\ UNCHANGED <<rundps, conv, rt, out, mapIn, varMap, timeName, timeNames, runsList, trkTime, csvRun>>

\* writeTrk(opts.trkOutFile, opts.timeName, ...) when one run is loaded
WriteTrk ==
    /\ pc = "write" /\ "trk" \in out
    /\ IF Len(runsList) # 1 THEN Quit /\ UNCHANGED <<written, trkTime>>
       ELSE /\ trkTime' = timeName /\ pc' = "end"
            /\ \/ written' = written \cup {"trk"} /\ status' = 0
               \/ status' = -1 /\ UNCHANGED written
    /\ UNCHANGED <<rundps, conv, rt, out, mapIn, varMap, timeName, timeNames, runsList, csvRun>>

\* exactly one run directory; no DP table exits; writeCsv(..., runDirs.at(0))
\* per table, ret 0 when the loop writes them all (Dp2Csv)
WriteCsv ==
    /\ pc = "write" /\ "csv" \in out
    /\ IF Len(RunDirs) # 1 THEN Quit /\ UNCHANGED <<written, csvRun>>
       ELSE /\ csvRun' = RunDirs[1]
            /\ \/ Quit /\ UNCHANGED written
               \/ written' = written \cup {"csv"} /\ status' = 0 /\ pc' = "end"
               \/ status' = -1 /\ pc' = "end" /\ UNCHANGED written
    /\ UNCHANGED <<rundps, conv, rt, out, mapIn, varMap, timeName, timeNames, runsList, trkTime>>

\* no output option: the window, and ret = a.exec()
ShowWindow ==
    /\ pc = "write" /\ out = {}
    /\ pc' = "end" /\ status' = 0 /\ written' = written \cup {"window"}
    /\ UNCHANGED <<rundps, conv, rt, out, mapIn, varMap, timeName, timeNames, runsList, trkTime, csvRun>>

Finished == pc = "end" /\ UNCHANGED vars

Next ==
    \/ Start \/ Maps \/ ShiftHash \/ GetTime
    \/ Convert("trk2csv", "csv2trk") \/ Convert("csv2trk", "rt") \/ ReportRT
    \/ CheckOutputs \/ SelectRuns \/ LoadRuns
    \/ WritePdf \/ WriteTrk \/ WriteCsv \/ ShowWindow \/ Finished

Spec == Init /\ [][Next]_vars
-----------------------------------------------------------------------------
TypeOK ==
    /\ pc \in {"start", "maps", "shift", "time", "trk2csv", "csv2trk", "rt",
               "outputs", "select", "load", "write", "end"}
    /\ rundps \in Seq(Items) /\ conv \subseteq {"trk2csv", "csv2trk"} /\ out \subseteq Outputs
    /\ status \in {-1, 0} /\ Len(runsList) <= 3
    /\ written \subseteq {"trk2csv", "csv2trk", "rt", "window"} \cup Outputs

(* The table -map yields, read from its text as spec.md describes it: the  *)
(* comma-separated entries "key=candidate1=candidate2..." with the blanks  *)
(* round each part dropped; every entry needs '=', a key and non-empty     *)
(* candidates, or the whole option is refused; a key given twice keeps its *)
(* last entry's candidates, in their order.                                *)
RefVarMap(s) ==
    LET es      == SplitSkip(s, ",")
        parts(i) == Split(Trimmed(es[i]), "=")
        key(i)  == Trimmed(parts(i)[1])
        last(k) == Max({i \in DOMAIN es : key(i) = k})
    IN [ok  |-> \A i \in DOMAIN es : Len(parts(i)) > 1
                   /\ \A j \in DOMAIN parts(i) : Trimmed(parts(i)[j]) # <<>>,
        map |-> [k \in {key(i) : i \in DOMAIN es} |->
                   [j \in 1..Len(parts(last(k))) - 1 |-> Trimmed(parts(last(k))[j + 1])]]]

(* getVarMap, one entry of -map at a time, accepts exactly the strings the *)
(* reading above accepts, and builds the same table from them: no entry is *)
(* dropped, merged or reordered, and a repeated key keeps the last one.    *)
VarMapMatchesReference ==
    mapIn.opt = "map" =>
        /\ varMap.ok = RefVarMap(mapIn.s).ok
        /\ varMap.ok => varMap.map = RefVarMap(mapIn.s).map

(* Each line of a -mapFile file holds entries of its own: the table read   *)
(* from the file is the one -map gives for its lines joined by commas, so  *)
(* no candidate spans two lines (getVarMapFromFile appends the lines).     *)
MapFileLinesSeparate ==
    mapIn.opt = "file" /\ mapIn.lines # <<>> =>
        varMap = GetVarMap(FoldLeft(LAMBDA a, l : IF a = <<>> THEN l ELSE a \o <<",">> \o l,
                                    <<>>, mapIn.lines))

Requested == conv \cup out \cup (IF rt THEN {"rt"} ELSE {})

(* koviz's exit status says whether it did what it was asked: 0 only when *)
(* every conversion, report and output file the options ask for has been  *)
(* produced, and 0 whenever they all have (main's ret, and its early       *)
(* returns after -trk2csv, -csv2trk and -rt).                              *)
StatusReportsOutputs ==
    pc = "end" =>
        /\ status = 0 => Requested \subseteq written
        /\ (Requested # {} /\ Requested \subseteq written) => status = 0

(* -dp2trk names the trk's time channel by one of the names -timeName      *)
(* lists (spec.md: an alias list tried in order); writeTrk gets            *)
(* opts.timeName itself.                                                   *)
TrkTimeIsAName ==
    trkTime # <<>> => trkTime \in Range(timeNames)

(* -dp2csv reads its data from one of the runs koviz selected and loaded   *)
(* (writeCsv gets runDirs.at(0)).                                          *)
CsvReadsSelectedRun ==
    csvRun # NoItem => csvRun.kind = "run" /\ csvRun.run \in Range(runsList)
====
