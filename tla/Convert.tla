------------------------------ MODULE Convert ------------------------------
(***************************************************************************)
(* koviz -trk2csv / -csv2trk (src/koviz/main.cpp: the conversion section  *)
(* of main, presetExistsFile, presetOutputFile, convert2csv, convert2trk), *)
(* over a file system that persists across several koviz invocations.     *)
(*                                                                         *)
(* A trk file is its column count and its data area as a flat stream of   *)
(* doubles (a row is n consecutive values); a csv file is the width of its *)
(* header line and its lines of fields.  A numeric field is the value it   *)
(* denotes: convert2csv writes QVariant(double).toString(), the shortest   *)
(* text that toDouble() reads back as the same double.  BadField is a      *)
(* field toDouble() rejects.  A path is <<base name, suffix>>; -o names    *)
(* the path <<OutName, "o">>.                                              *)
(***************************************************************************)
EXTENDS Integers, Sequences, SequencesExt

CONSTANTS
    Vals,         \* the doubles a field can hold
    BadField,     \* a field that is not a number, e.g. "12x"
    TrkIn, CsvIn, \* base names of the trk and csv files present at start
    OutName,      \* base name given with -o
    TrkChoices,   \* candidate contents of the starting trk file
    CsvChoices,   \* candidate contents of the starting csv file
    MaxRuns,      \* bound on the number of koviz invocations
    OpenMayFail   \* whether QFile::open(WriteOnly) can fail

OPath  == <<OutName, "o">>
Paths  == ({TrkIn, CsvIn, OutName} \X {"trk", "csv"}) \cup {OPath}
NoPath == <<>>

NoFile            == [kind |-> "none"]
TrkFile(n, data)  == [kind |-> "trk", n |-> n, data |-> data]
CsvFile(n, lines) == [kind |-> "csv", n |-> n, lines |-> lines]

VARIABLES
    fs,      \* path -> contents
    origin,  \* path -> how the file came to be (history for RoundTrip)
    pc,      \* "idle", "parse", "trk2csv", "csv2trk"
    opt,     \* this invocation: [trk2csv, csv2trk, o]
    runs,    \* invocations so far
    result   \* outcome of the last step

vars == <<fs, origin, pc, opt, runs, result>>

Input == [via |-> "input"]

Init ==
    /\ fs \in {[p \in Paths |-> CASE p = <<TrkIn, "trk">> -> tf
                                  [] p = <<CsvIn, "csv">> -> cf
                                  [] OTHER -> NoFile] : tf \in TrkChoices, cf \in CsvChoices}
    /\ origin = [p \in Paths |-> Input]
    /\ pc = "idle" /\ opt = [trk2csv |-> NoPath, csv2trk |-> NoPath, o |-> FALSE]
    /\ runs = 0 /\ result = "none"

\* QFileInfo(p).exists()
Exists(p) == fs[p] # NoFile

Finish(r) == result' = r /\ pc' = "idle"

\* A koviz invocation with -trk2csv and/or -csv2trk, with or without -o.
Invoke ==
    /\ pc = "idle" /\ runs < MaxRuns
    /\ \E t, c \in Paths \cup {NoPath}, o \in BOOLEAN :
          /\ t # NoPath \/ c # NoPath
          /\ opt' = [trk2csv |-> t, csv2trk |-> c, o |-> o]
    /\ pc' = "parse" /\ runs' = runs + 1 /\ result' = "running"
    /\ UNCHANGED <<fs, origin>>

\* opts.parse: presetExistsFile on both inputs, presetOutputFile on -o.
ParseOk ==
    /\ opt.trk2csv # NoPath => Exists(opt.trk2csv)
    /\ opt.csv2trk # NoPath => Exists(opt.csv2trk)
    /\ opt.o => ~Exists(OPath)

Parse ==
    /\ pc = "parse"
    /\ \/ ParseOk /\ pc' = "trk2csv" /\ UNCHANGED result
       \/ ~ParseOk /\ Finish("Usage")
    /\ UNCHANGED <<fs, origin, opt, runs>>

-----------------------------------------------------------------------------
(* convert2csv(timeNames, ftrk, fcsv)                                      *)

\* QFileInfo(out).exists(): "Will not overwrite"
WillNotOverwrite(out) == Exists(out)

\* -o, else absolutePath/baseName.csv (or .trk)
OutPath(in, suffix) == IF opt.o THEN OPath ELSE <<in[1], suffix>>

\* TrickModel m(timeNames, ftrk) reads a trk whose data is whole rows.
TrkReadable(f) == f.kind = "trk" /\ f.n > 0 /\ Len(f.data) % f.n = 0

\* Mutant of CsvOf: the field loop stops one column early.
CsvOfShortRows(f) ==
    CsvFile(f.n, [r \in 1..Len(f.data) \div f.n |-> SubSeq(f.data, (r - 1) * f.n + 1, r * f.n - 1)])

\* the "name {unit}" line, then each row's cc fields joined by ","
CsvOf(f) ==
    CsvFile(f.n, [r \in 1..Len(f.data) \div f.n |-> SubSeq(f.data, (r - 1) * f.n + 1, r * f.n)])

Trk2Csv ==
    /\ pc = "trk2csv"
    /\ LET in == opt.trk2csv  out == OutPath(in, "csv") IN
       \/ in = NoPath /\ pc' = "csv2trk" /\ UNCHANGED <<fs, origin, result>>
       \/ in # NoPath /\ ~TrkReadable(fs[in]) /\ Finish("BadHeader") /\ UNCHANGED <<fs, origin>>
       \/ in # NoPath /\ TrkReadable(fs[in])
          /\ \/ WillNotOverwrite(out) /\ Finish("AlreadyExists") /\ UNCHANGED <<fs, origin>>
             \/ ~WillNotOverwrite(out) /\ OpenMayFail /\ Finish("OpenFailed") /\ UNCHANGED <<fs, origin>>
             \/ /\ ~WillNotOverwrite(out)
                /\ fs' = [fs EXCEPT ![out] = CsvOf(fs[in])]
                /\ origin' = [origin EXCEPT ![out] = [via |-> "trk2csv", src |-> fs[in]]]
                /\ pc' = "csv2trk" /\ UNCHANGED result
    /\ UNCHANGED <<opt, runs>>

-----------------------------------------------------------------------------
(* convert2trk(csvFileName, trkFileName)                                   *)

\* csv.parseLine() until it returns an empty list
DataLines(f) ==
    IF f.kind # "csv" THEN <<<<BadField>>>>      \* a binary file read as text
    ELSE LET j == SelectInSeq(f.lines, LAMBDA l : l = <<>>)
         IN IF j = 0 THEN f.lines ELSE SubSeq(f.lines, 1, j - 1)

HeaderWidth(f) == IF f.kind = "csv" THEN f.n ELSE 1

\* Mutant of HasBadValue: toDouble's ok flag is ignored.
HasBadValueNever(ls) == ls # ls

\* some s.toDouble(&ok) fails
HasBadValue(ls) == \E r \in 1..Len(ls) : \E c \in 1..Len(ls[r]) : ls[r][c] = BadField

\* "Bad value ... on line": file.close(); trk.remove()
DiscardPartial(out, n, ls) == UNCHANGED fs

Csv2Trk ==
    /\ pc = "csv2trk"
    /\ LET in == opt.csv2trk  out == OutPath(in, "trk") IN
       \/ in = NoPath /\ Finish("ok") /\ UNCHANGED <<fs, origin>>
       \/ in # NoPath /\ HeaderWidth(fs[in]) = 0 /\ Finish("EmptyCsv") /\ UNCHANGED <<fs, origin>>
       \/ in # NoPath /\ HeaderWidth(fs[in]) > 0
          /\ LET n == HeaderWidth(fs[in])  ls == DataLines(fs[in]) IN
             \/ WillNotOverwrite(out) /\ Finish("AlreadyExists") /\ UNCHANGED <<fs, origin>>
             \/ ~WillNotOverwrite(out) /\ OpenMayFail /\ Finish("OpenFailed") /\ UNCHANGED <<fs, origin>>
             \/ /\ ~WillNotOverwrite(out) /\ HasBadValue(ls)
                /\ DiscardPartial(out, n, ls) /\ Finish("MalformedValue") /\ UNCHANGED origin
             \/ /\ ~WillNotOverwrite(out) /\ ~HasBadValue(ls)
                /\ fs' = [fs EXCEPT ![out] = TrkFile(n, FlattenSeq(ls))]
                /\ origin' = [origin EXCEPT ![out] = [via |-> "csv2trk", src |-> origin[in]]]
                /\ Finish("ok")
    /\ UNCHANGED <<opt, runs>>

Next == Invoke \/ Parse \/ Trk2Csv \/ Csv2Trk

\* Invocations are run one after another; none is stopped half-way.
Spec == Init /\ [][Next]_vars /\ WF_vars(Next)

-----------------------------------------------------------------------------
TypeOK ==
    /\ pc \in {"idle", "parse", "trk2csv", "csv2trk"}
    /\ \A p \in Paths :
          /\ fs[p].kind \in {"none", "trk", "csv"}
          /\ fs[p].kind = "trk" => fs[p].n > 0 /\ fs[p].data \in Seq(Vals)

(* Spec 8, round trip: a trk converted to csv and the csv converted back  *)
(* to trk, in any two invocations, gives the original columns and data.   *)
RoundTrip ==
    \A p \in Paths :
        (origin[p].via = "csv2trk" /\ origin[p].src.via = "trk2csv")
            => fs[p].n = origin[p].src.src.n /\ fs[p].data = origin[p].src.src.data

(* Spec 8: every trk file convert2trk writes holds whole rows: its data   *)
(* length is a multiple of its column count (rowCount x rowWidth +        *)
(* headerSize = fileSize), whatever the csv it was given.                  *)
TrkFilesWholeRows ==
    \A p \in Paths : origin[p].via = "csv2trk" => Len(fs[p].data) % fs[p].n = 0
=============================================================================
