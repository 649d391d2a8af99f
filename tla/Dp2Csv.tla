------------------------------ MODULE Dp2Csv ------------------------------
(***************************************************************************)
(* koviz -dp2csv (src/koviz/main.cpp, the isCsv branch of main and        *)
(* writeCsv): every TABLE of every DP file is written to its own csv      *)
(* file.  A DP file with one table writes to the -dp2csv name itself; a   *)
(* DP file with several tables writes to completeBaseName_DPname_i.ext,   *)
(* i counting over the whole run.  writeCsv refuses an existing file,     *)
(* may fail to open, and otherwise writes the whole table.                *)
(* A path is a record [dir, name]: the -dp2csv path lies in CsvOutDir, an *)
(* indexed name is built from the base name alone and so lies in the      *)
(* working directory.                                                     *)
(***************************************************************************)
EXTENDS Integers, Sequences, FiniteSets

CONSTANTS
    DPChoices,      \* candidate DP file lists: sequences of table counts
    CsvOutDir,      \* directory part of the -dp2csv path ("cwd" or another)
    ExistingChoices,\* candidate sets of paths that exist before the run
    RunDirCounts,   \* candidate numbers of RUN directories given
    OpenMayFail     \* whether QFile::open(WriteOnly) can fail

ASSUME OpenMayFail \in BOOLEAN

VARIABLES
    dps,        \* the DP files given: dps[d] = number of tables of DP d
    runDirs,    \* number of RUN dirs given
    existing,   \* paths that existed before the run
    pc,         \* "start", "loop", "done"
    d, t,       \* the outer (DP file) and inner (table) foreach positions
    i,          \* the output index shared by all multi-table DP files
    ret,        \* main's ret
    written,    \* paths this run has written
    attempts,   \* history: the file names given to writeCsv, in order
    failed      \* history: writeCsv returned false at some point

vars == <<dps, runDirs, existing, pc, d, t, i, ret, written, attempts, failed>>

\* the -dp2csv path itself (DP indices start at 1: <<0, 0>> is no indexed name)
CsvOut == [dir |-> CsvOutDir, name |-> <<0, 0>>]
Indexed(dp, n) == [dir |-> "cwd", name |-> <<dp, n>>]

NTables == LET Sum[k \in 0..Len(dps)] == IF k = 0 THEN 0 ELSE Sum[k - 1] + dps[k]
           IN Sum[Len(dps)]

\* Mutant of FileName: the index is incremented before it is used.
FileNamePreIncrement == IF dps[d] > 1 THEN Indexed(d, i + 1) ELSE CsvOut

\* fname: the -dp2csv name, or completeBaseName_DPname_i.ext
FileName == IF dps[d] > 1 THEN Indexed(d, i) ELSE CsvOut

Exit(code) == ret' = code /\ pc' = "done"

Init ==
    /\ dps \in DPChoices /\ runDirs \in RunDirCounts /\ existing \in ExistingChoices
    /\ pc = "start" /\ d = 1 /\ t = 1 /\ i = 0 /\ ret = -1
    /\ written = {} /\ attempts = <<>> /\ failed = FALSE

\* "Exactly one RUN dir must be specified with the -csv option": exit(-1)
WrongRunDirs ==
    /\ pc = "start" /\ runDirs # 1 /\ Exit(-1)
    /\ UNCHANGED <<dps, runDirs, existing, d, t, i, written, attempts, failed>>

\* nTables == 0: "there must be data product TABLEs": exit(-1)
NoTables ==
    /\ pc = "start" /\ runDirs = 1 /\ NTables = 0 /\ Exit(-1)
    /\ UNCHANGED <<dps, runDirs, existing, d, t, i, written, attempts, failed>>

StartLoop ==
    /\ pc = "start" /\ runDirs = 1 /\ NTables > 0 /\ pc' = "loop"
    /\ UNCHANGED <<dps, runDirs, existing, d, t, i, ret, written, attempts, failed>>

\* fcsvi.exists()
Exists(f) == f \in existing \cup written

\* Mutant of WriteFailed: ret is left at the previous table's 0.
WriteFailedKeepRet == failed' = TRUE /\ t' = dps[d] + 1 /\ UNCHANGED ret

\* writeCsv returned false: ret = -1; break out of the tables loop
WriteFailed == ret' = -1 /\ failed' = TRUE /\ t' = dps[d] + 1

\* Compute fname (++i when indexed) and call writeCsv.
WriteTable ==
    /\ pc = "loop" /\ d <= Len(dps) /\ t <= dps[d]
    /\ i' = IF dps[d] > 1 THEN i + 1 ELSE i
    /\ attempts' = Append(attempts, FileName)
    /\ \/ Exists(FileName) /\ WriteFailed /\ UNCHANGED written   \* "Will not overwrite"
       \/ ~Exists(FileName) /\ OpenMayFail /\ WriteFailed /\ UNCHANGED written
       \/ /\ ~Exists(FileName)       \* header, blank line, rows; close; true
          /\ written' = written \cup {FileName}
          /\ ret' = 0 /\ t' = t + 1 /\ UNCHANGED failed
    /\ UNCHANGED <<dps, runDirs, existing, pc, d>>

\* Mutant of NextDP: the outer loop does not test ret.
NextDPNoBreak ==
    /\ pc = "loop" /\ d <= Len(dps) /\ t > dps[d] /\ d' = d + 1 /\ t' = 1
    /\ UNCHANGED <<dps, runDirs, existing, pc, i, ret, written, attempts, failed>>

\* end of a DP's tables: if ( ret == -1 ) break;
NextDP ==
    /\ pc = "loop" /\ d <= Len(dps) /\ t > dps[d]
    /\ \/ ret = -1 /\ pc' = "done" /\ UNCHANGED <<d, t>>
       \/ ret # -1 /\ d' = d + 1 /\ t' = 1 /\ UNCHANGED pc
    /\ UNCHANGED <<dps, runDirs, existing, i, ret, written, attempts, failed>>

LoopDone ==
    /\ pc = "loop" /\ d > Len(dps) /\ pc' = "done"
    /\ UNCHANGED <<dps, runDirs, existing, d, t, i, ret, written, attempts, failed>>

Next == WrongRunDirs \/ NoTables \/ StartLoop \/ WriteTable \/ NextDP \/ LoopDone

\* main runs the loop to completion on one thread.
Spec == Init /\ [][Next]_vars /\ WF_vars(Next)

-----------------------------------------------------------------------------
TypeOK ==
    /\ pc \in {"start", "loop", "done"}
    /\ ret \in {-1, 0}
    /\ written \subseteq {CsvOut} \cup {Indexed(x, n) : x \in 1..Len(dps), n \in 0..NTables - 1}
    /\ failed \in BOOLEAN

(* Spec 7: a batch stops at the first failure: once a writeCsv has       *)
(* failed, no later table is attempted.                                   *)
StopsAtFirstFailure == [][failed => attempts' = attempts]_vars

(* main exits 0 from -dp2csv only if no writeCsv failed and every table  *)
(* of every DP file has been written.                                    *)
SuccessMeansAllWritten ==
    (pc = "done" /\ ret = 0) => (~failed /\ Cardinality(written) = NTables)

(* When no writeCsv failed, the loop does not stop before it has written *)
(* every table of every DP file.                                         *)
NoTableSkipped ==
    (pc = "done" /\ ~failed /\ runDirs = 1 /\ NTables > 0) => Cardinality(written) = NTables

(* Every table of the run gets a file name of its own: no writeCsv is    *)
(* refused because of a file this same run wrote.                        *)
DistinctOutputNames == \A m, n \in 1..Len(attempts) : m # n => attempts[m] # attempts[n]

(* Every csv file is written beside the -dp2csv path the user gave.       *)
OutputsBesideRequested == \A f \in written : f.dir = CsvOutDir
=============================================================================
