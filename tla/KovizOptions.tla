---------------------------- MODULE KovizOptions ----------------------------
(***************************************************************************)
(* The option strings main() (src/koviz/main.cpp) turns into tables before *)
(* it loads anything: getVarMap (-map), getVarMapFromFile (-mapFile),      *)
(* getShiftHash (-shift) and getTimeNames (-timeName).  The properties are *)
(* about how these strings are cut up, so a string is kept as what it is,  *)
(* a sequence of one-character strings, and QString::split, trimmed and    *)
(* QHash::insert are modelled by what they do.  A result is [ok, map]: ok  *)
(* is FALSE where the code calls exit(-1).                                 *)
(***************************************************************************)
EXTENDS Integers, Sequences, SequencesExt

\* QString::split(c): the parts between the separators, empty ones kept
RECURSIVE Split(_, _)
Split(s, c) ==
    LET k == SelectInSeq(s, LAMBDA x : x = c) IN
    IF k = 0 THEN <<s>> ELSE <<SubSeq(s, 1, k - 1)>> \o Split(SubSeq(s, k + 1, Len(s)), c)

\* QString::split(c, QString::SkipEmptyParts)
SplitSkip(s, c) == SelectSeq(Split(s, c), LAMBDA p : p # <<>>)

\* QString::trimmed (the only white space in the model is " ")
Trimmed(s) ==
    LET kept == {i \in DOMAIN s : s[i] # " "} IN
    IF kept = {} THEN <<>> ELSE SubSeq(s, Min(kept), Max(kept))

NoMap == [k \in {} |-> <<>>]
Fail(r) == [r EXCEPT !.ok = FALSE]

\* Mutant of VarMapEntry: a key seen before keeps its first candidates.
VarMapEntryFirstWins(r, e) ==
    LET s    == Trimmed(e)
        list == Split(s, "=")
        key  == Trimmed(list[1])
        vals == [i \in 1..Len(list) - 1 |-> Trimmed(list[i + 1])]
    IN IF ~r.ok THEN r
       ELSE IF ~Contains(s, "=") \/ key = <<>> \/ \E i \in DOMAIN vals : vals[i] = <<>>
            THEN Fail(r)
            ELSE [r EXCEPT !.map = r.map @@ (key :> vals)]

\* one pass of getVarMap's foreach: "key=val1=val2..." is inserted (a key
\* seen before is overwritten); no '=', an empty key or an empty value exits
VarMapEntry(r, e) ==
    LET s    == Trimmed(e)
        list == Split(s, "=")
        key  == Trimmed(list[1])
        vals == [i \in 1..Len(list) - 1 |-> Trimmed(list[i + 1])]
    IN IF ~r.ok THEN r
       ELSE IF ~Contains(s, "=") \/ key = <<>> \/ \E i \in DOMAIN vals : vals[i] = <<>>
            THEN Fail(r)
            ELSE [r EXCEPT !.map = (key :> vals) @@ r.map]

\* getVarMap: an empty string is an empty map
GetVarMap(s) ==
    IF s = <<>> THEN [ok |-> TRUE, map |-> NoMap]
    ELSE FoldLeft(VarMapEntry, [ok |-> TRUE, map |-> NoMap], SplitSkip(s, ","))

\* getVarMapFromFile: readLine() drops the line end and the lines are
\* appended to one string with nothing between them
GetVarMapFromFile(lines) == GetVarMap(FlattenSeq(lines))

\* getTimeNames: the '='-separated names, each trimmed
GetTimeNames(s) == LET p == SplitSkip(s, "=") IN [i \in DOMAIN p |-> Trimmed(p[i])]

\* QVariant::toDouble(&ok) over the model's characters
IsDouble(v) == v # <<>> /\ \A i \in DOMAIN v : v[i] \in {"0", "1", "2"}

\* one pass of getShiftHash's foreach.  "run:val": run and val must be set,
\* run must be one of runDirs (absoluteFilePath compared; every name here
\* is relative to one directory), val a number; the fields after the second
\* are not looked at.  A bare "val" needs exactly one run and shifts it.
ShiftEntry(r, e, runDirs) ==
    LET s   == Trimmed(e)
        f   == Split(s, ":")
        run == Trimmed(f[1])
        val == IF Len(f) > 1 THEN Trimmed(f[2]) ELSE <<>>
    IN IF ~r.ok THEN r
       ELSE IF Contains(s, ":")
            THEN IF run = <<>> \/ val = <<>> \/ run \notin Range(runDirs) \/ ~IsDouble(val)
                 THEN Fail(r) ELSE [r EXCEPT !.map = (run :> val) @@ r.map]
            ELSE IF Len(runDirs) # 1 \/ ~IsDouble(s)
                 THEN Fail(r) ELSE [r EXCEPT !.map = (runDirs[1] :> s) @@ r.map]

\* getShiftHash: nothing to shift without a -shift string or without runs
GetShiftHash(s, runDirs) ==
    IF s = <<>> \/ runDirs = <<>> THEN [ok |-> TRUE, map |-> NoMap]
    ELSE FoldLeft(LAMBDA r, e : ShiftEntry(r, e, runDirs),
                  [ok |-> TRUE, map |-> NoMap], SplitSkip(s, ","))
====
