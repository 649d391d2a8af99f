-------------------------- MODULE FieldDescription --------------------------
(***************************************************************************)
(* FieldDescription (src/trick_source/codegen/Interface_Code_Gen/         *)
(* FieldDescription.cpp): what Trick's interface code generator records of *)
(* one field.  The constructor sets io = 3, units = "1", no dimensions;    *)
(* parseComment reads the field's comment for trick_chkpnt_io, trick_io,  *)
(* trick_units, a stand-alone *io spec and stand-alone units, checks the  *)
(* units against udunits through the global cache valid_units, and folds  *)
(* the checkpoint io into bits 2-3 of io; addArrayDim appends a dimension *)
(* to array_sizes[8].  Fields are described one after another; the cache  *)
(* outlives them.                                                          *)
(*                                                                         *)
(* A comment is abstracted to what the regular expressions pick out of it: *)
(*   empty  the comment is the empty string                                *)
(*   chk    the text of trick_chkpnt_io(...), or ""                        *)
(*   tio    the text of trick_io(...), or ""                               *)
(*   hasTu  "trick_units" occurs; tu is the text after it, char by char   *)
(*   star   a stand-alone *io, *oi, *i, *o or ** at the start, or ""      *)
(*   lead   what stands first after those are removed: "(text" (paren),  *)
(*          a word, or nothing                                             *)
(*   rest   what is left of the comment after all of these, "*/" included *)
(*          for a C comment, character by character                        *)
(***************************************************************************)
EXTENDS Integers, Sequences, SequencesExt, Bitwise

CONSTANTS
    Comments,     \* the comments fields can carry
    Udunits,      \* the unit strings ut_parse accepts
    MapUnits(_),  \* map_trick_units_to_udunits: old Trick unit names to udunits
    DimSizes,     \* array dimensions a field can have
    MaxFields,    \* bound on the fields described
    MaxDims       \* bound on addArrayDim calls per field

One    == <<"1">>
Dashes == <<"-", "-">>
NoUnits == [found |-> FALSE, units |-> <<>>]

VARIABLES
    io, units, numDims, arraySizes,   \* the members
    parsed,       \* parseComment has run on this field
    validUnits,   \* the global valid_units
    fields,       \* fields described so far
    last,         \* history: the comment parseComment last read
    lastTu,       \* history: what its trick_units matching yielded
    added,        \* history: the dimensions added to this field, in order
    description   \* the member

vars == <<io, units, numDims, arraySizes, parsed, validUnits, fields, last, lastTu, added, description>>

\* create_io_map; io_map[s] of a key it lacks inserts and returns 0
IoMap(s) ==
    CASE s \in {"", "oi", "*oi", "io", "*io"} -> 3
      [] s \in {"o", "*o"} -> 1
      [] s \in {"i", "*i"} -> 2
      [] s = "--" -> 4
      [] OTHER -> 0

\* the constructor
Fresh ==
    /\ io' = 3 /\ units' = One /\ numDims' = 0 /\ arraySizes' = [k \in 0..7 |-> 0]
    /\ parsed' = FALSE /\ added' = <<>> /\ description' = <<>>
    /\ last' = (CHOOSE c \in Comments : c.empty) /\ lastTu' = NoUnits

Init ==
    /\ io = 3 /\ units = One /\ numDims = 0 /\ arraySizes = [k \in 0..7 |-> 0]
    /\ parsed = FALSE /\ added = <<>> /\ description = <<>>
    /\ validUnits = {} /\ fields = 1 /\ last = CHOOSE c \in Comments : c.empty
    /\ lastTu = NoUnits

NewField ==
    /\ fields < MaxFields /\ fields' = fields + 1 /\ Fresh
    /\ UNCHANGED validUnits

-----------------------------------------------------------------------------
(* trick_units: comment[ustart], the character after "trick_units", is     *)
(* pushed; then each character pushes "(", or pops the top on ")" over     *)
(* "(" and on "}" over "{", until the stack is empty or the comment ends.  *)
(* s is the comment from ustart on; the result is the index after the     *)
(* closing character, or 0 if the stack never empties.                     *)
RECURSIVE MatchEnd(_, _, _)
MatchEnd(s, k, stack) ==
    IF stack = <<>> THEN k
    ELSE IF k > Len(s) THEN 0
    ELSE MatchEnd(s, k + 1,
            CASE s[k] = "(" -> Append(stack, "(")
              [] s[k] = ")" /\ Last(stack) = "(" -> Front(stack)
              [] s[k] = "}" /\ Last(stack) = "{" -> Front(stack)
              [] OTHER -> stack)

\* Mutant of TrickUnits: the length passed to substr keeps the closing character.
TrickUnitsWithCloser(s) ==
    LET e == IF s = <<>> THEN 0 ELSE MatchEnd(s, 2, <<s[1]>>) IN
    IF e = 0 THEN NoUnits ELSE [found |-> TRUE, units |-> SubSeq(s, 2, e - 1)]

\* units = comment.substr(ustart + 1, uend - ustart - 2); at the end of the
\* comment comment[ustart] is '\0', which never pops
TrickUnits(s) ==
    LET e == IF s = <<>> THEN 0 ELSE MatchEnd(s, 2, <<s[1]>>) IN
    IF e = 0 THEN NoUnits ELSE [found |-> TRUE, units |-> SubSeq(s, 2, e - 2)]

\* the stand-alone units: "^\s*\(([^\)]*)\)", else "^\s*([^ \t\n\r)]*)"
LeadUnits(l) ==
    LET close == SelectInSeq(l.text, LAMBDA ch : ch = ")")
        upto  == IF close = 0 THEN l.text ELSE SubSeq(l.text, 1, close - 1)
    IN CASE l.form = "paren" /\ close > 1 -> [found |-> TRUE, units |-> upto]
         [] l.form = "paren" -> [found |-> TRUE, units |-> <<"(">> \o upto]
         [] l.form = "word" /\ l.text # <<>> -> [found |-> TRUE, units |-> l.text]
         [] OTHER -> NoUnits

\* Mutant of Validate: the units enter valid_units before ut_parse has passed them.
ValidateCacheAll(u, vu) ==
    IF u = Dashes THEN [units |-> One, cache |-> vu]
    ELSE LET n == MapUnits(u) IN
         [units |-> IF n \in Udunits THEN n ELSE One, cache |-> vu \cup {n}]

\* "--" becomes "1"; else map old names, ut_parse, and cache what passes
Validate(u, vu) ==
    IF u = Dashes THEN [units |-> One, cache |-> vu]
    ELSE LET n == MapUnits(u) IN
         IF n \in Udunits THEN [units |-> n, cache |-> vu \cup {n}]
         ELSE [units |-> One, cache |-> vu]

\* Mutant of ComposeIo: the checkpoint spec is shifted three bits up.
ComposeIoShift3(io1, c) ==
    LET io2 == IF io1 = 4 THEN 3 ELSE io1
    IN IF c.chk # "" THEN io2 | (IoMap(c.chk) * 8) ELSE io2 | (io2 * 8)

\* "--" is set to *io (3); then the checkpoint spec, or else a copy of
\* the io spec, is or-ed in two bits up
ComposeIo(io1, c) ==
    LET io2 == IF io1 = 4 THEN 3 ELSE io1
    IN IF c.chk # "" THEN io2 | (IoMap(c.chk) * 4) ELSE io2 | (io2 * 4)

Blanks == {" ", "\t", "\n"}

\* trim() of Utilities (not in this repository): blanks off both ends
TrimBlanks(s) ==
    LET kept == {i \in DOMAIN s : s[i] \notin Blanks} IN
    IF kept = {} THEN <<>> ELSE SubSeq(s, Min(kept), Max(kept))

\* get_regex_field(comment, "(.*)\\*/", 1): the text before the last "*/",
\* or "" when there is none (regexec fails)
BeforeEnd(s) ==
    LET ends == {i \in 1..Len(s) - 1 : s[i] = "*" /\ s[i + 1] = "/"} IN
    IF ends = {} THEN <<>> ELSE SubSeq(s, 1, Max(ends) - 1)

\* get_regex_field(comment, "^[ \t\n\r@]+(.*)", 1): the text after the
\* leading blanks and "@"s, or "" when it does not start with one
AfterLead(s) ==
    LET lead == {i \in DOMAIN s : \A j \in 1..i : s[j] \in Blanks \cup {"@"}} IN
    IF lead = {} THEN <<>> ELSE SubSeq(s, Max(lead) + 1, Len(s))

\* one character of the escape loop: \ and " are escaped, a run of blanks
\* becomes one space (is_space), anything else is copied
EscapeChar(r, ch) ==
    CASE ch = "\\" -> [out |-> r.out \o <<"\\", "\\">>, sp |-> FALSE]
      [] ch = "\"" -> [out |-> r.out \o <<"\\", "\"">>, sp |-> FALSE]
      [] ch \in Blanks -> [out |-> IF r.sp THEN r.out ELSE Append(r.out, " "), sp |-> TRUE]
      [] OTHER -> [out |-> Append(r.out, ch), sp |-> FALSE]

\* Mutant of Describe: is_space is never set, so blanks are not collapsed.
DescribeNoCollapse(rest) ==
    FoldLeft(LAMBDA r, ch : IF ch \in Blanks THEN [out |-> Append(r.out, " "), sp |-> FALSE]
                            ELSE EscapeChar(r, ch),
             [out |-> <<>>, sp |-> FALSE], TrimBlanks(AfterLead(BeforeEnd(rest)))).out

\* the end of parseComment: end marker, leading blanks and "@", trim, escape
Describe(rest) ==
    FoldLeft(EscapeChar, [out |-> <<>>, sp |-> FALSE], TrimBlanks(AfterLead(BeforeEnd(rest)))).out

\* parseComment, from the empty-comment return to io |= ... << 2
ParseComment ==
    /\ ~parsed /\ parsed' = TRUE
    /\ \E c \in Comments :
       LET tu   == IF c.hasTu THEN TrickUnits(c.tu) ELSE NoUnits
           io1  == IF c.tio # "" THEN IoMap(c.tio)
                   ELSE IF c.star # "" THEN IoMap(c.star) ELSE io
           u    == IF tu.found THEN tu ELSE LeadUnits(c.lead)
           v    == IF u.found /\ io1 # 0 /\ u.units \notin validUnits
                   THEN Validate(u.units, validUnits)
                   ELSE [units |-> IF u.found THEN u.units ELSE units, cache |-> validUnits]
       IN /\ last' = c /\ lastTu' = tu
          /\ IF c.empty
             THEN io' = 15 /\ UNCHANGED <<units, validUnits, description>>
             ELSE /\ units' = v.units /\ validUnits' = v.cache
                  /\ io' = ComposeIo(io1, c) /\ description' = Describe(c.rest)
    /\ UNCHANGED <<numDims, arraySizes, fields, added>>

\* getArrayDim(dim_num): array_sizes[dim_num] if dim_num < 8, else 0
GetArrayDim(k) == IF k < 8 THEN arraySizes[k] ELSE 0

\* array_sizes[num_dims++] = in_dim, with no bound check: a ninth dimension
\* is written past the array (undefined behaviour; arraySizes is not changed)
AddArrayDim ==
    /\ numDims < MaxDims
    /\ \E d \in DimSizes :
          /\ arraySizes' = IF numDims < 8 THEN [arraySizes EXCEPT ![numDims] = d] ELSE arraySizes
          /\ numDims' = numDims + 1 /\ added' = Append(added, d)
    /\ UNCHANGED <<io, units, parsed, validUnits, fields, last, lastTu, description>>

Next == NewField \/ ParseComment \/ AddArrayDim

\* Fields are described one at a time; nothing obliges another step.
Spec == Init /\ [][Next]_vars

-----------------------------------------------------------------------------
TypeOK ==
    /\ io \in 0..31 /\ numDims \in 0..MaxDims /\ parsed \in BOOLEAN
    /\ units \in Seq(STRING) /\ \A u \in validUnits : u \in Seq(STRING)

(* What a bracketed units text is, stated without a stack: after "(" the  *)
(* text runs to the first point where the round brackets balance; after   *)
(* "{" it runs to the first "}" at which no "(" opened inside is left     *)
(* open, a ")" with nothing open counting for nothing.  The "(" left open *)
(* at the end of t is the largest surplus of "(" over ")" of a suffix.    *)
Count(ch, t) == Len(SelectSeq(t, LAMBDA x : x = ch))

OpenRound(t) ==
    Max({Count("(", SubSeq(t, k, Len(t))) - Count(")", SubSeq(t, k, Len(t))) : k \in 1..Len(t) + 1})

Closes(s, j) ==
    CASE s[1] = "(" -> Count("(", SubSeq(s, 1, j)) = Count(")", SubSeq(s, 1, j))
      [] s[1] = "{" -> s[j] = "}" /\ OpenRound(SubSeq(s, 2, j - 1)) = 0
      [] OTHER -> FALSE

RefUnits(s) ==
    IF s # <<>> /\ \E j \in 2..Len(s) : Closes(s, j)
    THEN LET j == CHOOSE j \in 2..Len(s) : Closes(s, j) /\ \A i \in 2..j - 1 : ~Closes(s, i)
         IN [found |-> TRUE, units |-> SubSeq(s, 2, j - 1)]
    ELSE NoUnits

(* The stack loop of parseComment takes from trick_units(...) or          *)
(* trick_units{...} exactly the bracketed text, nested brackets included, *)
(* and reports an unmatched bracket exactly when there is one.            *)
UnitsMatchReference == last.hasTu => lastTu = RefUnits(last.tu)

(* A field whose io is not ** never keeps units udunits rejects: the units *)
(* parseComment leaves are "1" or a string ut_parse accepts, also when the *)
(* check is skipped because valid_units holds them from an earlier field. *)
UnitsValidated ==
    [][(~parsed /\ parsed' /\ io' % 4 # 0) => units' \in Udunits \cup {One}]_vars

(* io is four bits: the io spec, and above it the trick_chkpnt_io spec (a *)
(* "--" read as *io, as trick_io's is) or else a copy of the io spec.      *)
IoNorm(x) == IF x = 4 THEN 3 ELSE x

CheckpointBits ==
    [][(~parsed /\ parsed' /\ ~last'.empty)
         => /\ io' < 16
            /\ io' \div 4 = IF last'.chk # "" THEN IoNorm(IoMap(last'.chk)) ELSE io' % 4]_vars

(* getArrayDim(k) returns the k-th dimension addArrayDim was given, for   *)
(* every k below getNumDims().                                             *)
DimsRecorded == \A k \in 0..numDims - 1 : GetArrayDim(k) = added[k + 1]
(* The text of a C comment after its specs ("/* (m) text */") is what     *)
(* parseComment keeps as the description, escaped for a C string: undoing *)
(* the escapes gives the text, trimmed, with each run of blanks one space. *)
RECURSIVE Unescape(_)
Unescape(d) ==
    IF Len(d) < 2 \/ d[1] # "\\" THEN IF d = <<>> THEN <<>> ELSE <<d[1]>> \o Unescape(Tail(d))
    ELSE <<d[2]>> \o Unescape(SubSeq(d, 3, Len(d)))

Collapsed(t) ==
    LET keep == {i \in DOMAIN t : t[i] \notin Blanks \/ i = 1 \/ t[i - 1] \notin Blanks}
        idx  == SetToSortSeq(keep, <)
    IN [k \in DOMAIN idx |-> IF t[idx[k]] \in Blanks THEN " " ELSE t[idx[k]]]

TextOf(rest) ==
    LET e == IF \E i \in 1..Len(rest) - 1 : rest[i] = "*" /\ rest[i + 1] = "/"
             THEN SubSeq(rest, 1, Len(rest) - 2) ELSE rest
    IN TrimBlanks(e)

DescriptionRoundTrip ==
    (parsed /\ ~last.empty /\ Len(last.rest) > 2 /\ last.rest[1] \in Blanks
      /\ SubSeq(last.rest, Len(last.rest) - 1, Len(last.rest)) = <<"*", "/">>)
        => Unescape(description) = Collapsed(TextOf(last.rest))

(* Text left after a comment's specs is never lost: when any character    *)
(* other than blanks and "*/" remains, the description is not empty.       *)
DescriptionKept ==
    (parsed /\ ~last.empty /\ \E i \in DOMAIN last.rest : last.rest[i] \notin Blanks \cup {"*", "/", "@"})
        => description # <<>>
====
