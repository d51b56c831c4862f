------------------------------ MODULE SlogSpec ------------------------------
(***************************************************************************)
(* What the slog parser promises (spec.md sections 3, 4.1, 6, 8), as one   *)
(* atomic step from "pending" to the outcome of parsing the whole file.    *)
(*                                                                         *)
(* A file is a sequence of lines; a line is the sequence of its            *)
(* whitespace-separated tokens (what str.split() returns), so a line that  *)
(* is empty after strip() is the empty sequence.  Lines 1..5 are ignored,  *)
(* the header block runs up to the first blank line, one column-title line *)
(* follows, then the data lines.                                           *)
(*                                                                         *)
(* The result is a record: status "pending", "failed" or "done", and for  *)
(* "done"                                                                  *)
(*   columns   : column index -> disambiguated name (the registry, read    *)
(*               column-wise, so a lost or doubled key shows),             *)
(*   disambig  : disambiguated name -> original name, renamed names only,  *)
(*   records   : one name -> token function per data line, in file order. *)
(***************************************************************************)
EXTENDS Integers, Sequences, SequencesExt, FiniteSets

VARIABLES
  file,    \* the input, as read from the stream; never changes
  result   \* Pending, then Failed or the parse result

vars == <<file, result>>

PreambleLength == 5

\* "(" + str(n) + ")", the second token of the n-th column description line.
ColTag(n) == "(" \o ToString(n) \o ")"

\* name + "__" + str(i), the disambiguated name of the i-th occurrence.
Disamb(name, i) == name \o "__" \o ToString(i)

\* A data line that is skipped: empty after strip(), or starting with "%".
PercentTokens == {"%%", "%"}
IsCommentLine(l) == l = <<>> \/ (l # <<>> /\ l[1] \in PercentTokens)

AfterPreamble(f) == SubSeq(f, PreambleLength + 1, Len(f))

\* The header block: the lines before the first blank line (or to the end).
HeaderBlock(f) ==
  LET rest == AfterPreamble(f)
      i    == SelectInSeq(rest, LAMBDA l : l = <<>>)
  IN  IF i = 0 THEN rest ELSE SubSeq(rest, 1, i - 1)

\* The data lines: everything after the blank line and the title line.
Body(f) ==
  LET rest == AfterPreamble(f)
      i    == SelectInSeq(rest, LAMBDA l : l = <<>>)
  IN  IF i = 0 THEN <<>> ELSE SubSeq(rest, i + 2, Len(rest))

WellFormedHeader(h) ==
  \A i \in 1..Len(h) : Len(h[i]) = 3 /\ h[i][1] = "%%" /\ h[i][2] = ColTag(i)

\* Declarative disambiguation (section 3): a name met once keeps its name;
\* the j-th of k > 1 occurrences becomes name__j.
Occurrences(names, n) == Cardinality({j \in 1..Len(names) : names[j] = n})
Rank(names, i) == Cardinality({j \in 1..i : names[j] = names[i]})
KeyOf(names, i) ==
  IF Occurrences(names, names[i]) = 1 THEN names[i]
  ELSE Disamb(names[i], Rank(names, i))

NamesOf(h) == [i \in 1..Len(h) |-> h[i][3]]
Columns(h) == [i \in 1..Len(h) |-> KeyOf(NamesOf(h), i)]
DisambigMap(h) ==
  LET names   == NamesOf(h)
      renamed == {i \in 1..Len(h) : Occurrences(names, names[i]) > 1}
  IN  [k \in {KeyOf(names, i) : i \in renamed} |->
         names[CHOOSE i \in renamed : KeyOf(names, i) = k]]

DataLines(f) == SelectSeq(Body(f), LAMBDA l : ~IsCommentLine(l))

WellFormed(f) ==
  /\ WellFormedHeader(HeaderBlock(f))
  /\ \A i \in 1..Len(DataLines(f)) :
        Len(DataLines(f)[i]) = Len(HeaderBlock(f))

\* Record of one data line: each column's name maps to that column's token.
RecordOf(h, l) == [k \in Range(Columns(h)) |->
                     l[CHOOSE i \in 1..Len(h) : Columns(h)[i] = k]]

Returned(columns, disambig, recs) ==
  [status |-> "done", columns |-> columns, disambig |-> disambig, records |-> recs]
Pending == [status |-> "pending", columns |-> <<>>, disambig |-> <<>>, records |-> <<>>]
Failed  == [Pending EXCEPT !.status = "failed"]

Outcome(f) ==
  IF WellFormed(f)
  THEN LET h == HeaderBlock(f) IN
       Returned(Columns(h), DisambigMap(h),
                [i \in 1..Len(DataLines(f)) |-> RecordOf(h, DataLines(f)[i])])
  ELSE Failed

Init == result = Pending

Parse ==
  /\ result = Pending
  /\ result' = Outcome(file)
  /\ UNCHANGED file

Next == Parse

Spec == Init /\ [][Next]_vars /\ WF_vars(Next)
=============================================================================
