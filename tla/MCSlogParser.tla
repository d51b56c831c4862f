---------------------------- MODULE MCSlogParser ----------------------------
(***************************************************************************)
(* Inputs for checking SlogParser with TLC.                                *)
(*                                                                         *)
(* Header blocks of up to MaxColumns lines, each a well-formed column      *)
(* description for any column number and name, or one of two malformed    *)
(* lines (too few tokens; first token not %%).  Data blocks of up to       *)
(* MaxDataLines lines: blank, a %-comment, or 1..MaxColumns tokens whose   *)
(* text names their column ("x2" is the 2nd token), so a record that reads *)
(* the wrong column is told apart.                                         *)
(***************************************************************************)
EXTENDS SlogParser

MaxColumns == 3
MaxDataLines == 2

ColumnLines(names, maxCol) ==
  {<<"%%", Abs!ColTag(i), n>> : i \in 1..maxCol, n \in names}
MalformedLines == {<<"%%", "(1)">>, <<"%", "(1)", "A">>}

TokenLine(n) == [i \in 1..n |-> "x" \o ToString(i)]
MCDataLines == {<<>>, <<"%", "comment">>} \cup {TokenLine(n) : n \in 1..MaxColumns}
MCDataBlocks == BoundedSeq(MCDataLines, MaxDataLines)

\* Distinct names only: the inputs for which spec.md defines the result.
MCHeaderBlocks ==
  BoundedSeq(ColumnLines({"A", "B"}, MaxColumns) \cup MalformedLines, MaxColumns)

\* Also a name that looks like a disambiguated one, and the four-column
\* headers over {A, A__1} that reach the rename report's assertion.
MCCollidingHeaderBlocks ==
  BoundedSeq(ColumnLines({"A", "B", "A__1"}, MaxColumns) \cup MalformedLines,
             MaxColumns)
  \cup {[i \in 1..4 |-> <<"%%", Abs!ColTag(i), n[i]>>] : n \in [1..4 -> {"A", "A__1"}]}

\* Run as __main__ under Python 2.5: the build the code was written for.
MainBuild == {[sys_bound |-> TRUE, str_raise |-> TRUE]}
\* Imported by slog-to-taml.py (sys unbound), under Python 2.5.
ImportedBuild == {[sys_bound |-> FALSE, str_raise |-> TRUE]}
\* Run as __main__ under Python 2.6 or later.
LaterPythonBuild == {[sys_bound |-> TRUE, str_raise |-> FALSE]}
AllBuilds == [sys_bound : BOOLEAN, str_raise : BOOLEAN]
=============================================================================
