----------------------------- MODULE SlogParser -----------------------------
(***************************************************************************)
(* parse_slog, parse_slog_header and parse_one_line of                     *)
(* src/ivp/scripts/slog-to-taml/slog_util.py, one step per line read.      *)
(*                                                                         *)
(* A line is the sequence of its tokens (str.split()); strip() == "" is    *)
(* the empty sequence.  The stream is the sequence of lines not yet read.  *)
(* Names are strings and disambiguated names are built with \o exactly as  *)
(* the code builds them with +, so a header name that already looks like   *)
(* FOO__1 collides with a generated one the way it does in the code.       *)
(*                                                                         *)
(* Two facts about how the module is run decide which exception a fatal    *)
(* error raises, and both are part of the state ("build"):                 *)
(*   sys_bound : 'sys' is a global of slog_util.  Only true when the file  *)
(*               runs as __main__ (line 208 imports it there); imported    *)
(*               by slog-to-taml.py, every use of sys raises NameError.    *)
(*   str_raise : the interpreter accepts raise "text" (Python <= 2.5); on  *)
(*               later versions it raises TypeError and the text is lost.  *)
(***************************************************************************)
EXTENDS Integers, Sequences, SequencesExt, Functions, TLC

CONSTANTS
  HeaderBlocks,  \* candidate header blocks: sequences of non-blank lines
  DataBlocks,    \* candidate bodies: sequences of data / comment lines
  Builds         \* subset of [sys_bound : BOOLEAN, str_raise : BOOLEAN]

ASSUME Builds \subseteq [sys_bound : BOOLEAN, str_raise : BOOLEAN]

VARIABLES
  file,                         \* the whole input (history; never changes)
  build,                        \* how the module is run, see above
  lines,                        \* lines of the stream not read yet
  phase,                        \* where parse_slog is
  col_number,                   \* parse_slog_header locals ...
  num_var_occurrences,
  var_name_to_col_number,
  disambig_to_ambig_dict,
  variable_renaming_required,
  records,                      \* parse_slog's list 'lines'
  exc                           \* the exception that ended the parse

vars == <<file, build, lines, phase, col_number, num_var_occurrences,
          var_name_to_col_number, disambig_to_ambig_dict,
          variable_renaming_required, records, exc>>

\* The registry read column-wise: column index -> the name that holds it.
ColumnsOf(reg) == [i \in Range(reg) |-> CHOOSE k \in DOMAIN reg : reg[k] = i]

\* Refinement mapping: the returned (registry, disambig, list), once
\* parse_slog has returned; "failed" once it has raised.
ParseResult ==
  [status   |-> IF phase \in {"done", "failed"} THEN phase ELSE "pending",
   columns  |-> IF phase = "done" THEN ColumnsOf(var_name_to_col_number) ELSE <<>>,
   disambig |-> IF phase = "done" THEN disambig_to_ambig_dict ELSE <<>>,
   records  |-> IF phase = "done" THEN records ELSE <<>>]

Abs == INSTANCE SlogSpec WITH result <- ParseResult

Blank == <<>>
PreambleLine == <<"%%", "preamble">>
TitleLine == <<"TITLE">>

Phases == {"preamble", "header", "data", "done", "failed"}
Exceptions == {"none", "StringException", "TypeError", "SystemExit",
               "NameError", "IndexError", "AssertionError"}

\* Files of the form the parser reads: 5 ignored lines, a header block, the
\* blank line, the column-title line, the data lines.
Files == {[i \in 1..Abs!PreambleLength |-> PreambleLine] \o h \o <<Blank, TitleLine>> \o d :
            h \in HeaderBlocks, d \in DataBlocks}

\* infile.readline().strip(): the next line, or "" at end of file.
NextLine == IF lines = <<>> THEN Blank ELSE Head(lines)
Consume(ls) == IF ls = <<>> THEN ls ELSE Tail(ls)

\* dict item assignment and del, on TLA+ functions.
Put(f, k, x) == [y \in DOMAIN f \cup {k} |-> IF y = k THEN x ELSE f[y]]
Del(f, k) == Restrict(f, DOMAIN f \ {k})

\* raise "..." : the string itself on Python <= 2.5, else a TypeError.
RaiseString == IF build.str_raise THEN "StringException" ELSE "TypeError"

Fail(e) ==
  /\ phase' = "failed"
  /\ exc' = e

HeaderLocals == <<col_number, num_var_occurrences, var_name_to_col_number,
                  disambig_to_ambig_dict, variable_renaming_required>>

-----------------------------------------------------------------------------
Init ==
  /\ file \in Files
  /\ build \in Builds
  /\ lines = file
  /\ phase = "preamble"
  /\ col_number = 1
  /\ num_var_occurrences = <<>>
  /\ var_name_to_col_number = <<>>
  /\ disambig_to_ambig_dict = <<>>
  /\ variable_renaming_required = FALSE
  /\ records = <<>>
  /\ exc = "none"

\* for i in range(5): input_file.readline()
SkipPreamble ==
  /\ phase = "preamble"
  /\ lines' = SubSeq(lines, Abs!PreambleLength + 1, Len(lines))
  /\ phase' = "header"
  /\ UNCHANGED <<file, build, records, exc>> /\ UNCHANGED HeaderLocals

IsColumnDescription(f) == Len(f) = 3 /\ f[1] = "%%"

\* Line 36: not three tokens, or the first is not %%.
HeaderShapeError ==
  /\ phase = "header"
  /\ NextLine # Blank
  /\ ~IsColumnDescription(NextLine)
  /\ Fail(RaiseString)
  /\ lines' = Consume(lines)
  /\ UNCHANGED <<file, build, records>> /\ UNCHANGED HeaderLocals

\* Line 40: the column number is not the running count.
HeaderSequenceError ==
  /\ phase = "header"
  /\ IsColumnDescription(NextLine)
  /\ NextLine[2] # Abs!ColTag(col_number)
  /\ Fail(RaiseString)
  /\ lines' = Consume(lines)
  /\ UNCHANGED <<file, build, records>> /\ UNCHANGED HeaderLocals

\* Mutant: the column number is not checked against the running count.
ColumnLineOKUnchecked ==
  /\ phase = "header"
  /\ IsColumnDescription(NextLine)

ColumnLineOK ==
  /\ phase = "header"
  /\ IsColumnDescription(NextLine)
  /\ NextLine[2] = Abs!ColTag(col_number)

\* Mutant: the earlier occurrence is never moved to var_name__1.
RenameFirstEntryDropped(reg, var_name, n) == reg

\* Lines 52-62: at the second occurrence (count n = 1 so far) the earlier
\* entry is moved to var_name__1, overwriting any entry of that name.
RenameFirstEntry(reg, var_name, n) ==
  IF n = 1 THEN Put(Del(reg, var_name), Abs!Disamb(var_name, 1), reg[var_name])
  ELSE reg

RenameFirstDisambig(dis, var_name, n) ==
  IF n = 1 THEN Put(dis, Abs!Disamb(var_name, 1), var_name) ELSE dis

\* Lines 69-71: first occurrence of var_name.
FirstOccurrence(var_name) ==
  /\ var_name \notin DOMAIN num_var_occurrences
  /\ num_var_occurrences' = Put(num_var_occurrences, var_name, 1)
  /\ var_name_to_col_number' = Put(var_name_to_col_number, var_name, col_number)
  /\ UNCHANGED <<disambig_to_ambig_dict, variable_renaming_required>>

\* Lines 49-68: a repeated var_name, stored as var_name__<count>.
RepeatedOccurrence(var_name) ==
  LET n       == num_var_occurrences[var_name]
      current == Abs!Disamb(var_name, n + 1)
  IN
  /\ var_name \in DOMAIN num_var_occurrences
  /\ variable_renaming_required' = TRUE
  /\ num_var_occurrences' = [num_var_occurrences EXCEPT ![var_name] = n + 1]
  /\ var_name_to_col_number' =
        Put(RenameFirstEntry(var_name_to_col_number, var_name, n), current, col_number)
  /\ disambig_to_ambig_dict' =
        Put(RenameFirstDisambig(disambig_to_ambig_dict, var_name, n), current, var_name)

\* Mutant: col_number += 1 forgotten.
NextColumnNoIncrement ==
  /\ col_number' = col_number
  /\ lines' = Consume(lines)

\* Lines 73-74: next column number, next line.
NextColumn ==
  /\ col_number' = col_number + 1
  /\ lines' = Consume(lines)

\* Lines 34-74: one well-formed column description line.
RecordColumn ==
  /\ ColumnLineOK
  /\ FirstOccurrence(NextLine[3]) \/ RepeatedOccurrence(NextLine[3])
  /\ NextColumn
  /\ UNCHANGED <<file, build, phase, records, exc>>

\* Line 102: assert(disamb_name in var_name_to_col_number) for every
\* base name met more than once.
ReportAssertFails ==
  \E v \in DOMAIN num_var_occurrences :
    /\ num_var_occurrences[v] > 1
    /\ \E i \in 1..num_var_occurrences[v] :
          Abs!Disamb(v, i) \notin DOMAIN var_name_to_col_number

\* Lines 78-79: the rename report's first print >> sys.stderr, with sys
\* unbound.
RenameReportNameError ==
  /\ phase = "header"
  /\ NextLine = Blank
  /\ variable_renaming_required
  /\ ~build.sys_bound
  /\ Fail("NameError")
  /\ lines' = Consume(lines)
  /\ UNCHANGED <<file, build, records>> /\ UNCHANGED HeaderLocals

\* Lines 96-103: the report loop's assertion fails.
RenameReportAssertFails ==
  /\ phase = "header"
  /\ NextLine = Blank
  /\ variable_renaming_required
  /\ build.sys_bound
  /\ ReportAssertFails
  /\ Fail("AssertionError")
  /\ lines' = Consume(lines)
  /\ UNCHANGED <<file, build, records>> /\ UNCHANGED HeaderLocals

\* Lines 34, 77-115: the blank line ends the header (after the report, if
\* any renaming was done); the column-title line is read and dropped.
EndHeader ==
  /\ phase = "header"
  /\ NextLine = Blank
  /\ variable_renaming_required => build.sys_bound /\ ~ReportAssertFails
  /\ lines' = Consume(Consume(lines))
  /\ phase' = "data"
  /\ UNCHANGED <<file, build, records, exc>> /\ UNCHANGED HeaderLocals

\* Lines 189-191: blank and %-lines are skipped.
SkipDataLine ==
  /\ phase = "data"
  /\ lines # <<>>
  /\ Abs!IsCommentLine(Head(lines))
  /\ lines' = Tail(lines)
  /\ UNCHANGED <<file, build, phase, records, exc>> /\ UNCHANGED HeaderLocals

DataLineOK ==
  /\ phase = "data"
  /\ lines # <<>>
  /\ ~Abs!IsCommentLine(Head(lines))

\* Lines 146-159: wrong number of fields; sys.exit(error_str), which is
\* itself a NameError when sys is unbound.
FieldCountError ==
  /\ DataLineOK
  /\ Len(Head(lines)) # Cardinality(DOMAIN var_name_to_col_number)
  /\ Fail(IF build.sys_bound THEN "SystemExit" ELSE "NameError")
  /\ lines' = Tail(lines)
  /\ UNCHANGED <<file, build, records>> /\ UNCHANGED HeaderLocals

\* Line 163: fields[col_number-1] past the end of the line.
FieldIndexError ==
  /\ DataLineOK
  /\ Len(Head(lines)) = Cardinality(DOMAIN var_name_to_col_number)
  /\ ~(Range(var_name_to_col_number) \subseteq 1..Len(Head(lines)))
  /\ Fail("IndexError")
  /\ lines' = Tail(lines)
  /\ UNCHANGED <<file, build, records>> /\ UNCHANGED HeaderLocals

\* parse_one_line, lines 161-166, and the append at line 193.
ParseOneLine ==
  LET fields == Head(lines) IN
  /\ DataLineOK
  /\ Len(fields) = Cardinality(DOMAIN var_name_to_col_number)
  /\ Range(var_name_to_col_number) \subseteq 1..Len(fields)
  /\ records' = Append(records,
                  [k \in DOMAIN var_name_to_col_number |->
                     fields[var_name_to_col_number[k]]])
  /\ lines' = Tail(lines)
  /\ UNCHANGED <<file, build, phase, exc>> /\ UNCHANGED HeaderLocals

\* Line 195: every line read; the list is returned.
FinishParse ==
  /\ phase = "data"
  /\ lines = <<>>
  /\ phase' = "done"
  /\ UNCHANGED <<file, build, lines, records, exc>> /\ UNCHANGED HeaderLocals

Next ==
  \/ SkipPreamble
  \/ HeaderShapeError
  \/ HeaderSequenceError
  \/ RecordColumn
  \/ RenameReportNameError
  \/ RenameReportAssertFails
  \/ EndHeader
  \/ SkipDataLine
  \/ FieldCountError
  \/ FieldIndexError
  \/ ParseOneLine
  \/ FinishParse

\* parse_slog runs to completion once started: a single thread that only
\* blocks on reading a local file.
Spec == Init /\ [][Next]_vars /\ WF_vars(Next)

-----------------------------------------------------------------------------
Names == {l[3] : l \in {l \in UNION {Range(h) : h \in HeaderBlocks} : Len(l) = 3}}

TypeOK ==
  /\ file \in Files
  /\ build \in Builds
  /\ phase \in Phases
  /\ exc \in Exceptions
  /\ col_number \in Nat \ {0}
  /\ Range(num_var_occurrences) \subseteq Nat \ {0}
  /\ DOMAIN num_var_occurrences \subseteq Names
  /\ Range(var_name_to_col_number) \subseteq 1..(col_number - 1)
  /\ Range(disambig_to_ambig_dict) \subseteq Names
  /\ variable_renaming_required \in BOOLEAN
  /\ (phase = "failed") <=> (exc # "none")

\* parse_slog implements the slog contract of spec.md: it returns exactly the
\* registry, renaming map and records that the declarative definitions
\* give for the file when the file is well formed, fails when it is not,
\* and always returns or fails.
ParseRefinesSpec == Abs!Spec

\* parse_slog never returns records for a file spec.md says is malformed:
\* a header out of shape or out of sequence, or a data line whose token
\* count differs from the number of declared columns, always aborts.
AcceptsOnlyWellFormed == phase = "done" => Abs!WellFormed(file)

\* parse_slog only aborts on a malformed file; a duplicated header name is
\* an advisory condition (spec.md section 7), never a fatal one.
FailsOnlyOnMalformed == phase = "failed" => ~Abs!WellFormed(file)

\* Every fatal error surfaces the code's descriptive message (the raised
\* string of lines 37/41 or the sys.exit text of line 159).
ErrorsDescriptive == phase = "failed" => exc \in {"StringException", "SystemExit"}

=============================================================================
