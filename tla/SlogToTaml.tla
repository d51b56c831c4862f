----------------------------- MODULE SlogToTaml -----------------------------
(***************************************************************************)
(* main and slog_to_taml of src/ivp/scripts/slog-to-taml/slog-to-taml.py,  *)
(* composed with the slog parser it imports (SlogParser, whose steps run   *)
(* while stage = "parse").  Imported, slog_util has no global 'sys', so    *)
(* every build of this module has sys_bound = FALSE.                       *)
(*                                                                         *)
(* The TAML file is abstracted to what is written to it, in order: the     *)
(* envelope header, the position reports, the footer.  A report keeps the  *)
(* four values it prints; convert_time is kept as what it computes, the    *)
(* whole seconds since its epoch (strftime drops the fraction).            *)
(***************************************************************************)
EXTENDS Integers, Sequences, SequencesExt, Functions

CONSTANTS
  HeaderBlocks, DataBlocks, Builds,   \* as in SlogParser
  SecondsOf   \* token -> floor(seconds) for the tokens float() accepts as a
              \* finite number; any other token makes convert_time raise

ASSUME \A b \in Builds : ~b.sys_bound

VARIABLES
  file, build, lines, phase, col_number, num_var_occurrences,
  var_name_to_col_number, disambig_to_ambig_dict,
  variable_renaming_required, records, exc,     \* the parser's state
  argv_ok,        \* len(argv) == 3
  slog_exists,    \* os.path.isfile(slog_filename)
  taml,           \* the TAML file: [exists, header, reports, footer]
  stage,          \* where main is
  idx,            \* the loop over slog_lines (1-based)
  conv_exc        \* the exception or exit that ended main

parser_vars == <<file, build, lines, phase, col_number, num_var_occurrences,
                 var_name_to_col_number, disambig_to_ambig_dict,
                 variable_renaming_required, records, exc>>
conv_vars == <<argv_ok, slog_exists, taml, stage, idx, conv_exc>>
vars == <<parser_vars, conv_vars>>

Parser == INSTANCE SlogParser

Fields == <<"TIME", "NAV_X", "NAV_Y", "META_HEADING">>

NoFile == [exists |-> FALSE, header |-> FALSE, reports |-> <<>>, footer |-> FALSE]
\* A file already there: its contents are not ours and must stay as they are.
OtherFile == [NoFile EXCEPT !.exists = TRUE, !.footer = TRUE]
EmptyFile == [NoFile EXCEPT !.exists = TRUE]

\* Mutant: latitude and longitude written into each other's element.
ReportSwapped(t, lat, lon, h) == [time |-> SecondsOf[t], lat |-> lon, lon |-> lat, heading |-> h]

\* emit_position_report and convert_time: the values one TimePosition holds.
Report(t, lat, lon, h) == [time |-> SecondsOf[t], lat |-> lat, lon |-> lon, heading |-> h]

Values(r) == [i \in 1..4 |-> r[Fields[i]]]

Fail(e) ==
  /\ stage' = "failed"
  /\ conv_exc' = e

-----------------------------------------------------------------------------
Init ==
  /\ Parser!Init
  /\ argv_ok \in BOOLEAN
  /\ slog_exists \in BOOLEAN
  /\ taml \in {NoFile, OtherFile}
  /\ stage = "start"
  /\ idx = 1
  /\ conv_exc = "none"

\* Lines 101-111: the checks main makes before opening anything.
BadArguments ==
  /\ stage = "start" /\ ~argv_ok
  /\ Fail("Usage")
  /\ UNCHANGED <<parser_vars, argv_ok, slog_exists, taml, idx>>

NoSlogFile ==
  /\ stage = "start" /\ argv_ok /\ ~slog_exists
  /\ Fail("NoSlogFile")
  /\ UNCHANGED <<parser_vars, argv_ok, slog_exists, taml, idx>>

TamlExists ==
  /\ stage = "start" /\ argv_ok /\ slog_exists /\ taml.exists
  /\ Fail("TamlExists")
  /\ UNCHANGED <<parser_vars, argv_ok, slog_exists, taml, idx>>

\* Lines 113-114: open(slog) and open(taml, "w"), which creates it empty.
OpenFiles ==
  /\ stage = "start" /\ argv_ok /\ slog_exists /\ ~taml.exists
  /\ taml' = EmptyFile
  /\ stage' = "parse"
  /\ UNCHANGED <<parser_vars, argv_ok, slog_exists, idx, conv_exc>>

\* Line 84: parse_slog(slog_file), one parser step at a time.
ParseStep ==
  /\ stage = "parse"
  /\ Parser!Next
  /\ UNCHANGED conv_vars

\* The parser's exception propagates out of main.
ParseFails ==
  /\ stage = "parse" /\ phase = "failed"
  /\ Fail(exc)
  /\ UNCHANGED <<parser_vars, argv_ok, slog_exists, taml, idx>>

\* Line 86: emit_file_header.
EmitHeader ==
  /\ stage = "parse" /\ phase = "done"
  /\ taml' = [taml EXCEPT !.header = TRUE]
  /\ stage' = "emit"
  /\ UNCHANGED <<parser_vars, argv_ok, slog_exists, idx, conv_exc>>

InLoop == stage = "emit" /\ idx <= Len(records)

\* Lines 89-92: l['TIME'] ... l['META_HEADING'] with a field missing.
MissingField ==
  /\ InLoop
  /\ \E i \in 1..4 : Fields[i] \notin DOMAIN records[idx]
  /\ Fail("KeyError")
  /\ UNCHANGED <<parser_vars, argv_ok, slog_exists, taml, idx>>

HasFields == InLoop /\ \A i \in 1..4 : Fields[i] \in DOMAIN records[idx]

\* Line 94: a record with the token NaN in one of the four is dropped.
SkipNaN ==
  /\ HasFields
  /\ "NaN" \in Range(Values(records[idx]))
  /\ idx' = idx + 1
  /\ UNCHANGED <<parser_vars, argv_ok, slog_exists, taml, stage, conv_exc>>

\* Lines 20-21: float(t) or timedelta(0, ...) raises ValueError.
BadTime ==
  /\ HasFields
  /\ "NaN" \notin Range(Values(records[idx]))
  /\ records[idx]["TIME"] \notin DOMAIN SecondsOf
  /\ Fail("ValueError")
  /\ UNCHANGED <<parser_vars, argv_ok, slog_exists, taml, idx>>

\* Line 95: emit_position_report(taml_file, t, y, x, h).
EmitReport ==
  LET r == records[idx] IN
  /\ HasFields
  /\ "NaN" \notin Range(Values(r))
  /\ r["TIME"] \in DOMAIN SecondsOf
  /\ taml' = [taml EXCEPT !.reports =
                Append(@, Report(r["TIME"], r["NAV_Y"], r["NAV_X"], r["META_HEADING"]))]
  /\ idx' = idx + 1
  /\ UNCHANGED <<parser_vars, argv_ok, slog_exists, stage, conv_exc>>

\* Line 97: emit_file_footer; main returns.
EmitFooter ==
  /\ stage = "emit" /\ idx > Len(records)
  /\ taml' = [taml EXCEPT !.footer = TRUE]
  /\ stage' = "done"
  /\ UNCHANGED <<parser_vars, argv_ok, slog_exists, idx, conv_exc>>

Next ==
  \/ BadArguments \/ NoSlogFile \/ TamlExists \/ OpenFiles
  \/ ParseStep \/ ParseFails \/ EmitHeader
  \/ MissingField \/ SkipNaN \/ BadTime \/ EmitReport \/ EmitFooter

\* A single-threaded script that runs to its end.
Spec == Init /\ [][Next]_vars /\ WF_vars(Next)

-----------------------------------------------------------------------------
Stages == {"start", "parse", "emit", "done", "failed"}

TypeOK ==
  /\ Parser!TypeOK
  /\ argv_ok \in BOOLEAN /\ slog_exists \in BOOLEAN
  /\ taml.exists \in BOOLEAN /\ taml.header \in BOOLEAN /\ taml.footer \in BOOLEAN
  /\ stage \in Stages
  /\ idx \in 1..(Len(records) + 1)
  /\ conv_exc \in Parser!Exceptions \cup {"Usage", "NoSlogFile", "TamlExists",
                                         "KeyError", "ValueError"}

\* The reports spec.md section 4.2 asks for: one per record of the parsed
\* file (as SlogSpec defines the records) without NaN in its four fields,
\* in file order.
ExpectedReports(f) ==
  LET kept == SelectSeq(Parser!Abs!Outcome(f).records,
                        LAMBDA r : "NaN" \notin Range(Values(r)))
  IN  [i \in 1..Len(kept) |->
         [time |-> SecondsOf[kept[i]["TIME"]], lat |-> kept[i]["NAV_Y"],
          lon |-> kept[i]["NAV_X"], heading |-> kept[i]["META_HEADING"]]]

\* When main returns normally, the TAML file it created holds the header,
\* exactly the expected position reports in input order, and the footer.
OutputMatchesInput ==
  stage = "done" =>
    taml = [exists |-> TRUE, header |-> TRUE,
            reports |-> ExpectedReports(file), footer |-> TRUE]

\* A run that fails leaves no output behind (spec.md section 7: no
\* partial or degraded output; a resource error is reported before any
\* output is produced): the TAML file is as it was before main ran.
NoPartialOutput == stage = "failed" => taml \in {NoFile, OtherFile}

=============================================================================
