---------------------------- MODULE MCSlogToTaml ----------------------------
(***************************************************************************)
(* Inputs for checking SlogToTaml with TLC: slog files whose headers       *)
(* declare the four fields the converter reads (in two orders), or lack    *)
(* one, or repeat one; data lines with a NaN in the time or the heading,   *)
(* a time float() reads as nan, a position and heading spelled nan and     *)
(* inf, fractional times, a comment line; up to three data lines.          *)
(***************************************************************************)
EXTENDS SlogToTaml, TLC

\* %% (i) name for each name; the tags are written out here, not taken from
\* the instance, so the constants do not depend on the module they configure.
Header(names) == [i \in 1..Len(names) |-> <<"%%", "(" \o ToString(i) \o ")", names[i]>>]

MCHeaderBlocks ==
  { Header(<<"TIME", "NAV_X", "NAV_Y", "META_HEADING">>),
    Header(<<"TIME", "NAV_Y", "NAV_X", "META_HEADING">>),
    Header(<<"TIME", "NAV_X", "NAV_Y">>) }

MCDataLines ==
  { <<"0", "x2", "x3", "x4">>, <<"1.5", "x2", "x3", "NaN">>,
    <<"NaN", "x2", "x3", "x4">>, <<"nan", "x2", "x3", "x4">>,
    <<"0", "nan", "x3", "inf">>, <<"0", "x2", "x3">>, <<"%", "comment">> }
MCDataBlocks == BoundedSeq(MCDataLines, 3)

\* slog_to_taml imports slog_util, under Python 2.5 or later.
MCBuilds == [sys_bound : {FALSE}, str_raise : BOOLEAN]

\* floor of the seconds of the tokens float() reads as finite numbers.
MCSecondsOf == [t \in {"0", "1.5"} |-> IF t = "0" THEN 0 ELSE 1]
=============================================================================
