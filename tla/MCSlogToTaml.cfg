\* slog-to-taml.py end to end, on slog files with the converter's four
\* fields: a successful run writes exactly the expected TAML reports.
CONSTANTS
  HeaderBlocks <- MCHeaderBlocks
  DataBlocks <- MCDataBlocks
  Builds <- MCBuilds
  SecondsOf <- MCSecondsOf
SPECIFICATION Spec
INVARIANT TypeOK
INVARIANT OutputMatchesInput
\* main returns or exits, and the program ends.
CHECK_DEADLOCK FALSE
