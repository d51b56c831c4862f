\* slog-to-taml.py on the same inputs: a failed run leaves a TAML file.
CONSTANTS
  HeaderBlocks <- MCHeaderBlocks
  DataBlocks <- MCDataBlocks
  Builds <- MCBuilds
  SecondsOf <- MCSecondsOf
SPECIFICATION Spec
INVARIANT NoPartialOutput
CHECK_DEADLOCK FALSE
