\* parse_slog imported by slog-to-taml.py (sys unbound in slog_util): a
\* duplicated header name makes the advisory rename report fatal.
CONSTANTS
  HeaderBlocks <- MCHeaderBlocks
  DataBlocks <- MCDataBlocks
  Builds <- ImportedBuild
SPECIFICATION Spec
INVARIANT FailsOnlyOnMalformed
CHECK_DEADLOCK FALSE
