\* parse_slog run as a script under Python 2.6 or later: raise "text" is
\* a TypeError, so a malformed header aborts without its message.
CONSTANTS
  HeaderBlocks <- MCHeaderBlocks
  DataBlocks <- MCDataBlocks
  Builds <- LaterPythonBuild
SPECIFICATION Spec
INVARIANT ErrorsDescriptive
CHECK_DEADLOCK FALSE
