\* parse_slog run as a script under Python 2.5 on headers where a name
\* looks like a disambiguated one (FOO__1 beside FOO, FOO): the registry
\* loses a column, so it does not implement the slog contract.
CONSTANTS
  HeaderBlocks <- MCCollidingHeaderBlocks
  DataBlocks <- MCDataBlocks
  Builds <- MainBuild
SPECIFICATION Spec
PROPERTY ParseRefinesSpec
CHECK_DEADLOCK FALSE
