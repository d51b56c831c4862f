\* parse_slog run as a script under Python 2.5, on headers with distinct
\* names or duplicated plain names: it implements the slog contract.
CONSTANTS
  HeaderBlocks <- MCHeaderBlocks
  DataBlocks <- MCDataBlocks
  Builds <- MainBuild
SPECIFICATION Spec
PROPERTY ParseRefinesSpec
\* parse_slog returns or raises, and then the program ends.
CHECK_DEADLOCK FALSE
