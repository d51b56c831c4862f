\* parse_slog under every way of running it (as __main__ or imported,
\* Python 2.5 or later), on headers that include a name that looks like a
\* disambiguated one: whatever it raises, it never accepts a malformed file.
CONSTANTS
  HeaderBlocks <- MCCollidingHeaderBlocks
  DataBlocks <- MCDataBlocks
  Builds <- AllBuilds
SPECIFICATION Spec
INVARIANT TypeOK
INVARIANT AcceptsOnlyWellFormed
\* parse_slog returns or raises, and then the program ends.
CHECK_DEADLOCK FALSE
