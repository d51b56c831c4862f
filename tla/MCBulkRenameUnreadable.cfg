CONSTANTS
  Tree <- MCTree
  Links <- MCLinks
  Root = "r"
  Readable <- MCReadableButA
  Versioned <- MCVersioned
  FileStates <- MCFileStates
  In = "in"
  Out = "out"
SPECIFICATION Spec
INVARIANT RenamesAllOnSuccess
CHECK_DEADLOCK FALSE
