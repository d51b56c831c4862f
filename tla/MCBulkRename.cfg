\* svn-bulk-rename.py over a tree with symlinks out of it and back to its
\* root, one directory unreadable: the walk stays inside the tree and
\* handles every directory it can reach exactly once, as RenameSpec says.
CONSTANTS
  Tree <- MCTree
  Links <- MCLinks
  Root = "r"
  Readable <- MCReadableButA
  Versioned <- MCVersioned
  FileStates <- MCFileStates
  In = "in"
  Out = "out"
SPECIFICATION Spec
INVARIANT TypeOK
PROPERTY WalkRefinesSpec
\* The walk ends, or the script exits; then the program ends.
CHECK_DEADLOCK FALSE
