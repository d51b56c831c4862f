\* trim_map.py on the same inputs: a run that ends normally does not
\* always give the output its usage text promises.
CONSTANTS
  Requests <- MCRequests
  InFiles <- MCInFiles
SPECIFICATION Spec
INVARIANT OutputAsRequested
CHECK_DEADLOCK FALSE
