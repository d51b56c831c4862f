\* trim_map.py on an 8 x 2 pixel image and keep regions around its edges:
\* convert crops only for requests that passed all of main's checks.
CONSTANTS
  Requests <- MCRequests
  InFiles <- MCInFiles
SPECIFICATION Spec
INVARIANT TypeOK
INVARIANT CropOnlyForValidRequest
\* main returns or exits, and the program ends.
CHECK_DEADLOCK FALSE
