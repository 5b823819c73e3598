SPECIFICATION FilterSpec

CONSTANTS
  c1 = c1
  c2 = c2
  k1 = k1
  Rows <- MCRows
  LongRows <- MCLongRows
  MaxRows = 6
  MaxPages = 2
  BufSize = 3
  RestartEvery = 3

INVARIANTS
  PageAsGiven
  SeedsAgree

\* The filter ends with the job.
CHECK_DEADLOCK FALSE
