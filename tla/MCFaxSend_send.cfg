SPECIFICATION Spec

CONSTANTS
  Docs <- MCDocs
  Covers = {TRUE, FALSE}
  Recipients = 2
  EarlyOpens = {TRUE, FALSE}

INVARIANTS
  EndedIsWhole
  CompletedIsSent

PROPERTIES
  CancelEnds

\* The job ends.
CHECK_DEADLOCK FALSE
