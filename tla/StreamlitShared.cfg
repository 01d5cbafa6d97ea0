\* Two sessions, one tree of two rows that may go or come once.
CONSTANTS
  s1 = s1
  s2 = s2
  Sessions <- MCSessions
  Requests <- MCRequests
  Paths = {"tree"}
  TreeSizes = {2}
  RowChoices = {1}
  DefaultRows = 1
  MaxEdits = 1
  MaxClicks = 3

SPECIFICATION FairSpec

INVARIANTS
  TypeOK
  PageWithinReport
  ViewAnswersClick
  SessionsAgree

PROPERTY
  EveryClickSettles

\* Once the clicks and edits are used up, nothing is left to do.
CHECK_DEADLOCK FALSE
