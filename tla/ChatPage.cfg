\* The user may stop at any time.
CHECK_DEADLOCK FALSE
CONSTANTS
  None = None
  MaxOld = 1
  MaxGens = 2
  MaxMoves = 1
SPECIFICATION Spec
INVARIANTS
  ReadyAtRest
  OneAtATime
  AnswersAreOwn
  PageAgrees
