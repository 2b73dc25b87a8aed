\* The last permitted outcome ends the run.
CHECK_DEADLOCK FALSE
CONSTANTS
  Identity = {m1, m2}
  Tool = {t1}
  None = None
  MaxSequence = 4
  MaxOutcomes = 2
SYMMETRY Symmetry
SPECIFICATION Spec
INVARIANTS
  InOrder
  ClosedBlocksDrawn
  NothingStuck
PROPERTY NothingAfterEnd
