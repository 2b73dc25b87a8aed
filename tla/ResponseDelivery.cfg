\* A settled page has nothing more to do.
CHECK_DEADLOCK FALSE
CONSTANTS
  MaxToolRounds = 2
  Indexes = {0, 1}
  Chunks <- MCChunks
  MaxChunks = 2
  MaxStreams = 3
SPECIFICATION FairSpec
INVARIANTS
  TextConserved
  SavedIsStored
  FailureIsShown
PROPERTY EventuallySettled
