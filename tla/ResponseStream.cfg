\* The generator returns at the end of a response: it may stop.
CHECK_DEADLOCK FALSE
CONSTANTS
  MaxToolRounds = 2
  Indexes = {0, 1}
  Chunks <- MCChunks
  MaxChunks = 2
  MaxStreams = 3
SPECIFICATION Spec
INVARIANTS
  WellFormedResponse
  ProviderStreamsBounded
PROPERTY ImplementsLifecycle
