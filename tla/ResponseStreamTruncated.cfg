\* The generator returns at the end of a response: it may stop.
CHECK_DEADLOCK FALSE
CONSTANTS
  MaxToolRounds = 2
  Indexes = {0, 1}
  Chunks <- NamedChunks
  MaxChunks = 2
  MaxStreams = 2
SPECIFICATION Spec
INVARIANT TruncatedStreamIsError
