\* All requests may be over: the system may stop.
CHECK_DEADLOCK FALSE
CONSTANTS
  Request = {r1, r2}
  Chat = {c1, c2}
  None = None
  MaxDeltas = 1
SPECIFICATION FairSpec
INVARIANTS
  MessagesHaveChat
  NoHalfTurn
  OutcomeMatchesStore
  EmptyChatHasCreator
PROPERTIES
  AcknowledgedChatSurvives
  ImplementsTurnStore
  RequestsEnd
