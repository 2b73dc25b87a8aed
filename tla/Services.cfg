\* Nobody has to make a request.
CHECK_DEADLOCK FALSE
CONSTANTS
  Parts = {"strategies", "config", "stream", "discovery", "wire", "skills", "tools"}
  o1 = o1
  o2 = o2
  o3 = o3
  o4 = o4
  o5 = o5
  o6 = o6
  o7 = o7
  o8 = o8
  Target = {o1, o2, o3}
  Pool <- MCPool
  Session = {s1}
  NoSession = NoSession
  Nowhere = Nowhere
  Tokens = {0, 6000}
  Judge = o2
  RProvider = {o1, o2}
  Nothing = Nothing
  Line <- MCLine
  Own = o1
  Local = {o2}
  NoProvider = NoProvider
  MaxYields = 4
  Cloud = {o1, o2}
  EnvKeys = {o2}
  Prefix <- MCPrefix
  Pages <- MCPages
  NonChat = {"e"}
  OllamaModel = OllamaModel
  Lister = {r1, r2}
  MaxPages = 2
  Retries = 1
  Reader = {"facade", "skill", "typed"}
  MaxPieces = 3
  Skill <- MCSkill
  Unknown = Unknown
  NoId = NoId
  Deps <- MCDeps
  Needs = {o6}
  Declares <- MCDeclares
  Hands <- MCHands
  Quotes <- MCQuotes
  Attempts = 2
  MaxDepth = 5
  MaxChain = 2
  Tool = {code, sync}
  Missing = Missing
  CodeTool = {code}
  ThreadTool = {sync}
  Slot = {t1, t2}
  Workers = 1
  MaxBatches = 2
  MaxStuck = 1
SPECIFICATION Spec
INVARIANTS
  RoundRobinFair
  ScoresRank
  
  StreamsWhole
  ListingsSound
  NothingLost
  CallsAreOwn
  ExecutionsSound
  LeftBehind
