SPECIFICATION PartsSpec
CONSTANTS
  Talks = {"x", "y"}
  Requests <- TwoCommands
  Clarify = Clarify
  HostTools = {"bash"}
  MaxRequests = 2
  MaxTurns <- ThreeAndOne
  MaxTurnsInAll = 3
  MaxApprovalCrashes = 1
  Paths = {"a", "b", "c"}
  Garbled = {"c"}
  Programs <- TwoSteps
  MaxCalls = 3
  MaxMessages = 6
  Sizes = {1, 3}
  ContextCalls = {1, 2}
  Threshold = 5
  InputLimit = 8
  TailBudget = 2
  ProtectFirst = 1
  SummarySize = 1
  CallIds = {"1", "2"}
  MaxHistory = 3
  MaxRetries = 2
  MaxChunks = 2
  MaxRuns = 2
  MaxRunTurns = 3
  MaxNumber = 9
  MaxMishaps = 1
  MaxSteps = 3
  MaxFollowUps = 2
  Sessions = {home, child, old}
  Delegated = {child}
  Users = {alice, bob}
  NoSession = NoSession
  MatchLimit = 3
  ReadLimit = 2
  Window = 1
  MaxStored = 3
  Writers = {"p", "q"}
  CurrentVersion = 2
  WriteMaxRetries = 2
  MaxRows = 3
  MaxAnswers = 2
  MaxDeaths = 1
  MaxDrafts = 2
  MaxBaselines = 1
  Lines = {"a", "b"}
  Files = {"f"}
  Supplied <- OneLine
  AgentCreated = TRUE
  Reviews <- ForAndAgainst
  MinimumRuns = 1
  MaxEvaluations = 1
  MaxSkillCrashes = 1
  MemoryUsers = {"u"}
  MemoryTexts = {"tea", "notea"}
  MemoryClash <- AllPairs
  MaxMemories = 2
  Assistants = {"a"}
  Reviewers = {"r"}
  MaxMemoryCrashes = 1
  MaxCandidates = 3
  Scopes = {"a", "b"}
  MaxEvolutionCrashes = 1
  SkillInterval = 2
  MaxTraces = 3
  MaxReviewCrashes = 1
  TodoIds = {"1", "2", "3", "4"}
  Strangers = {"u", "v"}
  PairingCodes = {"7", "8"}
  MaxPairingCrashes = 1
  ShownItems = {"i"}
  MaxDetails = 3
  KeptDetails = 2
INVARIANTS
  PartsTypeOK
  ModelExchangeIsFaithful
  HistoryIsFaithful
  
  EventsAreFaithful
  SkillsAreRecoverable
  EvolutionIsTraceable
  GatewayIsHonest
PROPERTIES
  PromotedAsReviewed
  ImplementsDurableMemory
\* The parts end: bounds are met, a turn is over, a client is gone.
CHECK_DEADLOCK FALSE
