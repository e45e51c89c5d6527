SPECIFICATION MCSpec
CONSTANTS
  u1 = u1
  u2 = u2
  c1 = c1
  c2 = c2
  k1 = k1
  k2 = k2
  r1 = r1
  r2 = r2
  Turns = {u1, u2}
  ChatTurns = {c1, c2}
  Threads = {k1, k2}
  Writers = {k1}
  Readers = {k2}
  RoleSets = {r1, r2}
  Roles = {"employee"}
  AgentTools <- MCAgentTools
  Batches <- MCBatches
  RuleTools <- MCRuleTools
  Scripts <- MCScripts
  MaxRounds = 2
  MaxToolCalls = 3
  TokenBudget = 2
  TurnTokens = {1, 3}
  Threshold = 1
  Cooldown = 1
  MaxTime = 1
  MaxReplays = 1
  Header = 6
  Marker = 12
  ItemHeader = 30
  Gap = 1
  MaxMessages = 3
  RecentLimit = 3
  Texts <- MCTexts
  AnswerSizes = {400}
  AgentStates <- MCAgentStates
  SummarySizes = {0, 700}
  Window = 1600
  MaxOutput = 200
  SafetyMargin = 256
  Scaffolding = 200
  PolicySize = 60
  TenantSize = 40
  Messages <- MCMessages
  UserRoles <- MCUserRoles
  Deciders <- MCDeciders
  Releases <- MCReleases
  Answers = {"answered", "numberless", "flagged", "lost", "busy", "connect"}
  ApprovalTTL = 1
  Lease = 1
  MaxClock = 2
  MaxRedeliveries = 1
  ReplicaOf <- MCReplicaOf
  Chunks <- MCChunks
  Stable = {"c2"}
  ResponseSizes = {0, 2}
  TTL = 1
  MaxCommits = 2
  MaxTicks = 1
  MaxQueries = 2
  Documents <- MCDocuments
  ChunkList <- MCChunkList
  Tickets <- MCTickets
  Bases <- MCBases
  Requests <- MCRequests
SYMMETRY MCSymmetry
\* A turn ends, and what is bounded stops.
CHECK_DEADLOCK FALSE
INVARIANTS
  EveryTypeOK
  PromptFitsWindow FoldOverrunBounded CurrentTurnSent EvictionExact DroppedIsPrefix SummaryRangeExact
  OnlyConfirmedWrites DistinctCalls AppliedOnce BudgetRespected HistoryAnswered
   NoTornCalls DownDependencyContained
  GatedShapesAskFirst EffectAsApproved ToldWhatHappened OneTicketPerDelivery
  NoStaleIndexKept ServedToItsCaller RankedByItsOwnText
  EvidenceIsSound
