SPECIFICATION Spec
CONSTANTS
  u1 = u1
  u2 = u2
  Turns = {u1}
  Roles = {"employee"}
  AgentTools <- MCAgentTools
  Batches <- MCBatches
  RuleTools <- MCRuleTools
  Scripts <- MCScripts
  MaxRounds = 2
  MaxToolCalls = 4
  TokenBudget = 2
  TurnTokens = {1, 3}
  Threshold = 1
  Cooldown = 1
  MaxTime = 1
  MaxReplays = 1
\* A turn ends, and what is bounded stops.
CHECK_DEADLOCK FALSE
INVARIANTS ReplyAnswersItsCall
