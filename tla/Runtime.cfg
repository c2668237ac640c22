SPECIFICATION Spec
CONSTANTS
  None = None
  Tool <- MCTool
  Registered <- MCRegistered
  AllowedTools <- MCTool
  AllowingTools <- MCRegistered
  Prohibited = {"approval"}
  Plans <- MCPlans
  MaxAttempts = 2
  ToolAttempts = 2
  RetryOn = {"timeout", "error"}
  AgentTimeout = 3
  ToolTimeout = 2
  ProviderCeiling = 2
  MaxCalls = 1
INVARIANTS ToldAsItWas RunIsContained
PROPERTIES RunEnds
CHECK_DEADLOCK FALSE
