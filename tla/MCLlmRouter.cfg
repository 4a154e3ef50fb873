SPECIFICATION RouterSpec
CONSTANTS
  c1 = c1
  c2 = c2
  Caller = {c1, c2}
  Cost <- MCCost
  Priority <- MCPriority
  Gemini = "gemini-free"
  Paid = {"deepseek-paid"}
  Healthy = {"gemini-free", "deepseek-paid", "local-stub"}
  AllowPaid = FALSE
  MaxDaily = 1
  MaxContent = 2
  Interval = 2
  Backoff = 1
  RetryAfter = {1, 3}
  MaxDelay = 2
INVARIANTS SpendWithinLimits
PROPERTIES RequestsArePaced CallsReturn
