SPECIFICATION FairClientsSpec
CONSTANTS
  None = None
  Outcomes = {"completed"}
  MaxExecutions = 2
  MaxLogs = 3
  MaxFaults = 1
  Budgets <- MCBudgets
INVARIANTS
  OwnLines
  NeverDeaf
  BackfillLeavesNoGap
  NoLostWakeup
  ReturnExplained
PROPERTIES ShowsTheEnd CallReturns
CHECK_DEADLOCK FALSE
