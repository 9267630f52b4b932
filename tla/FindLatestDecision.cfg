SPECIFICATION Spec
CONSTANTS
  t1 = t1
  t2 = t2
  p1 = p1
  a1 = a1
  Tasks = {t1}
  PmTasks = {}
  ApiThreads = {}
  DispatchTargets = {"sandbox", "llm", "specialist"}
  Decisions = {"allow", "allow_with_obligations", "deny", "uncertain", "error"}
  ObligationSets <- RegoObligations
  BudgetLimit = 1
  HopLimit = 5
  PairLimit = 2
  MaxCrashes = 0
INVARIANT LatestDecisionBlocksDispatch
