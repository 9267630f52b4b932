SPECIFICATION FairSpec
CONSTANTS
  t1 = t1
  t2 = t2
  p1 = p1
  a1 = a1
  Tasks = {t1}
  PmTasks = {p1}
  ApiThreads = {a1}
  DispatchTargets = {"llm", "communication", "specialist"}
  Decisions = {"allow", "allow_with_obligations", "deny"}
  ObligationSets <- RegoObligations
  BudgetLimit = 1
  HopLimit = 3
  PairLimit = 0
  MaxCrashes = 0
PROPERTY EveryTaskSettles
INVARIANT HandlersNeverRaise
