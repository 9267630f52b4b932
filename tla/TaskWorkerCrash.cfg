SPECIFICATION Spec
CONSTANTS
  t1 = t1
  t2 = t2
  p1 = p1
  a1 = a1
  Tasks = {t1, t2}
  PmTasks = {}
  ApiThreads = {}
  DispatchTargets = {"sandbox", "llm", "specialist"}
  Decisions = {"allow", "allow_with_obligations", "deny", "uncertain", "error"}
  ObligationSets <- EveryHandler
  BudgetLimit = 1
  HopLimit = 5
  PairLimit = 2
  MaxCrashes = 1
SYMMETRY TaskSymmetry
INVARIANT TypeOK
INVARIANT WorkerExecutesOnce
INVARIANT ExecutedWasAuthorized
INVARIANT ObligationsBeforeExecution
INVARIANT WithinAllocation
PROPERTY StatusChangesAreLegal
PROPERTY ImplementsTaskService
