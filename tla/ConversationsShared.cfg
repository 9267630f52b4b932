SPECIFICATION Spec
CONSTANTS
  r1 = r1
  r2 = r2
  r3 = r3
  r4 = r4
  r5 = r5
  ch = ch
  other = other
  doc = doc
  project = project
  Requests = {r1, r2, r3, r4, r5}
  Scopes = {ch, other}
  Sources = {doc, project}
  MaxExchanges = 2
  WindowExchanges = 2
  WarmLimit = 2
  MaxRetries = 1
  QuotaLimit = 1
  Cases <- Given
CHECK_DEADLOCK FALSE
INVARIANT AnsweredIsRemembered
INVARIANT WindowsAreSlices
INVARIANT LeftOutIsClosed
INVARIANT LedgerFollowsService
INVARIANT OnlyGroundedIsRemembered
INVARIANT RetriesAreExact
INVARIANT AgentsKeepTheirAnswer
