SPECIFICATION SpaceSpec
CONSTANTS
  th1 = th1
  th2 = th2
  ann = ann
  Threads = {th1, th2}
  Actors = {ann}
  Endpoints <- EndingEndpoints
  MaxTransitions = 4
  MaxEntries = 0
  MaxCharters = 1
  MaxChannels = 1
SYMMETRY ThreadSymmetry
INVARIANT CompletedHasEvidence
INVARIANT HistoryExplainsStatus
INVARIANT RetiredChannelsDoNotRoute
