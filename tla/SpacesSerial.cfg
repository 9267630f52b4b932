SPECIFICATION SpaceSpec
CONSTANTS
  th1 = th1
  th2 = th2
  ann = ann
  Threads = {th1}
  Actors = {ann}
  Endpoints <- AllEndpoints
  MaxTransitions = 5
  MaxEntries = 1
  MaxCharters = 2
  MaxChannels = 2
INVARIANT TypeOK
INVARIANT SpacesFollowActivation
INVARIANT ApprovedHasTriad
PROPERTY StatusChangesAreLegal
PROPERTY EvidenceIsKept
