SPECIFICATION Spec
CONSTANTS
  th1 = th1
  th2 = th2
  ann = ann
  bob = bob
  Threads = {th1, th2}
  Actors = {ann, bob}
  Endpoints <- ApprovalEndpoints
  MaxTransitions = 2
  MaxEntries = 0
  MaxCharters = 1
SYMMETRY Symmetry
INVARIANT OneApprovalPerRole
