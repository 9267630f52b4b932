SPECIFICATION Spec
CONSTANTS
  th1 = th1
  th2 = th2
  k1 = k1
  k2 = k2
  h1 = h1
  h2 = h2
  s1 = s1
  s2 = s2
  Threads = {th1, th2}
  ClaimKeys = {k1}
  Hashes = {h1, h2}
  Scopes = {s1}
  MaxRows = 3
  MaxRestarts = 1
SYMMETRY ThreadSymmetry
INVARIANT AcknowledgedIsStored
