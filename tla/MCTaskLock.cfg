CONSTANTS
  Peers = {n1, n2}
  Workers = {w1, w2}
  NoOwner = NoOwner
  LongRuns = TRUE
SPECIFICATION LockSpec
INVARIANTS
  OnePerNode
SYMMETRY Interchangeable
