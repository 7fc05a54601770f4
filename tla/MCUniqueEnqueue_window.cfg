SPECIFICATION DedupSpec
CONSTANTS
  c1 = c1
  c2 = c2
  c3 = c3
  k1 = k1
  k2 = k2
  Callers = {c1, c2, c3}
  Keys = {k1, k2}
  NoKey = NoKey
  DedupTTL = 6
  MaxLatency = 1
  MaxDedupFaults = 2
SYMMETRY Symmetry
INVARIANT
  DedupInv
PROPERTY
  OnePerWindow
