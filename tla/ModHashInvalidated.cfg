SPECIFICATION Spec
CONSTANTS
  p1 = p1
  p2 = p2
  k1 = k1
  k2 = k2
  NoValue = NoValue
  Procs = {p1, p2}
  Keys = {k1, k2}
  NodeCount <- MCNodeCount
  AreaOf <- MCAreaOf
  Hashes <- MCHashes
  MagicSize = 1
  HeadSize = 2
  UnitSize = 2
  Managed = {2}
  Left = {1}
  MaxValue = 1
SYMMETRY MCSymmetry
PROPERTIES
  InitialisingInvalidates
