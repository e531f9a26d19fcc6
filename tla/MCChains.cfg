SPECIFICATION Spec
CONSTANTS
  Replica = {"a", "f", "g"}
  DevOf <- MCDevOf
  MaxSeq <- MCMaxSeq
  Start = {"f"}
  None = None
  Reporters = {"a"}
  Writers = {"f", "g"}
  Compactors = {"f"}
  MaxOps = 5
  MaxDigests = 2
  MaxSnaps = 1
INVARIANTS
  EvidenceIsTrue
  DivergenceIsNoticed
  BrokenLinkIsNoticed
  PrefixEndIsKnown
PROPERTIES
  FloorIsHeldByKnown
CHECK_DEADLOCK FALSE
