SPECIFICATION Spec
CONSTANTS
  Threads = {t1, t2}
  Ids = {e1, e2, e3, e4}
  GENESIS = GENESIS
  None = None
SYMMETRY Symmetry
INVARIANTS
  ChainSound
  ChainVerifies
  UnanchoredExplained
  HeadCoversCount
PROPERTIES
  BreakNeverHeals
  AnchorHasRow
