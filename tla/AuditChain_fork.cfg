SPECIFICATION Spec
CONSTANTS
  Threads = {t1, t2}
  Ids = {e1, e2, e3}
  GENESIS = GENESIS
  None = None
SYMMETRY Symmetry
INVARIANTS
  LogVerifies
