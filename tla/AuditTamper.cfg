SPECIFICATION TamperSpec
CONSTANTS
  Length = 3
  Body = body
  Shifted = shifted
  Forged = {forged}
  GENESIS = GENESIS
INVARIANTS
  DetectsAllButTruncation
