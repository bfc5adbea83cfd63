CONSTANTS
  Calls = {c1, c2, c3}
  MaxSpawns = 3
  Serial = FALSE
  NoTurn = NoTurn
  Faults = {}
SPECIFICATION Spec
INVARIANTS OneSidecar
CHECK_DEADLOCK FALSE
