CONSTANTS
  Calls = {c1, c2, c3}
  MaxSpawns = 3
  Serial = TRUE
  NoTurn = NoTurn
  Faults = {"provision", "refuse", "split", "die", "dispose"}
SPECIFICATION Spec
SYMMETRY Symmetric
INVARIANTS SidecarOwned
CHECK_DEADLOCK FALSE
