CONSTANTS
  Calls = {c1, c2, c3}
  MaxSpawns = 2
  Serial = FALSE
  NoTurn = NoTurn
  Faults = {"provision", "refuse", "split", "die", "dispose"}
SPECIFICATION FairSpec
INVARIANT OwnAnswer
PROPERTY EveryCallEnds
CHECK_DEADLOCK FALSE
