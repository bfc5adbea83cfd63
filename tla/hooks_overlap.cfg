SPECIFICATION Spec
CONSTANTS
  Procs <- Three
  Turns <- Three
  Agents = {a1}
  Every = 2
  MaxT = 4
  Arrives = {"prompt", "compact"}
  Serial = FALSE
  MaxKills = 0
INVARIANTS LineageWhole AnsweredIsSaved
CHECK_DEADLOCK FALSE
