SPECIFICATION FairSpec
CONSTANTS
  Procs <- Three
  Turns <- Three
  Agents = {a1}
  Every = 2
  MaxT = 4
  Arrives = {"prompt", "response", "compact", "start"}
  Serial = TRUE
  MaxKills = 2
INVARIANTS HookTypes GraphHoldsStates
PROPERTIES SavesAppend EveryHookAnswers
CHECK_DEADLOCK FALSE
