SPECIFICATION Spec
CONSTANTS
  Me = me
  Procs <- Us
  Turns <- Four
  Agents = {a1, a2, a3}
  Every = 2
  MaxT = 4
  Cap = 2
  Snaps = {"auto"}
  Base = 2
  Budgets = {1}
  MaxRequests = 4
  MaxFaults = 1
INVARIANTS StepIsSaved BudgetOfItsOwn EvictedIsOnDisk LeastRecentFirst
CHECK_DEADLOCK FALSE
