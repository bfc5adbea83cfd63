SPECIFICATION Spec
CONSTANTS
  a = a  b = b
  CallIds = {a, b}
  Costs = {1}
  Budgets = {1,2,3}
  Length = 4
  Parallel = TRUE
INVARIANT PairsKept
CHECK_DEADLOCK FALSE
