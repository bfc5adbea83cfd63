SPECIFICATION Spec
CONSTANTS
  a = a  b = b
  CallIds = {a, b}
  Costs = {0, 1, 2}
  Budgets = {0, 1, 2, 3}
  Length = 4
  Parallel = FALSE
INVARIANTS PairsKept LongestTail
CHECK_DEADLOCK FALSE
