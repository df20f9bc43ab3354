CONSTANTS
  c1 = c1
  c2 = c2
  Calls = {c1, c2}
  Ids = {1, 2}
  Features = {"LoadControl"}
  Fixed = {2}
  MaxChanges = 1
SPECIFICATION Spec
INVARIANTS
  EveryResultTold
