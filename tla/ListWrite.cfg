CONSTANTS
  c1 = c1
  c2 = c2
  Calls = {c1, c2}
  Ids = {1, 2}
  Features = {"LoadControl", "Setpoint"}
  Fixed = {}
  MaxChanges = 1
SPECIFICATION FairSpec
INVARIANTS
  TypeOK
  OnlyAccepted
  OwnResult
PROPERTIES
  TouchesOwnEntries
  AcceptedIsSeen
