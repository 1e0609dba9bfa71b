SPECIFICATION Spec
CONSTANTS
  Versions = {"select03"}
  Clients = {a, b}
  MaxUnits = 4
  FD_SETSIZE = 3
  OpenMax = 2
INVARIANT OwnData
CHECK_DEADLOCK FALSE
