SPECIFICATION FairSpec
CONSTANTS
  Versions = {"select01", "select03", "poll01", "mypoll01"}
  Clients = {a, b, c}
  MaxUnits = 2
  FD_SETSIZE = 3
  OpenMax = 2
INVARIANTS Consistent EchoesInOrder
PROPERTY Served
CHECK_DEADLOCK FALSE
