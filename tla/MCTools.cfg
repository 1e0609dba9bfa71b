SPECIFICATION SumSpec
CONSTANTS
  Clients = {a1, a2, a3}
  V6 = {a3}
  Ports = {1, 2}
  NSlots = 2
  NoOne = NoOne
  MaxErrors = 1
  MaxAsked = 2
  MaxConns = 2
  WriteLen = 3
  MaxIov = 2
  ReadLen = 2
  TcpBuffers = 2
  UdpBuffers = 2
  TcpOptions = 2
  UdpOptions = 3
  MaxInput = 2
  MaxTyped = 2
  MaxOther = 1
  MaxQueue = 2
INVARIANTS OnlyNewcomersMisled SocketsAsAsked CopiesAsAsked
PROPERTY AskersAreServed
CHECK_DEADLOCK FALSE
