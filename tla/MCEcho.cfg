SPECIFICATION SumSpec
CONSTANTS
  Lines = 6
  MAXLINE = 2
  SockBuf = 1
  Stdout = 1
  Clients = {c1, c2}
  Streams = 2
  MoreStreams = 3
  ClientStreams = 3
  EchoStreams = 2
  IncrSize = 1
  Threshold = 1
  Parts = 2
  MaxMessages = 2
  MaxLosses = 1
  UdpLines = 2
  MaxFaults = 1
INVARIANTS Delivered RepliesMatch DatagramsMatch
PROPERTIES Ends Answered EndsOrWaits
CHECK_DEADLOCK FALSE
