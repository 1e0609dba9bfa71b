SPECIFICATION SumSpec
CONSTANTS
  RTT_RXTMIN = 2
  RTT_RXTMAX = 3
  RTT_MAXNREXMT = 3
  MaxCalls = 3
  SO_RCVBUF = 2
  MaxLines = 2
  MaxAnswers = 2
  MaxTtl = 3
  Nprobes = 2
  MaxForeign = 1
  MaxProbes = 1
  MaxInFlight = 1
  Packets = 3
  MX_DUP_CK = 2
  MaxRepeats = 1
  MaxStrange = 1
INVARIANTS AnswersInStep NoStrayAlarm AnswersAreOwn UrgentDataMeans
PROPERTIES WaitsEnd
CHECK_DEADLOCK FALSE
