SPECIFICATION SumSpec
CONSTANTS
  nfiles = 3
  maxnconn = 2
  Clients = {c1, c2}
  Text = 2
  MaxAddresses = 2
  MaxKills = 1
  MaxChildren = 2
  MaxLoops = 2
  MaxRequests = 2
  Third = 2
  Pieces = 2
INVARIANTS CountersAgree DaytimeTold
PROPERTY DownloadsEnd
CHECK_DEADLOCK FALSE
