SPECIFICATION SumSpec
CONSTANTS
  Workers = {w1, w2, w3}
  Conns = {c1, c2}
  Free = Free
  MaxKills = 1
  N = 2
  TextBytes = 2
  MaxConns = 4
INVARIANTS LockMatchesPlace OneWorkerEach Consistent
PROPERTIES Accepted StopsAll EndIsNoticed
CHECK_DEADLOCK FALSE
