SPECIFICATION SumSpec
CONSTANTS
  Threads = {t1, t2, t3}
  Main = Main
  None = None
  MAXNCLI = 3
  MaxConns = 4
  CountLoop = 4
  BufferLoop = 5
  BUFFSIZE = 3
  Readers = {1, 2}
  MAXLINE = 3
  BufSize = 2
  Rounds = 2
  MaxSignals = 1
  TextLength = 3
  Newlines = {{2}, {3}, {1, 2}, {}}
INVARIANTS RecordsAgree OneOwner
PROPERTIES ServesInOrder EverythingServed
CHECK_DEADLOCK FALSE
