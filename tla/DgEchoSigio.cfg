SPECIFICATION FairSpec
CONSTANTS
  QSIZE = 3
  MaxDgrams = 6
INVARIANTS RingSound NoLostWakeup
PROPERTIES EchoesInOrder EventuallyEchoed
CHECK_DEADLOCK FALSE
