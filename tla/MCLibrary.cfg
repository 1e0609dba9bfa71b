SPECIFICATION SumSpec
CONSTANTS
  Words = {0, 1, 65535}
  MaxDigits = 8
  Bytes = {0, 1, 255}
  MaxBytes = 6
INVARIANTS ResultsAndResources TextAndBinaryAgree
CHECK_DEADLOCK FALSE
