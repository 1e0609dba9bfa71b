SPECIFICATION Spec
CONSTANTS
  Conns = {c1, c2}
  MaxForks = 3
INVARIANT EintrIsRetried

CHECK_DEADLOCK FALSE
