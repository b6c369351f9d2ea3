CONSTANTS
  Moduli = {7}
  Hashes = {3}
  MinOrder = 5
  TestCount = 1
SPECIFICATION Spec
INVARIANT
  OrderIsExact
CHECK_DEADLOCK FALSE
