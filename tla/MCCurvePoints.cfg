CONSTANTS
  Moduli = {7}
  Hashes = {3}
  MinOrder = 5
  TestCount = 1
SPECIFICATION Spec
INVARIANT
  AllPointsAreSeen
CHECK_DEADLOCK FALSE
