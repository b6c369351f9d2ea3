CONSTANTS
  Moduli = {3, 5, 7}
  Hashes = {3, 5, 12}
  MinOrder = 3
  TestCount = 2
SPECIFICATION Spec
INVARIANTS
  TypeOK
  PointsFormAGroup
  IteratesInnerPoints
  OrderIsPrimeFactor
  RightOrderIsAccepted
  EveryTestIsCounted
PROPERTY
  ExchangesAgree
CHECK_DEADLOCK FALSE
