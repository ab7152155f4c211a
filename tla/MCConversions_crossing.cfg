\* A C int has 3 bits, a double 5, an int64 8.
CONSTANTS
  Width = 3
  Mantissa = 5
  Wide = 8
  MaxString = 1
  MaxSize = 40
  MaxText = 9
SPECIFICATION ConversionsSpec
CHECK_DEADLOCK FALSE
INVARIANTS
  SizesAgree
  IntegerRoundTrip
  TextsArriveWhole
