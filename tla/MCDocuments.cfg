CONSTANTS
  Calls = {c1, c2, c3}
  MaxTries = 2
  Total = 2
  Amounts = {1, 2}
  Credit = 1
SPECIFICATION Spec
INVARIANTS
  NumbersUnique
  OvertakenEveryTime
  
SYMMETRY Interchangeable
CHECK_DEADLOCK FALSE
