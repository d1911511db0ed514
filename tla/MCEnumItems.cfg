SPECIFICATION Spec
CONSTANTS
  Names = {a, b, c, d}
  Explicit <- MCExplicit
  MaxItems = 4
  IntMax = 4
INVARIANTS ValuesUnique AutoAscending
PROPERTY SecondPassAgrees
CHECK_DEADLOCK FALSE
