CONSTANTS
  a = a
  b = b
  Name = {a, b}
  MaxCells = 5
SPECIFICATION OuterSpec
SYMMETRY NameSymmetry
VIEW StateView
INVARIANTS LinkedIsAllotted ReferencesStay
PROPERTY ImplementsDictionary
CHECK_DEADLOCK FALSE
