CONSTANTS
  Width = 4
  Single <- MCSingle
  Double <- MCDouble
SPECIFICATION Spec
INVARIANTS DoublesCorrect OrderCorrect DivideCorrect
PROPERTIES DivisionIsLong
CHECK_DEADLOCK FALSE
