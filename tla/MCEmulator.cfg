SPECIFICATION EmulatorSpec
CONSTANTS
  Addr <- MCAddr
  NoAddr <- MCNoAddr
  Flow <- MCFlow
  LabelAt <- MCLabelAt
INVARIANTS LoadedIsAssembled ImageOfItsBoard
PROPERTIES StopsForAReason BreakpointHolds
CHECK_DEADLOCK FALSE
