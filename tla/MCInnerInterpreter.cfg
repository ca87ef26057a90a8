CONSTANT Width = 4
SPECIFICATION MCSpec
INVARIANTS RunsAsWritten FramesNested
PROPERTY Finishes
CHECK_DEADLOCK FALSE
