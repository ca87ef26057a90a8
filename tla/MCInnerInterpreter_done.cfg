CONSTANT Width = 4
SPECIFICATION MCSpec
PROPERTY DoneEndsLoop
CHECK_DEADLOCK FALSE
