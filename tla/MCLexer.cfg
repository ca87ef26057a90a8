CONSTANT Sources <- MCSources
SPECIFICATION Spec
INVARIANTS ReadsAsWritten DecodesAsWritten ListedAsWritten NothingSlipsThrough FirstErrorLocated
PROPERTY ReadsToTheEnd
CHECK_DEADLOCK FALSE
