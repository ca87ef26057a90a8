CONSTANTS
  Line <- MCLine
  MaxLines = 4
  Option <- MCOption
SPECIFICATION Spec
INVARIANTS ImageComplete ReferencesReach LoadsWhatIsDefined LabelsListed
CHECK_DEADLOCK FALSE
