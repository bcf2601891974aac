SPECIFICATION Spec
CONSTANTS
  Sats = {1, 2}
  ArraySets = 3
  Hour = 2
  MaxRecords = 5
  MaxGap = 3
  Duration = 8
INVARIANTS
  SetsApart WholeUnlessCut StartsUnlessNothingRead KeepsUp
