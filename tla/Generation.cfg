CONSTANTS
  StructTypes = {"A", "B", "C", "D", "V"}
  CrateFunctions <- SearchCrate
  CrateEdges <- SearchEdges
  MaxLen = 3
  MaxSequenceNumbers = {60, 100000}
  MaxSizes = {1, 8}
SPECIFICATION Spec
INVARIANTS
  Exhaustive
  DeepRoundsEarnTheirKeep
  CoversAllItCan
  MergedObeyRules
  RecordedBorrowsEnd
  ChoiceCoversFunctions
PROPERTIES
  NoAlgorithmError
  Termination
