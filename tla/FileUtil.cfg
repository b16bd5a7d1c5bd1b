CONSTANTS
  Targets <- FewTargets
  MaxNum = 3
  MaxLen = 2
  MaxTestFileNumber = 2
  MaxRuns = 2
SPECIFICATION Spec
INVARIANTS
  PairsMatch
  FinishedIsComplete
  EveryTargetHasATest
