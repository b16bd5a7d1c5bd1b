CONSTANTS
  StructTypes = {"A", "B"}
  CrateFunctions <- TurnsCrate
  CrateEdges <- TurnsEdges
  MaxNum = 3
  MaxLen = 4
SPECIFICATION Spec
INVARIANTS
  DeliversRequestedSequences
  CoverageIsReal
  StartsTakeTurns
PROPERTIES
  ImplementsOwnership
  Termination
