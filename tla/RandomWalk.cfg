CONSTANTS
  StructTypes = {"A"}
  CrateFunctions <- WalkCrate
  CrateEdges <- WalkEdges
  MaxSize = 4
  WalkLen = 2
SPECIFICATION WalkSpec
INVARIANTS
  BuiltOnOthers
PROPERTIES
  Termination
