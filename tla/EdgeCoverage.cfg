CONSTANTS
  StructTypes = {"A", "B"}
  CrateFunctions <- Crate
  CrateEdges <- Edges
  MaxLen = 4
SPECIFICATION Spec
INVARIANT CoveredEdgesUsed
