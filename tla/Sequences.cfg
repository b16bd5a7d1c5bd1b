CONSTANTS
  StructTypes = {"A", "B"}
  CrateFunctions <- Crate
  CrateEdges <- Edges
  MaxLen = 5
SPECIFICATION Spec
INVARIANTS
  NoUseAfterMove
  ExclusiveMutBorrow
  BorrowEndsWithOwner
  CoversItsEdges
  FuzzablesUsedOnce
  RefusedForWantOfResult
PROPERTIES
  ImplementsOwnership
