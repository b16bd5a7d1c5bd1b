CONSTANTS
  Corpora <- FewCorpora
  TestedCrate <- Library
  Apis = {"open", "seek", "read", "version", "file_copy"}
  PrimitiveArgs = {"open", "version", "std"}
  PrimitiveReturn = {"read", "version"}
SPECIFICATION Spec
INVARIANTS
  PropagatedIsClosure
  SequencesDelimited
  DependenciesAreFlows
  EveryCallCounted
PROPERTY
  Termination
