CONSTANTS
  StructTypes = {"A"}
  ParamTys <- LayoutTys
  MaxParams = 3
  MaxData = 14
  Patterns <- FewPatterns
  Addresses = {0, 1}
SPECIFICATION Spec
INVARIANTS
  ReadsInBounds
  InputPartitioned
  IntegersFromBytes
  CalledDecodersDefined
