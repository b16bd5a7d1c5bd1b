CONSTANTS
  StructTypes = {"A"}
  ParamTys <- SliceTys
  MaxParams = 2
  MaxData = 8
  Patterns <- FewPatterns
  Addresses = {0}
SPECIFICATION Spec
INVARIANT
  SliceDecoderOnce
