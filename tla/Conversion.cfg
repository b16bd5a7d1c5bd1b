CONSTANTS
  StructTypes = {"A"}
  OutputTypes <- ShallowTypes
  InputTypes <- DeepTypes
SPECIFICATION ConversionSpec
INVARIANTS
  SplitKeepsMeaning
  ArgumentHasParamType
