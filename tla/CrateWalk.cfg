CONSTANTS
  CrateName = "k"
  Names <- FewNames
  Items <- FewItems
  Crates <- FewCrates
  Impls <- FewImpls
  NamePrefixes <- FewPrefixes
  PreludePaths <- FewPreludes
SPECIFICATION Spec
INVARIANTS
  ResolvedRight
  AllResolved
  OnlyPublicPaths
  LostByNameOnly
