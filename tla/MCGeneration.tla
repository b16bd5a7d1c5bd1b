----------------------------- MODULE MCGeneration -----------------------------
(***************************************************************************)
(* A crate in which a value can be made in two ways, read, combined and    *)
(* used up, and in which a call needs more results than a search of length *)
(* MaxLen makes.                                                           *)
(***************************************************************************)
EXTENDS Generation

SearchCrate == <<
  Function(<<>>, <<"A">>),                                  \* new() -> A
  Function(<<<<"Ref", "str">>>>, <<"A">>),                  \* from(&str) -> A
  Function(<<<<"Ref", "A">>>>, <<"Ref", "V">>),             \* view(&A) -> &V
  Function(<<<<"A">>, <<"u8">>, <<"A">>>>, <<"B">>),        \* pair(A, u8, A) -> B
  Function(<<<<"Ref", "Ref", "V">>, <<"RefMut", "A">>, <<"Ref", "Ref", "V">>>>,
           <<"C">>),                                        \* swap(&&V, &mut A, &&V) -> C
  Function(<<<<"B">>, <<"Ref", "Ref", "V">>, <<"RefMut", "A">>, <<"Ref", "Ref", "V">>>>,
           <<>>),                                           \* put(B, &&V, &mut A, &&V)
  Function(<<<<"Ref", "Ref", "V">>, <<"B">>>>, <<>>),       \* keep(&&V, B)
  Function(<<<<"B">>, <<"B">>, <<"Ref", "A">>>>, <<>>),     \* both(B, B, &A)
  Function(<<<<"C">>, <<"D">>>>, <<>>),                     \* lost(C, D)
  Function(<<<<"u8">>>>, <<"u8">>) >>                       \* lone(u8) -> u8

SearchEdges == FindAllDependencies(SearchCrate)

ASSUME SearchCrateAssumption == SearchCrate = AddApiFunctions(SearchCrate)

=============================================================================
