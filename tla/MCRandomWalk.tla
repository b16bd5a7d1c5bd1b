----------------------------- MODULE MCRandomWalk -----------------------------
(***************************************************************************)
(* A crate in which a value can be made, read and used up, and in which    *)
(* reading it ends a sequence.                                             *)
(***************************************************************************)
EXTENDS RandomWalk

WalkCrate == <<
  Function(<<<<"u8">>>>, <<"A">>),          \* new(u8) -> A
  Function(<<<<"Ref", "A">>>>, <<"u8">>),   \* len(&A) -> u8
  Function(<<<<"A">>, <<"u8">>>>, <<"A">>) >>   \* with(A, u8) -> A

Edge(o, f, i, ct) ==
  [output_fun |-> o, input_fun |-> f, input_param_index |-> i, call_type |-> ct]

WalkEdges == <<
  Edge(1, 2, 1, <<"BorrowedRef", "DirectCall">>),
  Edge(1, 3, 1, DirectCall),
  Edge(3, 2, 1, <<"BorrowedRef", "DirectCall">>),
  Edge(3, 3, 1, DirectCall) >>

ASSUME WalkCrateAssumption == WalkCrate = AddApiFunctions(WalkCrate)
ASSUME WalkEdgesAssumption == WalkEdges = FindAllDependencies(WalkCrate)

=============================================================================
