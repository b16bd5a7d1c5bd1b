-------------------------------- MODULE MCFries --------------------------------
(***************************************************************************)
(* A crate whose start functions are two constructors and one function     *)
(* whose argument is neither decoded nor a result, and whose results can   *)
(* be used up.                                                             *)
(***************************************************************************)
EXTENDS Fries

TurnsCrate == <<
  Function(<<<<"Result", "u8">>>>, <<"A">>),                    \* wrap(Result<u8>) -> A
  Function(<<<<"u8">>>>, <<"A">>),                              \* new(u8) -> A
  Function(<<<<"A">>, <<"u8">>>>, <<>>),                        \* send(A, u8)
  Function(<<>>, <<"Option", "B">>),                            \* find() -> Option<B>
  Function(<<<<"RefMut", "A">>, <<"B">>>>, <<>>) >>             \* put(&mut A, B)

Edge(o, f, i, ct) ==
  [output_fun |-> o, input_fun |-> f, input_param_index |-> i, call_type |-> ct]

TurnsEdges == <<
  Edge(1, 3, 1, DirectCall),
  Edge(1, 5, 1, <<"MutBorrowedRef", "DirectCall">>),
  Edge(2, 3, 1, DirectCall),
  Edge(2, 5, 1, <<"MutBorrowedRef", "DirectCall">>),
  Edge(4, 5, 2, DirectCall) >>

ASSUME TurnsCrateAssumption == TurnsCrate = AddApiFunctions(TurnsCrate)
ASSUME TurnsEdgesAssumption == TurnsEdges = FindAllDependencies(TurnsCrate)
=============================================================================
