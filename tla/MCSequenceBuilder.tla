--------------------------- MODULE MCSequenceBuilder ---------------------------
(***************************************************************************)
(* A crate small enough to explore, around a container A whose elements    *)
(* are of type B.                                                          *)
(***************************************************************************)
EXTENDS SequenceBuilder

\* First references into the container, mutation and consumption of it; join takes
\* an Option<&mut A>.  Then arguments that is_fun_satisfied fills from the input or
\* takes from a result below the top of the parameter type.  args and read do not
\* get into the graph, and peek gets no edge.
Crate == AddApiFunctions(<<
  Function(<<>>, <<"A">>),                                        \* new() -> A
  Function(<<<<"Ref", "A">>>>, <<"Ref", "B">>),                   \* first(&A) -> &B
  Function(<<<<"RefMut", "A">>, <<"Ref", "str">>>>, <<>>),        \* push(&mut A, &str)
  Function(<<<<"A">>, <<"Option", "RefMut", "A">>>>, <<"Option", "A">>), \* join(A, ..)
  Function(<<<<"Ref", "A">>, <<"RefMut", "A">>>>, <<>>),          \* copy(&A, &mut A)
  Function(<<<<"Ref", "Ref", "B">>>>, <<"bool">>),                \* show(&&B) -> bool
  Function(<<<<"u8">>, <<"RefMut", "i32">>>>, <<"Result", "A">>), \* open(u8, &mut i32)
  Function(<<<<"Ref", "Slice", "Ref", "str">>, <<"A">>>>, <<>>),  \* args(&[&str], A)
  Function(<<<<"Ref", "A">>, <<"RefMut", "Slice", "u8">>>>, <<>>),\* read(&A, &mut [u8])
  Function(<<<<"Ref", "A">>>>, <<"Ptr", "A">>),                   \* as_ptr(&A)
  Function(<<<<"Ref", "Option", "A">>>>, <<>>),                   \* peek(&Option<A>)
  [Function(<<<<"Ptr", "A">>>>, <<"A">>) EXCEPT !.unsafe = TRUE,
                                                !.traits = {"FromPtr"}] >>) \* from_ptr

Edges == FindAllDependencies(Crate)
=============================================================================
