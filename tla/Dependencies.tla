------------------------------ MODULE Dependencies ------------------------------
(***************************************************************************)
(* How the graph is filled: ApiGraph::add_api_function keeps the functions *)
(* whose parameters the fuzzer can fill, and find_all_dependencies finds   *)
(* out which function's result can be an argument of which function.       *)
(* support_generic is false, as context.rs sets it.                        *)
(***************************************************************************)
EXTENDS FuzzType

\* A function of the crate: its parameter types, its result type (<<>> for
\* none), whether it is unsafe, and the traits its path goes through.
Function(inputs, output) ==
  [inputs |-> inputs, output |-> output, unsafe |-> FALSE, traits |-> {}]

\* Mutant: slices of slices are let through.
UnsupportedUndecodable(fn) ==
  \E i \in DOMAIN fn.inputs :
    /\ IsFuzzableType(fn.inputs[i])
    /\ GenerateFuzzableTypeAndCallType(fn.inputs[i]) = NotGenerated

\* A parameter the fuzzer should fill, and for which there is no variable or
\* one of two dynamic lengths.
ContainsUnsupportedFuzzableType(fn) ==
  \E i \in DOMAIN fn.inputs :
    LET generated == GenerateFuzzableTypeAndCallType(fn.inputs[i]) IN
    /\ IsFuzzableType(fn.inputs[i])
    /\ \/ generated.fuzzable_type = NoFuzzable
       \/ IsMultipleDynamicLength(generated.fuzzable_type)
       \/ generated.call_type = NotCompatible

\* add_api_function, for the functions of the crate in the order they are found.
AddApiFunctions(found) ==
  SelectSeq(found, LAMBDA fn : ~ContainsUnsupportedFuzzableType(fn))

ContainsMutBorrow(fn) ==
  \E i \in DOMAIN fn.inputs : Head(fn.inputs[i]) \in {"RefMut", "PtrMut"}

IsStartFunction(fn) == \A i \in DOMAIN fn.inputs : IsEndType(fn.inputs[i])

IsEndFunction(fn) ==
  ~ContainsMutBorrow(fn) /\ (fn.output = <<>> \/ IsEndType(fn.output))

\* Generic types are not supported, but for an Option or a Result on the outside.
GenericSkipped(ty) == ~PreludeTypeNeedSpecialDealing(ty) /\ IsGenericType(ty)

\* The edges from the result of function o to the parameters of function f.
EdgesBetween(fns, o, f) ==
  LET output_type == FinalType(fns[o].output)
      edges == [i \in DOMAIN fns[f].inputs |->
                  [output_fun        |-> o,
                   input_fun         |-> f,
                   input_param_index |-> i,
                   call_type |->
                     IF GenericSkipped(output_type) \/ GenericSkipped(fns[f].inputs[i])
                     THEN NotCompatible
                     ELSE SameType(output_type, fns[f].inputs[i])]]
  IN  IF IsEndFunction(fns[o]) \/ fns[o].output = <<>> \/ IsStartFunction(fns[f])
      THEN <<>>
      ELSE SelectSeq(edges, LAMBDA e : e.call_type # NotCompatible)

\* The nested loops push the edges in the order of o, then f, then i.
FindAllDependencies(fns) ==
  FlattenSeq([o \in DOMAIN fns |->
    FlattenSeq([f \in DOMAIN fns |-> EdgesBetween(fns, o, f)])])

=============================================================================
