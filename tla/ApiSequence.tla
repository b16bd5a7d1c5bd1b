------------------------------ MODULE ApiSequence ------------------------------
(***************************************************************************)
(* api_sequence.rs, and ApiGraph::is_fun_satisfied of api_graph.rs: call   *)
(* sequences and the way one more call is appended to them.                *)
(*                                                                         *)
(* A sequence is the record below.  Positions in TLA+ start at 1, so the   *)
(* value function_index k of the code names is the one of position k + 1.  *)
(* careful_pairs, a map from a call to the calls whose results borrow from *)
(* its result, is the relation {<<owner, borrower>>}.  An Option<T> that   *)
(* the code returns is a set with at most one element.                     *)
(***************************************************************************)
EXTENDS Dependencies

CONSTANTS
  CrateFunctions,     \* the functions context.rs adds to the graph, in order
  CrateEdges          \* what find_all_dependencies finds between them

\* The two fields of ApiGraph that generation only reads.
api_functions == CrateFunctions
api_dependencies == CrateEdges

Funs == DOMAIN api_functions

ASSUME FunctionsAssumption ==
  /\ Len(api_functions) \in Nat
  /\ Funs = 1..Len(api_functions)
  /\ \A f \in Funs :
       /\ DOMAIN api_functions[f].inputs = 1..Len(api_functions[f].inputs)
       /\ Len(api_functions[f].inputs) \in Nat
       /\ api_functions[f].unsafe \in BOOLEAN

\* add_api_function lets no other functions into the graph.
ASSUME SupportedAssumption ==
  \A f \in Funs : ~ContainsUnsupportedFuzzableType(api_functions[f])

ASSUME DependenciesAssumption ==
  /\ Len(api_dependencies) \in Nat
  /\ DOMAIN api_dependencies = 1..Len(api_dependencies)
  /\ \A d \in DOMAIN api_dependencies :
       api_dependencies[d].output_fun \in Funs /\ api_dependencies[d].input_fun \in Funs

HasNoOutput(f) == api_functions[f].output = <<>>

-----------------------------------------------------------------------------
(* ApiCall and ApiSequence *)

ApiCall(f, params) == [func |-> f, params |-> params]

NewSequence ==
  [functions            |-> <<>>,     \* the calls, in order
   fuzzable_params      |-> <<>>,     \* the variables decoded from the input
   using_traits         |-> {},       \* traits the program has to import
   unsafe_tag           |-> FALSE,    \* the calls need an unsafe block
   moved                |-> {},       \* results that cannot be used any more
   fuzzable_mut_tag     |-> {},       \* variables declared mut
   function_mut_tag     |-> {},       \* results declared mut
   covered_dependencies |-> {},
   careful_pairs        |-> {}]

ContainsMultiDynamicLengthFuzzable(s) ==
  \E n \in DOMAIN s.fuzzable_params :
    IsMultipleDynamicLength(s.fuzzable_params[n])

-----------------------------------------------------------------------------
(* check_dependency: the first edge from the result of o to parameter i of f. *)

DependencyIndexes(o, f, i) ==
  {d \in DOMAIN api_dependencies :
     /\ api_dependencies[d].output_fun = o
     /\ api_dependencies[d].input_fun = f
     /\ api_dependencies[d].input_param_index = i}

CheckDependency(o, f, i) == Min(DependencyIndexes(o, f, i))

-----------------------------------------------------------------------------
(***************************************************************************)
(* A frame holds the local variables of is_fun_satisfied: the function to  *)
(* append, the arguments found so far, the results that are moved, mutably *)
(* and immutably borrowed by them, and new_sequence.                       *)
(***************************************************************************)
NewFrame(s, f) ==
  [fun              |-> f,
   params           |-> <<>>,
   moved            |-> s.moved,
   multi_mut        |-> {},
   immutable_borrow |-> {},
   new |-> [s EXCEPT !.unsafe_tag   = @ \/ api_functions[f].unsafe,
                     !.using_traits = @ \cup api_functions[f].traits]]

Inputs(fr) == api_functions[fr.fun].inputs

\* The parameter the next argument is for, and its type.
ParamIndex(fr) == Len(fr.params) + 1
ParamType(fr) == Inputs(fr)[ParamIndex(fr)]

\* A parameter the fuzzer fills.
FuzzableArgument(fr) == GenerateFuzzableTypeAndCallType(ParamType(fr))

\* Mutant: the variable is numbered by the parameter it is for.
PassFuzzableByPosition(fr) ==
  LET arg   == FuzzableArgument(fr)
      index == ParamIndex(fr)
  IN  [fr EXCEPT
        !.params = Append(@, [kind |-> "FuzzableType", index |-> index,
                              call_type |-> arg.call_type]),
        !.new.fuzzable_params  = Append(@, arg.fuzzable_type),
        !.new.fuzzable_mut_tag =
          @ \cup (IF NeedMutTag(arg.call_type) THEN {index} ELSE {})]

PassFuzzable(fr) ==
  LET arg   == FuzzableArgument(fr)
      index == Len(fr.new.fuzzable_params) + 1
  IN  [fr EXCEPT
        !.params = Append(@, [kind |-> "FuzzableType", index |-> index,
                              call_type |-> arg.call_type]),
        !.new.fuzzable_params  = Append(@, arg.fuzzable_type),
        !.new.fuzzable_mut_tag =
          @ \cup (IF NeedMutTag(arg.call_type) THEN {index} ELSE {})]

-----------------------------------------------------------------------------
(* A parameter that needs the result of an earlier call. *)

EdgeIndexes(fr, j) ==
  DependencyIndexes(fr.new.functions[j].func, fr.fun, ParamIndex(fr))

EdgeIndex(fr, j) ==
  CheckDependency(fr.new.functions[j].func, fr.fun, ParamIndex(fr))

EdgeCallType(fr, j) == api_dependencies[EdgeIndex(fr, j)].call_type

Moves(fr, j) == MoveCondition(ParamType(fr), EdgeCallType(fr, j))

MutBorrows(fr, j) ==
  ~Moves(fr, j) /\ IsMutableBorrowOccurs(ParamType(fr), EdgeCallType(fr, j))

ImmutBorrows(fr, j) ==
  /\ ~Moves(fr, j) /\ ~MutBorrows(fr, j)
  /\ IsImmutableBorrowOccurs(ParamType(fr), EdgeCallType(fr, j))

\* Mutant: moved results are not skipped.
CandidatesNoneSkipped(fr) ==
  {j \in DOMAIN fr.new.functions : EdgeIndexes(fr, j) # {}}

\* Mutant: what an earlier argument of this call moved is not skipped.
CandidatesMovedByOthers(fr) ==
  {j \in DOMAIN fr.new.functions :
     j \notin fr.new.moved /\ EdgeIndexes(fr, j) # {}}

\* The calls of the sequence whose result has the type and is not moved.
Candidates(fr) ==
  {j \in DOMAIN fr.new.functions :
     j \notin fr.moved /\ EdgeIndexes(fr, j) # {}}

\* Mutant: only mutable borrows stand in the way.
ConflictsMutOnly(fr, j) ==
  /\ Moves(fr, j) \/ MutBorrows(fr, j) \/ ImmutBorrows(fr, j)
  /\ j \in fr.multi_mut

\* An earlier argument of the same call already borrowed the result.
Conflicts(fr, j) ==
  \/ /\ Moves(fr, j) \/ MutBorrows(fr, j)
     /\ j \in fr.multi_mut \cup fr.immutable_borrow
  \/ ImmutBorrows(fr, j) /\ j \in fr.multi_mut

Usable(fr) == {j \in Candidates(fr) : ~Conflicts(fr, j)}

\* The results that borrow from result j and die with it.
Borrowers(fr, j) ==
  {p[2] : p \in {q \in fr.new.careful_pairs : q[1] = j}}

\* The new call keeps borrowing from result j through its own result.
LendsTo(fr, j) ==
  /\ ~HasNoOutput(fr.fun)
  /\ IsImmutableBorrowType(api_functions[fr.fun].output)
  /\ ~IsImmutableBorrowType(api_functions[fr.new.functions[j].func].output)

\* What every use of a result records.  The edges of the candidates that were
\* tried and refused before j are recorded as covered, too.
PassReturn(fr, j) ==
  LET ct == EdgeCallType(fr, j)
  IN  [fr EXCEPT
        !.params = Append(@, [kind |-> "FunctionReturn", index |-> j,
                              call_type |-> ct]),
        !.new.covered_dependencies =
          @ \cup {EdgeIndex(fr, k) : k \in {m \in Candidates(fr) : m <= j}},
        !.new.function_mut_tag =
          @ \cup (IF NeedMutTag(ct) THEN {j} ELSE {}),
        !.new.unsafe_tag = @ \/ UnsafeCallType(ct)]

MoveReturn(fr, j) ==
  [PassReturn(fr, j) EXCEPT !.moved = @ \cup Borrowers(fr, j) \cup {j}]

\* Mutant: references into the result survive its mutable borrow.
MutBorrowReturnAlone(fr, j) ==
  [PassReturn(fr, j) EXCEPT !.multi_mut = @ \cup {j}]

MutBorrowReturn(fr, j) ==
  [PassReturn(fr, j) EXCEPT !.moved = @ \cup Borrowers(fr, j),
                            !.multi_mut = @ \cup {j}]

ImmutBorrowReturn(fr, j) ==
  [PassReturn(fr, j) EXCEPT
     !.immutable_borrow = @ \cup {j},
     !.new.careful_pairs =
       @ \cup (IF LendsTo(fr, j) THEN {<<j, Len(fr.new.functions) + 1>>}
               ELSE {})]

UseReturn(fr, j) ==
  CASE Moves(fr, j)        -> MoveReturn(fr, j)
    [] MutBorrows(fr, j)   -> MutBorrowReturn(fr, j)
    [] ImmutBorrows(fr, j) -> ImmutBorrowReturn(fr, j)
    [] OTHER               -> PassReturn(fr, j)

-----------------------------------------------------------------------------
\* The first usable result in the order of the calls, if there is one.
FirstUsable(fr) ==
  {Min(usable) : usable \in {Usable(fr)} \ {{}}}

\* One iteration of the loop over the parameters; no frame if it returns None.
NextParam(fr) ==
  IF IsFuzzableType(ParamType(fr))
  THEN IF FuzzableArgument(fr).fuzzable_type = NoFuzzable THEN {}
       ELSE {PassFuzzable(fr)}
  ELSE {UseReturn(fr, j) : j \in FirstUsable(fr)}

\* new_sequence with the call added.
Appended(fr) ==
  [fr.new EXCEPT !.functions = Append(@, ApiCall(fr.fun, fr.params)),
                 !.moved = fr.moved]

\* The check after the loop; a function without parameters skips it.
Refused(fr) ==
  Inputs(fr) # <<>> /\ ContainsMultiDynamicLengthFuzzable(Appended(fr))

\* The frame after each number of parameters, no frame once it returned None.
Frames(f, s) ==
  LET loop[n \in 0..Len(api_functions[f].inputs)] ==
        IF n = 0 THEN {NewFrame(s, f)}
        ELSE UNION {NextParam(fr) : fr \in loop[n - 1]}
  IN  loop

IsFunSatisfied(f, s) ==
  LET arity == Len(api_functions[f].inputs)
  IN  {Appended(fr) : fr \in {x \in Frames(f, s)[arity] : ~Refused(x)}}

-----------------------------------------------------------------------------
(***************************************************************************)
(* Types.  An argument is passed the way an edge of the graph says or the  *)
(* way a decoded variable is passed, and variables have decodable types.   *)
(***************************************************************************)
ParamTypes ==
  UNION {{api_functions[f].inputs[i] : i \in DOMAIN api_functions[f].inputs} : f \in Funs}

DecodedTypes == {GenerateFuzzableTypeAndCallType(ty).fuzzable_type : ty \in ParamTypes}

ArgCallTypes ==
  {GenerateFuzzableTypeAndCallType(ty).call_type : ty \in ParamTypes} \cup
  {api_dependencies[d].call_type : d \in DOMAIN api_dependencies}

Traits == UNION {api_functions[f].traits : f \in Funs}

Param ==
  [kind : {"FuzzableType", "FunctionReturn"}, index : Nat, call_type : ArgCallTypes]

Sequence ==
  [functions            : Seq([func : Funs, params : Seq(Param)]),
   fuzzable_params      : Seq(DecodedTypes \ {NoFuzzable}),
   using_traits         : SUBSET Traits,
   unsafe_tag           : BOOLEAN,
   moved                : SUBSET Nat,
   fuzzable_mut_tag     : SUBSET Nat,
   function_mut_tag     : SUBSET Nat,
   covered_dependencies : SUBSET DOMAIN api_dependencies,
   careful_pairs        : SUBSET (Nat \X Nat)]

Frame ==
  [fun : Funs \cup {0}, params : Seq(Param), moved : SUBSET Nat,
   multi_mut : SUBSET Nat, immutable_borrow : SUBSET Nat, new : Sequence]

-----------------------------------------------------------------------------
(* _merge_another_sequence: one sequence after the other, renumbered. *)

Shifted(positions, n) == {p + n : p \in positions}

Renumbered(param, n, m) ==
  [param EXCEPT !.index = @ + (IF param.kind = "FuzzableType" THEN m ELSE n)]

\* The calls of other when n calls and m variables precede them.
ShiftedCalls(other, n, m) ==
  [c \in DOMAIN other.functions |->
    ApiCall(other.functions[c].func,
            [p \in DOMAIN other.functions[c].params |->
              Renumbered(other.functions[c].params[p], n, m)])]

\* Mutant: what is moved keeps its old number.
MergeMovedUnshifted(s, other) ==
  LET n == Len(s.functions)
      m == Len(s.fuzzable_params)
  IN  [s EXCEPT !.functions        = @ \o ShiftedCalls(other, n, m),
                !.fuzzable_params  = @ \o other.fuzzable_params,
                !.using_traits     = @ \cup other.using_traits,
                !.unsafe_tag       = @ \/ other.unsafe_tag,
                !.moved            = @ \cup other.moved,
                !.fuzzable_mut_tag = @ \cup Shifted(other.fuzzable_mut_tag, m),
                !.function_mut_tag = @ \cup Shifted(other.function_mut_tag, n)]

\* Mutant: the moved results of the second sequence are forgotten.
MergeMovedDropped(s, other) ==
  LET n == Len(s.functions)
      m == Len(s.fuzzable_params)
  IN  [s EXCEPT !.functions        = @ \o ShiftedCalls(other, n, m),
                !.fuzzable_params  = @ \o other.fuzzable_params,
                !.using_traits     = @ \cup other.using_traits,
                !.unsafe_tag       = @ \/ other.unsafe_tag,
                !.fuzzable_mut_tag = @ \cup Shifted(other.fuzzable_mut_tag, m),
                !.function_mut_tag = @ \cup Shifted(other.function_mut_tag, n)]

\* The careful_pairs and covered_dependencies of other are lost.
MergeAnotherSequence(s, other) ==
  LET n == Len(s.functions)
      m == Len(s.fuzzable_params)
  IN  [s EXCEPT !.functions        = @ \o ShiftedCalls(other, n, m),
                !.fuzzable_params  = @ \o other.fuzzable_params,
                !.using_traits     = @ \cup other.using_traits,
                !.unsafe_tag       = @ \/ other.unsafe_tag,
                !.moved            = @ \cup Shifted(other.moved, n),
                !.fuzzable_mut_tag = @ \cup Shifted(other.fuzzable_mut_tag, m),
                !.function_mut_tag = @ \cup Shifted(other.function_mut_tag, n)]

\* _merge_sequences, of none a new sequence.
MergeSequences(sequences) ==
  LET merged[n \in 0..Len(sequences)] ==
        CASE n = 0 -> NewSequence
          [] n = 1 -> sequences[1]
          [] OTHER -> MergeAnotherSequence(merged[n - 1], sequences[n])
  IN  merged[Len(sequences)]

\* _dead_code: calls whose result no argument uses.
DeadCode(s) ==
  {j \in DOMAIN s.functions :
     \A c \in DOMAIN s.functions : \A p \in DOMAIN s.functions[c].params :
       s.functions[c].params[p].kind = "FunctionReturn" =>
         s.functions[c].params[p].index # j}

ContainsDeadCodeExceptLastOne(s) == DeadCode(s) \ {Len(s.functions)} # {}

HasNoFuzzables(s) == s.fuzzable_params = <<>>

=============================================================================
