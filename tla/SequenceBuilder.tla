---------------------------- MODULE SequenceBuilder ----------------------------
(***************************************************************************)
(* How a call sequence grows.  Every generation algorithm of api_graph.rs  *)
(* (bfs, random_walk, my_method, ...) holds sequences that start empty and *)
(* are extended, call by call, with what is_fun_satisfied returns.  The    *)
(* state is one such sequence and the local variables of the running call  *)
(* of is_fun_satisfied, which takes one step per parameter.                *)
(***************************************************************************)
EXTENDS SequenceRules

CONSTANT MaxLen         \* the algorithms stop extending at this length

ASSUME MaxLenAssumption == MaxLen \in Nat

VARIABLES
  sequence,             \* the sequence the algorithm holds
  frame                 \* is_fun_satisfied's locals, NoFrame between calls

vars == <<sequence, frame>>

\* No call of is_fun_satisfied is running.
NoFrame ==
  [fun |-> 0, params |-> <<>>, moved |-> {}, multi_mut |-> {},
   immutable_borrow |-> {}, new |-> NewSequence]

Running == frame.fun # 0

\* There is a parameter left, and it is one of an earlier call's result.
MoreParams == Running /\ Len(frame.params) < Len(Inputs(frame))
NeedsReturn == MoreParams /\ ~IsFuzzableType(ParamType(frame))

Init ==
  /\ sequence = NewSequence
  /\ frame = NoFrame

-----------------------------------------------------------------------------
\* is_fun_satisfied(BareFunction, f, sequence) is called.
Begin(f) ==
  /\ ~Running
  /\ Len(sequence.functions) < MaxLen
  /\ frame' = NewFrame(sequence, f)
  /\ UNCHANGED sequence

\* The algorithm goes on with a fresh sequence.
StartOver ==
  /\ ~Running
  /\ sequence' = NewSequence
  /\ UNCHANGED frame

FuzzableParam ==
  /\ MoreParams
  /\ IsFuzzableType(ParamType(frame))
  /\ FuzzableArgument(frame).fuzzable_type # NoFuzzable
  /\ frame' = PassFuzzable(frame)
  /\ UNCHANGED sequence

\* The first usable result in the order of the calls.
Chosen == Min(Usable(frame))

MoveParam ==
  /\ NeedsReturn /\ Usable(frame) # {}
  /\ Moves(frame, Chosen)
  /\ frame' = MoveReturn(frame, Chosen)
  /\ UNCHANGED sequence

MutBorrowParam ==
  /\ NeedsReturn /\ Usable(frame) # {}
  /\ MutBorrows(frame, Chosen)
  /\ frame' = MutBorrowReturn(frame, Chosen)
  /\ UNCHANGED sequence

ImmutBorrowParam ==
  /\ NeedsReturn /\ Usable(frame) # {}
  /\ ImmutBorrows(frame, Chosen)
  /\ frame' = ImmutBorrowReturn(frame, Chosen)
  /\ UNCHANGED sequence

\* A borrow below the top of the parameter type, which no branch recognizes.
OtherParam ==
  /\ NeedsReturn /\ Usable(frame) # {}
  /\ ~Moves(frame, Chosen) /\ ~MutBorrows(frame, Chosen)
  /\ ~ImmutBorrows(frame, Chosen)
  /\ frame' = PassReturn(frame, Chosen)
  /\ UNCHANGED sequence

\* Mutant: the edges the refused call would have used count as covered.
ReturnNoneCovers ==
  /\ Running
  /\ IF NeedsReturn THEN Usable(frame) = {}
     ELSE IF MoreParams THEN FuzzableArgument(frame).fuzzable_type = NoFuzzable
     ELSE Refused(frame)
  /\ frame' = NoFrame
  /\ sequence' = [sequence EXCEPT !.covered_dependencies =
                                     frame.new.covered_dependencies]

\* The function cannot be appended: a fuzzable parameter without a decoder, a
\* parameter without a usable result, or a variable of two dynamic lengths.
ReturnNone ==
  /\ Running
  /\ IF NeedsReturn THEN Usable(frame) = {}
     ELSE IF MoreParams THEN FuzzableArgument(frame).fuzzable_type = NoFuzzable
     ELSE Refused(frame)
  /\ frame' = NoFrame
  /\ UNCHANGED sequence

ReturnSome ==
  /\ Running /\ ~MoreParams
  /\ ~Refused(frame)
  /\ sequence' = Appended(frame)
  /\ frame' = NoFrame

Next ==
  \/ \E f \in Funs : Begin(f)
  \/ StartOver
  \/ FuzzableParam
  \/ MoveParam
  \/ MutBorrowParam
  \/ ImmutBorrowParam
  \/ OtherParam
  \/ ReturnNone
  \/ ReturnSome

Spec == Init /\ [][Next]_vars

-----------------------------------------------------------------------------
\* The sequence and the locals of is_fun_satisfied have the types of their
\* declarations in api_sequence.rs and api_graph.rs; no variable of the
\* sequence is one the input bytes cannot be decoded to.
TypeOK ==
  /\ sequence \in Sequence
  /\ frame \in Frame

-----------------------------------------------------------------------------
\* No result of the sequence is used before it exists or after it was moved,
\* by a later call or a later argument (api_graph.rs skips _moved_indexes).
NoUseAfterMove == NoUseAfterMoveIn(sequence)

\* While a call is evaluated, no other argument touches what one of its
\* arguments borrows mutably (_multi_mut and _immutable_borrow).
ExclusiveMutBorrow == ExclusiveMutBorrowIn(sequence)

\* A reference into a result dies with the first later call that moves the
\* result or borrows it mutably (careful_pairs of is_fun_satisfied).
BorrowEndsWithOwner == BorrowEndsWithOwnerIn(sequence)

\* The generated test binds _param0, _param1, ... once each, uses each of them
\* once, and uses no other variable.
FuzzablesUsedOnce == FuzzablesUsedOnceIn(sequence)

\* The edges the sequence counts as covered include the one of every argument it
\* passes, and none of a call it did not get: what a refused extension tried is
\* not counted (_covered_dependencies of the copy is_fun_satisfied works on).
CoversItsEdges == CoversItsEdgesIn(sequence)

\* The functions that add_api_function lets into the graph have parameters that
\* can be filled: is_fun_satisfied returns None only for want of a result, and
\* its own two checks of the variables never fail.
RefusedForWantOfResult ==
  Running => IF MoreParams
             THEN NeedsReturn \/ FuzzableArgument(frame).fuzzable_type # NoFuzzable
             ELSE ~Refused(frame)

-----------------------------------------------------------------------------
\* A result that is_fun_satisfied took out of circulation stays out, through
\* every extension of the sequence, until the sequence itself is replaced.
MovedForever ==
  [][sequence' = NewSequence \/ sequence.moved \subseteq sequence'.moved]_vars

\* Call sequences implement the ownership discipline of Rust: the results a
\* new call uses are neither moved nor borrowed from a moved result.
Rust == INSTANCE Ownership WITH
          produced <- Len(sequence.functions),
          gone     <- sequence.moved,
          used     <- UsedByLast(sequence)

ImplementsOwnership == Rust!Spec

-----------------------------------------------------------------------------
(* What a comment of the code says of a sequence, and a run refutes. *)

\* api_sequence.rs: _unsafe_tag says whether the sequence needs to be marked
\* unsafe, which it does as soon as an argument dereferences a raw pointer.
UnsafeTagComplete ==
  \A c \in DOMAIN sequence.functions : \A p \in Args(sequence, c) :
    (\E k \in DOMAIN Arg(sequence, c, p).call_type :
       Arg(sequence, c, p).call_type[k] = "UnsafeDeref")
      => sequence.unsafe_tag

\* api_sequence.rs: _covered_dependencies says which dependencies are used, so
\* each of them is the edge by which a call of the sequence gets an argument.
CoveredEdgesUsed ==
  \A d \in sequence.covered_dependencies :
    \E c \in DOMAIN sequence.functions : \E p \in Args(sequence, c) :
      \E j \in 1..(c - 1) : PassedAlong(sequence, c, p, j, d)

=============================================================================
