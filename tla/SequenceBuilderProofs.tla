------------------------- MODULE SequenceBuilderProofs -------------------------
(***************************************************************************)
(* Proofs about SequenceBuilder and RandomWalk: sequences of any length    *)
(* over any crate and any edges keep the ownership rules that              *)
(* is_fun_satisfied enforces, one sequence on its own as well as the many  *)
(* that random_walk keeps and draws from.                                  *)
(*                                                                         *)
(* IInv joins what SequenceRulesProofs says of the finished calls (Sound,  *)
(* Tracked) and of the arguments chosen so far (FrameInv).  Plain and      *)
(* Covering add what is known of the variables and the covered edges.      *)
(***************************************************************************)
EXTENDS SequenceBuilder, RandomWalk, SequenceRulesProofs

Arity == Len(Inputs(frame))

FrameRuns ==
  Running =>
    /\ frame.fun \in Funs
    /\ Len(frame.params) \in 0..Arity
    /\ FrameInv(frame, sequence)

IInv == TypeOK /\ Sound(sequence) /\ Tracked(sequence) /\ FrameRuns

-----------------------------------------------------------------------------
\* No call is running, and the record that says so has its type.
LEMMA NoFrameIdle == NoFrame \in Frame /\ NoFrame.fun = 0
  BY NewSequenceType DEF NoFrame, Frame

\* The first usable result is usable.
LEMMA ChosenUsable ==
  ASSUME frame \in Frame, Usable(frame) # {}
  PROVE  Chosen \in Usable(frame) /\ FirstUsable(frame) = {Chosen}
<1>1. Usable(frame) \in SUBSET Nat
  BY EdgeTypes DEF Usable
<1> QED
  BY <1>1, MinIsLeast DEF Chosen, FirstUsable

\* A step for a parameter: frame' is what one iteration of the loop makes.
ParamStep == FuzzableParam \/ MoveParam \/ MutBorrowParam \/ ImmutBorrowParam \/ OtherParam

\* Each step for a parameter is the one iteration that NextParam describes.
LEMMA ParamStepIterates ==
  ASSUME IInv, ParamStep
  PROVE  MoreParams /\ sequence' = sequence /\ NextParam(frame) = {frame'}
<1>1. frame \in Frame
  BY DEF IInv, TypeOK
<1>2. CASE FuzzableParam
  BY <1>2 DEF FuzzableParam, NextParam
<1>3. CASE MoveParam \/ MutBorrowParam \/ ImmutBorrowParam \/ OtherParam
  <2>1. NeedsReturn /\ Usable(frame) # {} /\ sequence' = sequence
    BY <1>3 DEF MoveParam, MutBorrowParam, ImmutBorrowParam, OtherParam
  <2>2. NextParam(frame) = {UseReturn(frame, Chosen)}
    BY <1>1, <2>1, ChosenUsable DEF NeedsReturn, NextParam
  <2>3. /\ MutBorrows(frame, Chosen) => ~Moves(frame, Chosen)
        /\ ImmutBorrows(frame, Chosen) => ~Moves(frame, Chosen) /\ ~MutBorrows(frame, Chosen)
    BY DEF MutBorrows, ImmutBorrows
  <2>4. frame' = UseReturn(frame, Chosen)
    BY <1>3, <2>3 DEF MoveParam, MutBorrowParam, ImmutBorrowParam, OtherParam, UseReturn
  <2> QED
    BY <2>1, <2>2, <2>4 DEF NeedsReturn
<1> QED
  BY <1>2, <1>3 DEF ParamStep

\* A step for a parameter keeps the invariant.
LEMMA ParamStepKeeps ==
  ASSUME IInv, ParamStep
  PROVE  IInv'
<1> DEFINE n == Len(frame.params)
           f == frame.fun
<1>1. Running /\ n < Arity /\ sequence' = sequence /\ NextParam(frame) = {frame'}
  BY ParamStepIterates DEF MoreParams, Arity
<1>2. /\ f \in Funs /\ n \in 0..Arity /\ FrameInv(frame, sequence)
      /\ frame \in Frame /\ Sound(sequence) /\ Tracked(sequence)
  BY <1>1 DEF IInv, FrameRuns, TypeOK
<1>3. sequence \in Sequence /\ Recorded(sequence)
  BY <1>2 DEF Sound
<1>4. Arity = Len(api_functions[f].inputs) /\ Arity \in Nat /\ n \in Nat
      /\ n + 1 \in 1..Arity /\ (n + 1) - 1 = n
  BY <1>1, <1>2, ArityType DEF Arity, Inputs
<1>5. LoopFrame(f, sequence, n, frame)
  BY <1>2 DEF LoopFrame
<1>6. LoopFrame(f, sequence, n + 1, frame')
  <2>1. frame' \in NextParam(frame)
    BY <1>1
  <2> HIDE DEF f, n
  <2> QED
    BY <1>2, <1>3, <1>4, <1>5, <2>1, NextParamKeeps
<1>7. frame' \in Frame /\ frame'.fun = f /\ Len(frame'.params) = n + 1
      /\ FrameInv(frame', sequence')
  BY <1>1, <1>6 DEF LoopFrame
<1>8. Arity' = Arity
  BY <1>7 DEF Arity, Inputs
<1>9. FrameRuns'
  BY <1>1, <1>2, <1>4, <1>7, <1>8 DEF FrameRuns
<1>10. TypeOK' /\ Sound(sequence)' /\ Tracked(sequence)'
  BY <1>1, <1>2, <1>3, <1>7 DEF TypeOK
<1> QED
  BY <1>9, <1>10 DEF IInv

-----------------------------------------------------------------------------
\* The empty sequence, with no call running, satisfies the invariant.
LEMMA Initially == Init => IInv
  BY NewSequenceType, NewSequenceSound, NoFrameIdle DEF Init, IInv, TypeOK, FrameRuns, Running

\* is_fun_satisfied begins with the frame of no arguments.
LEMMA BeginKeeps ==
  ASSUME IInv, NEW f \in Funs, Begin(f)
  PROVE  IInv'
<1>1. sequence' = sequence /\ frame' = NewFrame(sequence, f) /\ sequence \in Sequence
      /\ Sound(sequence) /\ Tracked(sequence)
  BY DEF Begin, IInv, TypeOK
<1>2. frame' \in Frame /\ FrameInv(frame', sequence')
  <2>1. Recorded(sequence) /\ FrameInv(NewFrame(sequence, f), sequence)
    BY <1>1, NewFrameInv DEF Sound
  <2> QED
    BY <1>1, <2>1, NewFrameType
<1>3. frame'.fun = f /\ Len(frame'.params) = 0
  BY <1>1 DEF NewFrame
<1>4. 0 \in 0..Arity'
  BY <1>3, ArityType DEF Arity, Inputs
<1>5. FrameRuns'
  BY <1>1, <1>2, <1>3, <1>4 DEF FrameRuns
<1> QED
  BY <1>1, <1>2, <1>5 DEF IInv, TypeOK

\* What ReturnSome appends extends the sequence and keeps its rules.
LEMMA ReturnSomeExtends ==
  ASSUME IInv, ReturnSome
  PROVE  Sound(sequence') /\ Tracked(sequence') /\ Extends(sequence, frame.fun, sequence')
<1>1. /\ frame \in Frame /\ frame.fun \in Funs /\ FrameInv(frame, sequence)
      /\ Sound(sequence) /\ Tracked(sequence) /\ sequence' = Appended(frame)
  BY DEF IInv, FrameRuns, TypeOK, ReturnSome
<1> QED
  BY <1>1, AppendedSound

\* Every step keeps the invariant.
LEMMA Invariance == IInv /\ [Next]_vars => IInv'
<1> SUFFICES ASSUME IInv, [Next]_vars PROVE IInv'
  OBVIOUS
<1>1. CASE \E f \in Funs : Begin(f)
  BY <1>1, BeginKeeps
<1>2. CASE StartOver
  <2>1. sequence' = NewSequence /\ frame' = frame /\ ~Running
    BY <1>2 DEF StartOver
  <2>2. FrameRuns'
    BY <2>1 DEF FrameRuns, Running
  <2> QED
    BY <2>1, <2>2, NewSequenceType, NewSequenceSound DEF IInv, TypeOK
<1>3. CASE ParamStep
  BY <1>3, ParamStepKeeps
<1>4. CASE ReturnNone
  <2>1. sequence' = sequence /\ frame' = NoFrame
    BY <1>4 DEF ReturnNone
  <2>2. FrameRuns'
    BY <2>1, NoFrameIdle DEF FrameRuns, Running
  <2> QED
    BY <2>1, <2>2, NoFrameIdle DEF IInv, TypeOK
<1>5. CASE ReturnSome
  <2>1. Sound(sequence') /\ Tracked(sequence') /\ frame' = NoFrame
    BY <1>5, ReturnSomeExtends DEF ReturnSome
  <2>2. FrameRuns'
    BY <2>1, NoFrameIdle DEF FrameRuns, Running
  <2> QED
    BY <2>1, <2>2, NoFrameIdle DEF IInv, TypeOK, Sound
<1>6. CASE UNCHANGED vars
  BY <1>6 DEF IInv, TypeOK, FrameRuns, Running, Arity, vars
<1> QED
  BY <1>1, <1>2, <1>3, <1>4, <1>5, <1>6 DEF Next, ParamStep

-----------------------------------------------------------------------------
\* The sequence and the locals of is_fun_satisfied always have their types.
THEOREM TypeCorrect == Spec => []TypeOK
  BY Initially, Invariance, PTL DEF Spec, IInv

\* For every crate: is_fun_satisfied never builds a sequence in which a result
\* is used after an argument moved it.
THEOREM NeverUsedAfterMove == Spec => []NoUseAfterMove
<1>1. IInv => NoUseAfterMove
  BY DEF IInv, Sound, NoUseAfterMove
<1> QED
  BY <1>1, Initially, Invariance, PTL DEF Spec

\* For every crate: no call of a sequence borrows a result mutably and uses it
\* in another argument, as far as _multi_mut and _immutable_borrow can tell.
THEOREM MutBorrowsExclusive == Spec => []ExclusiveMutBorrow
<1>1. IInv => ExclusiveMutBorrow
  BY DEF IInv, Sound, ExclusiveMutBorrow
<1> QED
  BY <1>1, Initially, Invariance, PTL DEF Spec

\* For every crate: a reference into a result dies with the first later call
\* that moves or mutably borrows the result.
THEOREM BorrowsEnd == Spec => []BorrowEndsWithOwner
<1>1. IInv => BorrowEndsWithOwner
  BY TrackedBorrowsEnd DEF IInv, Sound, BorrowEndsWithOwner
<1> QED
  BY <1>1, Initially, Invariance, PTL DEF Spec

\* For every crate: every variable decoded from the input is the argument of
\* exactly one parameter of the sequence, and every fuzzable argument has its
\* variable.
THEOREM VariablesUsedOnce == Spec => []FuzzablesUsedOnce
<1>1. IInv => FuzzablesUsedOnce
  BY DEF IInv, Sound, FuzzablesUsedOnce
<1> QED
  BY <1>1, Initially, Invariance, PTL DEF Spec

-----------------------------------------------------------------------------
\* A step that is neither a fresh sequence nor a finished call leaves the
\* sequence alone.
LEMMA OtherStepsKeepSequence ==
  ASSUME [Next]_vars, ~StartOver, ~ReturnSome
  PROVE  sequence' = sequence
  BY DEF Next, vars, Begin, FuzzableParam, MoveParam, MutBorrowParam,
         ImmutBorrowParam, OtherParam, ReturnNone

\* No step takes a result out of moved but the one that replaces the sequence.
LEMMA MovedGrows ==
  ASSUME IInv, [Next]_vars
  PROVE  [sequence' = NewSequence \/ sequence.moved \subseteq sequence'.moved]_vars
<1>1. CASE StartOver
  BY <1>1 DEF StartOver
<1>2. CASE ReturnSome
  BY <1>2, ReturnSomeExtends DEF Extends
<1>3. CASE ~StartOver /\ ~ReturnSome
  BY <1>3, OtherStepsKeepSequence
<1> QED
  BY <1>1, <1>2, <1>3

\* For every crate: what is moved stays moved while the sequence grows.
THEOREM MovedIsForever == Spec => MovedForever
  BY Initially, Invariance, MovedGrows, PTL DEF Spec, MovedForever

-----------------------------------------------------------------------------
\* Every step of is_fun_satisfied is a step of Ownership or changes nothing of
\* what Ownership sees.
LEMMA StepRefines ==
  ASSUME IInv, [Next]_vars
  PROVE  [Rust!Next]_<<Len(sequence.functions), sequence.moved, UsedByLast(sequence)>>
<1>1. CASE StartOver
  <2>1. /\ Len(sequence'.functions) = 0 /\ sequence'.moved = {}
    BY <1>1 DEF StartOver, NewSequence
  <2>2. UsedByLast(sequence') = {}
    BY <2>1 DEF UsedByLast
  <2> QED
    BY <2>1, <2>2 DEF Rust!Next, Rust!Fresh
<1>2. CASE ReturnSome
  BY <1>2, ReturnSomeExtends DEF Extends, Rust!Next, Rust!Call
<1>3. CASE ~StartOver /\ ~ReturnSome
  BY <1>3, OtherStepsKeepSequence
<1> QED
  BY <1>1, <1>2, <1>3

\* For every crate: the sequences is_fun_satisfied builds are programs of the
\* abstract ownership discipline; each call only uses results that exist and
\* are not gone.
THEOREM RefinesOwnership == Spec => ImplementsOwnership
<1>1. Init => Rust!Init
  BY DEF Init, NewSequence, UsedByLast, Rust!Init
<1> QED
  BY <1>1, Initially, Invariance, StepRefines, PTL DEF Spec, ImplementsOwnership, Rust!Spec

-----------------------------------------------------------------------------
\* Neither the sequence nor the one that is being made has a variable of two
\* dynamic lengths.
Plain ==
  /\ ~ContainsMultiDynamicLengthFuzzable(sequence)
  /\ Running => ~ContainsMultiDynamicLengthFuzzable(frame.new)

\* The sequences begin without variables.
LEMMA NewSequencePlain == ~ContainsMultiDynamicLengthFuzzable(NewSequence)
  BY DEF ContainsMultiDynamicLengthFuzzable, NewSequence

\* Every step keeps such variables out.
LEMMA PlainInvariance == IInv /\ Plain /\ [Next]_vars => Plain'
<1> SUFFICES ASSUME IInv, Plain, [Next]_vars PROVE Plain'
  OBVIOUS
<1>0. sequence \in Sequence /\ frame \in Frame
  BY DEF IInv, TypeOK
<1>1. ASSUME NEW f \in Funs, Begin(f) PROVE Plain'
  BY <1>0, <1>1, NewFramePlain DEF Begin, Plain
<1>2. CASE StartOver
  BY <1>2, NewSequencePlain DEF StartOver, Plain, Running
<1>3. CASE ParamStep
  <2>1. MoreParams /\ sequence' = sequence /\ frame' \in NextParam(frame)
    BY <1>3, ParamStepIterates
  <2>2. frame.fun \in Funs /\ Len(frame.params) \in 0..Arity
    BY <2>1 DEF MoreParams, IInv, FrameRuns
  <2>3. ParamIndex(frame) \in DOMAIN Inputs(frame)
    BY <2>1, <2>2, FunctionsAssumption DEF MoreParams, ParamIndex, Inputs, Arity
  <2> QED
    BY <1>0, <2>1, <2>2, <2>3, NextParamPlain DEF Plain, MoreParams
<1>4. CASE ReturnNone
  BY <1>4, NoFrameIdle DEF ReturnNone, Plain, Running
<1>5. CASE ReturnSome
  BY <1>0, <1>5, NoFrameIdle, AppendedPlain DEF ReturnSome, Plain, Running
<1>6. CASE UNCHANGED vars
  BY <1>6 DEF Plain, Running, vars
<1> QED
  BY <1>1, <1>2, <1>3, <1>4, <1>5, <1>6 DEF Next, ParamStep

\* For every crate whose functions passed add_api_function: is_fun_satisfied
\* returns None only for want of a result, never because of a variable.
THEOREM VariablesNeverRefused == Spec => []RefusedForWantOfResult
<1>1. Init => Plain
  BY NewSequencePlain, NoFrameIdle DEF Init, Plain, Running
<1>2. ASSUME IInv, Plain PROVE RefusedForWantOfResult
  <2> SUFFICES ASSUME Running PROVE RefusedForWantOfResult
    BY DEF RefusedForWantOfResult
  <2>1. frame \in Frame /\ frame.fun \in Funs /\ Len(frame.params) \in 0..Arity
    BY <1>2 DEF IInv, TypeOK, FrameRuns
  <2>2. CASE MoreParams
    <3>1. ParamIndex(frame) \in DOMAIN Inputs(frame)
      BY <2>1, <2>2, FunctionsAssumption DEF MoreParams, ParamIndex, Inputs, Arity
    <3>2. IsFuzzableType(ParamType(frame)) => FuzzableArgument(frame).fuzzable_type # NoFuzzable
      BY <2>1, <3>1, SupportedParam DEF FuzzableArgument, ParamType, Inputs
    <3> QED
      BY <2>2, <3>2 DEF RefusedForWantOfResult, NeedsReturn
  <2>3. CASE ~MoreParams
    BY <1>2, <2>1, <2>3, AppendedPlain DEF RefusedForWantOfResult, Plain
  <2> QED
    BY <2>2, <2>3
<1> QED
  BY <1>1, <1>2, Initially, Invariance, PlainInvariance, PTL DEF Spec

-----------------------------------------------------------------------------
(* The edges a sequence counts as covered *)

\* The edges of the arguments chosen so far are counted, and what is counted in
\* addition to the finished calls was tried for one of these arguments.
FrameCovers(fr, s) ==
  /\ \A p \in FrameArgs(fr) : \A j \in Nat :
       FrameArgUses(fr, p, j) =>
         CheckDependency(s.functions[j].func, fr.fun, p) \in fr.new.covered_dependencies
  /\ \A d \in fr.new.covered_dependencies :
       \/ d \in s.covered_dependencies
       \/ \E p \in FrameArgs(fr) :
            /\ fr.params[p].kind = "FunctionReturn"
            /\ \E k \in 1..fr.params[p].index :
                 d \in DependencyIndexes(s.functions[k].func, fr.fun, p)

Covering ==
  /\ CoversItsEdgesIn(sequence)
  /\ Running => FrameCovers(frame, sequence)

\* The edges that the scan up to result j tried.
ScannedEdges(fr, j) == {EdgeIndex(fr, k) : k \in {m \in Candidates(fr) : m <= j}}

\* Whichever way result j is used, the edges tried up to it are counted.
LEMMA UseReturnCovers ==
  ASSUME NEW fr \in Frame, NEW j \in Candidates(fr)
  PROVE  UseReturn(fr, j).new.covered_dependencies =
           fr.new.covered_dependencies \cup ScannedEdges(fr, j)
<1>1. PassReturn(fr, j) \in Frame
  BY PassReturnType
<1>2. PassReturn(fr, j).new.covered_dependencies =
        fr.new.covered_dependencies \cup ScannedEdges(fr, j)
  BY DEF PassReturn, ScannedEdges, Frame, Sequence
<1>3. MoveReturn(fr, j).new = PassReturn(fr, j).new
  BY <1>1 DEF MoveReturn, Frame
<1>4. MutBorrowReturn(fr, j).new = PassReturn(fr, j).new
  BY <1>1 DEF MutBorrowReturn, Frame
<1>5. ImmutBorrowReturn(fr, j).new.covered_dependencies =
        PassReturn(fr, j).new.covered_dependencies
  BY <1>1 DEF ImmutBorrowReturn, Frame, Sequence
<1> QED
  BY <1>2, <1>3, <1>4, <1>5 DEF UseReturn

\* The scan for a parameter tries edges that lead from the results up to the one
\* it stops at to that parameter.
LEMMA ScannedLeadHere ==
  ASSUME NEW fr \in Frame, NEW j \in Candidates(fr), NEW d \in ScannedEdges(fr, j)
  PROVE  \E k \in 1..j :
           d \in DependencyIndexes(fr.new.functions[k].func, fr.fun, ParamIndex(fr))
<1>1. PICK k \in Candidates(fr) : k <= j /\ d = EdgeIndex(fr, k)
  BY DEF ScannedEdges
<1>2. EdgeIndexes(fr, k) \in SUBSET Nat /\ EdgeIndexes(fr, k) # {}
  BY DependenciesAssumption DEF Candidates, EdgeIndexes, DependencyIndexes
<1>3. d \in EdgeIndexes(fr, k)
  BY <1>1, <1>2, MinIsLeast DEF EdgeIndex, CheckDependency, EdgeIndexes
<1>4. k \in 1..j
  <2>1. fr.new.functions \in Seq([func : Funs, params : Seq(Param)])
    BY DEF Frame, Sequence
  <2>2. k \in Nat /\ k >= 1 /\ j \in Nat
    BY <2>1 DEF Candidates
  <2> QED
    BY <1>1, <2>2
<1> QED
  BY <1>3, <1>4 DEF EdgeIndexes

\* Passing a result counts its edge.
LEMMA ReturnKeepsCovers ==
  ASSUME NEW s, NEW fr \in Frame, FrameCopies(fr, s), FrameCovers(fr, s),
         NEW j \in Usable(fr), NEW g, g = UseReturn(fr, j)
  PROVE  FrameCovers(g, s)
<1> SUFFICES ASSUME NEW last, last = Len(fr.params) + 1 PROVE FrameCovers(g, s)
  OBVIOUS
<1>1. Passes(fr, j, g) /\ j \in Candidates(fr)
  BY UseReturnPasses DEF Usable
<1>2. /\ FrameArgs(g) = FrameArgs(fr) \cup {last}
      /\ \A p \in FrameArgs(fr) : g.params[p] = fr.params[p]
      /\ g.params[last].kind = "FunctionReturn" /\ g.params[last].index = j
  BY <1>1, PassedArgs
<1>3. g.fun = fr.fun /\ fr.new.functions = s.functions /\ last = ParamIndex(fr)
  BY <1>1 DEF Passes, FrameCopies, ParamIndex
<1>4. g.new.covered_dependencies = fr.new.covered_dependencies \cup ScannedEdges(fr, j)
  BY <1>1, UseReturnCovers
<1>5. EdgeIndex(fr, j) \in ScannedEdges(fr, j)
  <2>1. j <= j
    BY <1>1, EdgeTypes
  <2> QED
    BY <1>1, <2>1 DEF ScannedEdges
<1>6. ASSUME NEW p \in FrameArgs(g), NEW k \in Nat, FrameArgUses(g, p, k)
      PROVE  CheckDependency(s.functions[k].func, g.fun, p) \in g.new.covered_dependencies
  <2>1. CASE p \in FrameArgs(fr)
    <3>1. FrameArgUses(fr, p, k)
      BY <1>2, <1>6, <2>1 DEF FrameArgUses
    <3> QED
      BY <1>3, <1>4, <2>1, <3>1 DEF FrameCovers
  <2>2. CASE p = last
    <3>1. k = j
      BY <1>2, <1>6, <2>2 DEF FrameArgUses
    <3> QED
      BY <1>3, <1>4, <1>5, <2>2, <3>1 DEF EdgeIndex
  <2> QED
    BY <1>2, <2>1, <2>2
<1>7. ASSUME NEW d \in g.new.covered_dependencies, d \notin s.covered_dependencies
      PROVE  \E p \in FrameArgs(g) :
               /\ g.params[p].kind = "FunctionReturn"
               /\ \E k \in 1..g.params[p].index :
                    d \in DependencyIndexes(s.functions[k].func, g.fun, p)
  <2>1. CASE d \in fr.new.covered_dependencies
    <3>1. PICK p \in FrameArgs(fr) :
            /\ fr.params[p].kind = "FunctionReturn"
            /\ \E k \in 1..fr.params[p].index :
                 d \in DependencyIndexes(s.functions[k].func, fr.fun, p)
      BY <1>7, <2>1 DEF FrameCovers
    <3> QED
      BY <1>2, <1>3, <3>1
  <2>2. CASE d \in ScannedEdges(fr, j)
    <3>1. \E k \in 1..j : d \in DependencyIndexes(s.functions[k].func, g.fun, last)
      BY <1>1, <1>3, <2>2, ScannedLeadHere
    <3> QED
      BY <1>2, <3>1
  <2> QED
    BY <1>4, <2>1, <2>2
<1> QED
  BY <1>6, <1>7 DEF FrameCovers

\* A decoded variable needs no edge.
LEMMA FuzzableKeepsCovers ==
  ASSUME NEW s, NEW fr \in Frame, FrameCovers(fr, s), NEW g, g = PassFuzzable(fr)
  PROVE  FrameCovers(g, s)
<1> DEFINE arg == [kind |-> "FuzzableType",
                   index |-> Len(fr.new.fuzzable_params) + 1,
                   call_type |-> FuzzableArgument(fr).call_type]
<1>1. /\ g.fun = fr.fun /\ g.params = Append(fr.params, arg)
      /\ g.new.covered_dependencies = fr.new.covered_dependencies
  BY DEF PassFuzzable, Frame, Sequence
<1>2. arg.kind = "FuzzableType" /\ fr.params \in Seq(Param)
  BY DEF Frame
<1> HIDE DEF arg
<1>3. /\ FrameArgs(g) = FrameArgs(fr) \cup {Len(fr.params) + 1}
      /\ \A p \in FrameArgs(fr) : g.params[p] = fr.params[p]
      /\ g.params[Len(fr.params) + 1] = arg
  BY <1>1, <1>2 DEF FrameArgs
<1>4. \A p \in FrameArgs(g) : \A k :
        FrameArgUses(g, p, k) => p \in FrameArgs(fr) /\ FrameArgUses(fr, p, k)
  BY <1>2, <1>3 DEF FrameArgUses
<1> QED
  BY <1>1, <1>3, <1>4 DEF FrameCovers

\* The appended call's edges are counted.
LEMMA AppendKeepsCovers ==
  ASSUME NEW s \in Sequence, NEW fr \in Frame, FrameInv(fr, s), FrameCovers(fr, s),
         NoUseAfterMoveIn(s), CoversItsEdgesIn(s), NEW t, t = Appended(fr)
  PROVE  CoversItsEdgesIn(t)
<1> SUFFICES ASSUME NEW n, n = Len(s.functions) PROVE CoversItsEdgesIn(t)
  OBVIOUS
<1>1. FrameCopies(fr, s) /\ FrameUses(fr, s)
  BY DEF FrameInv
<1>2. Grown(s, fr, t, n)
  BY <1>1, AppendedCall
<1>3. GrownUses(s, fr, t, n) /\ IndexTypes(s, fr)
  BY <1>2, AppendedUses, ArgIndexType
<1>4. /\ n \in Nat /\ DOMAIN s.functions = 1..n /\ DOMAIN t.functions = 1..(n + 1)
      /\ \A c \in 1..n : t.functions[c] = s.functions[c]
      /\ t.functions[n + 1].func = fr.fun
      /\ t.covered_dependencies = fr.new.covered_dependencies
      /\ s.covered_dependencies \subseteq t.covered_dependencies
  BY <1>1, <1>2 DEF Grown, FrameCopies
<1>5. ASSUME NEW c \in DOMAIN t.functions, NEW p \in Args(t, c), NEW j \in 1..(c - 1),
             NEW d \in DOMAIN api_dependencies, PassedAlong(t, c, p, j, d)
      PROVE  d \in t.covered_dependencies
  <2>0. t.functions[j] = s.functions[j] /\ j \in Nat
    BY <1>4
  <2>1. CASE c \in 1..n
    <3>1. p \in Args(s, c) /\ PassedAlong(s, c, p, j, d)
      BY <1>3, <1>4, <1>5, <2>0, <2>1 DEF PassedAlong, GrownUses
    <3> QED
      BY <1>4, <2>1, <3>1 DEF CoversItsEdgesIn
  <2>2. CASE c = n + 1
    <3>1. p \in FrameArgs(fr) /\ FrameArgUses(fr, p, j)
          /\ d = CheckDependency(s.functions[j].func, fr.fun, p)
      BY <1>3, <1>4, <1>5, <2>0, <2>2 DEF PassedAlong, GrownUses
    <3> QED
      BY <1>4, <2>0, <3>1 DEF FrameCovers
  <2> QED
    BY <1>4, <2>1, <2>2
<1>6. ASSUME NEW d \in t.covered_dependencies
      PROVE  \E c \in DOMAIN t.functions : \E p \in Args(t, c) : TriedFor(t, c, p, d)
  <2>1. CASE d \in s.covered_dependencies
    <3>1. PICK c \in 1..n : \E p \in Args(s, c) : TriedFor(s, c, p, d)
      BY <1>4, <2>1 DEF CoversItsEdgesIn
    <3>2. PICK p \in Args(s, c) : TriedFor(s, c, p, d)
      BY <3>1
    <3>3. Arg(s, c, p).index \in 1..(c - 1)
      BY <1>4, <3>2 DEF TriedFor, NoUseAfterMoveIn
    <3>4. \A k \in 1..Arg(s, c, p).index : t.functions[k] = s.functions[k]
      BY <1>4, <3>3
    <3>5. Arg(t, c, p) = Arg(s, c, p) /\ p \in Args(t, c) /\ t.functions[c] = s.functions[c]
      BY <1>3, <1>4, <3>2 DEF GrownUses
    <3>6. TriedFor(t, c, p, d)
      BY <3>2, <3>4, <3>5 DEF TriedFor
    <3> QED
      BY <1>4, <3>5, <3>6
  <2>2. CASE d \notin s.covered_dependencies
    <3>1. PICK p \in FrameArgs(fr) :
            /\ fr.params[p].kind = "FunctionReturn"
            /\ \E k \in 1..fr.params[p].index :
                 d \in DependencyIndexes(s.functions[k].func, fr.fun, p)
      BY <1>4, <2>2 DEF FrameCovers
    <3>2. fr.params[p].index \in 1..n
      BY <1>1, <1>2, <1>3, <3>1 DEF FrameUses, FrameArgUses, IndexTypes, Grown
    <3>3. p \in Args(t, n + 1) /\ Arg(t, n + 1, p) = fr.params[p]
      BY <1>3, <3>1 DEF GrownUses
    <3>4. TriedFor(t, n + 1, p, d)
      BY <1>4, <3>1, <3>2, <3>3 DEF TriedFor
    <3> QED
      BY <1>4, <3>3, <3>4
  <2> QED
    BY <2>1, <2>2
<1> QED
  BY <1>5, <1>6 DEF CoversItsEdgesIn

\* Nothing is counted for the empty sequence and the call that just began.
LEMMA CoveringBegins ==
  /\ CoversItsEdgesIn(NewSequence)
  /\ \A s \in Sequence : \A f \in Funs : FrameCovers(NewFrame(s, f), s)
<1>1. NewSequence.functions = <<>> /\ NewSequence.covered_dependencies = {}
  BY DEF NewSequence
<1>2. CoversItsEdgesIn(NewSequence)
  BY <1>1 DEF CoversItsEdgesIn
<1>3. ASSUME NEW s \in Sequence, NEW f \in Funs PROVE FrameCovers(NewFrame(s, f), s)
  <2>1. NewFrame(s, f).params = <<>>
        /\ NewFrame(s, f).new.covered_dependencies = s.covered_dependencies
    BY DEF NewFrame, Sequence
  <2> QED
    BY <2>1 DEF FrameCovers, FrameArgs
<1> QED
  BY <1>2, <1>3

\* Every step keeps the edges and the arguments together.
LEMMA CoveringInvariance == IInv /\ Covering /\ [Next]_vars => Covering'
<1> SUFFICES ASSUME IInv, Covering, [Next]_vars PROVE Covering'
  OBVIOUS
<1>0. sequence \in Sequence /\ frame \in Frame
  BY DEF IInv, TypeOK
<1>1. ASSUME NEW f \in Funs, Begin(f) PROVE Covering'
  BY <1>0, <1>1, CoveringBegins DEF Begin, Covering
<1>2. CASE StartOver
  BY <1>2, CoveringBegins DEF StartOver, Covering, Running
<1>3. CASE ParamStep
  <2>1. MoreParams /\ sequence' = sequence /\ frame' \in NextParam(frame)
    BY <1>3, ParamStepIterates
  <2>2. FrameCopies(frame, sequence) /\ FrameCovers(frame, sequence)
    BY <2>1 DEF MoreParams, IInv, FrameRuns, FrameInv, Covering
  <2>3. FrameCovers(frame', sequence)
    <3>1. CASE IsFuzzableType(ParamType(frame))
      <4>1. frame' = PassFuzzable(frame)
        BY <2>1, <3>1 DEF NextParam
      <4> QED
        BY <1>0, <2>2, <4>1, FuzzableKeepsCovers
    <3>2. CASE ~IsFuzzableType(ParamType(frame))
      <4>1. PICK j \in FirstUsable(frame) : frame' = UseReturn(frame, j)
        BY <2>1, <3>2 DEF NextParam
      <4>2. Usable(frame) # {} /\ j = Min(Usable(frame)) /\ Usable(frame) \in SUBSET Nat
        BY <1>0, <4>1, EdgeTypes DEF FirstUsable, Usable
      <4>3. j \in Usable(frame)
        BY <4>2, MinIsLeast
      <4> QED
        BY <1>0, <2>2, <4>1, <4>3, ReturnKeepsCovers
    <3> QED
      BY <3>1, <3>2
  <2> QED
    BY <2>1, <2>3 DEF Covering
<1>4. CASE ReturnNone
  BY <1>4, NoFrameIdle DEF ReturnNone, Covering, Running
<1>5. CASE ReturnSome
  <2>1. FrameInv(frame, sequence) /\ FrameCovers(frame, sequence) /\ NoUseAfterMoveIn(sequence)
    BY <1>5 DEF ReturnSome, IInv, FrameRuns, Covering, Sound
  <2>2. CoversItsEdgesIn(sequence')
    BY <1>0, <1>5, <2>1, AppendKeepsCovers DEF ReturnSome, Covering
  <2> QED
    BY <1>5, <2>2, NoFrameIdle DEF ReturnSome, Covering, Running
<1>6. CASE UNCHANGED vars
  BY <1>6 DEF Covering, Running, vars
<1> QED
  BY <1>1, <1>2, <1>3, <1>4, <1>5, <1>6 DEF Next, ParamStep

\* For every crate: the edges a sequence counts as covered include those of all
\* its arguments, and none that only a refused extension tried.
THEOREM EdgesAreCovered == Spec => []CoversItsEdges
<1>1. Init => Covering
  BY CoveringBegins, NoFrameIdle DEF Init, Covering, Running
<1>2. Covering => CoversItsEdges
  BY DEF Covering, CoversItsEdges
<1> QED
  BY <1>1, <1>2, Initially, Invariance, CoveringInvariance, PTL DEF Spec

-----------------------------------------------------------------------------
(* random_walk: sequences that are kept and extended in any order *)

\* The rules that is_fun_satisfied enforces, for every sequence of the walk.
WalkObeysRules ==
  \A s \in api_sequences :
    /\ NoUseAfterMoveIn(s)
    /\ ExclusiveMutBorrowIn(s)
    /\ BorrowEndsWithOwnerIn(s)
    /\ FuzzablesUsedOnceIn(s)

WInv ==
  /\ stop_at_end_function \in BOOLEAN
  /\ \A s \in api_sequences : Sound(s) /\ Tracked(s)
  /\ BuiltOnOthers

-----------------------------------------------------------------------------
\* What is_fun_satisfied returns is the sequence with one more call.
LEMMA ExtendsIsExtension ==
  ASSUME NEW s \in Sequence, NEW new \in Sequence, NEW f, Extends(s, f, new)
  PROVE  IsExtension(new, s) /\ new.functions # <<>>
<1> DEFINE n == Len(s.functions)
           Calls == [func : Funs, params : Seq(Param)]
<1>1. /\ n \in Nat /\ Len(new.functions) = n + 1
      /\ \A c \in 1..n : new.functions[c] = s.functions[c]
      /\ s.moved \subseteq new.moved
      /\ s.covered_dependencies \subseteq new.covered_dependencies
  BY DEF Extends
<1>2. s.functions \in Seq(Calls) /\ new.functions \in Seq(Calls)
  BY DEF Sequence
<1> HIDE DEF Calls
<1>3. SubSeq(new.functions, 1, n) = s.functions
  <2>1. /\ SubSeq(new.functions, 1, n) \in Seq(Calls)
        /\ Len(SubSeq(new.functions, 1, n)) = n
        /\ \A c \in 1..n : SubSeq(new.functions, 1, n)[c] = new.functions[c]
    BY <1>1, <1>2
  <2> QED
    BY <1>1, <1>2, <2>1
<1>4. new.functions # <<>>
  BY <1>1
<1> QED
  BY <1>1, <1>3, <1>4 DEF IsExtension

\* One more call on a sequence that has not ended leaves at most the new call
\* to be one of an end function.
LEMMA ExtensionEndsLast ==
  ASSUME NEW s \in Sequence, NEW new \in Sequence, NEW f, Extends(s, f, new),
         EndsAtEndFunction(s), ~IsSequenceEnded(s)
  PROVE  EndsAtEndFunction(new)
<1> SUFFICES ASSUME NEW n, n = Len(s.functions) PROVE EndsAtEndFunction(new)
  OBVIOUS
<1>1. /\ n \in Nat /\ Len(new.functions) = n + 1
      /\ DOMAIN s.functions = 1..n /\ DOMAIN new.functions = 1..(n + 1)
      /\ \A c \in 1..n : new.functions[c] = s.functions[c]
  BY DEF Extends
<1> SUFFICES ASSUME NEW c \in 1..n,
                    IsEndFunction(api_functions[new.functions[c].func])
             PROVE  FALSE
  BY <1>1 DEF EndsAtEndFunction
<1>2. IsEndFunction(api_functions[s.functions[c].func])
  BY <1>1
<1>3. c = n
  BY <1>1, <1>2 DEF EndsAtEndFunction
<1>4. s.functions # <<>> /\ Last(s.functions) = s.functions[n]
  BY <1>1 DEF Last
<1> QED
  BY <1>2, <1>3, <1>4 DEF IsSequenceEnded

\* The walk begins without sequences.
LEMMA WInitially == WalkInit => WInv
  BY DEF WalkInit, WInv, BuiltOnOthers

\* Every step keeps the invariant.
LEMMA WInvariance == WInv /\ [WalkNext]_walk_vars => WInv'
<1> SUFFICES ASSUME WInv, [WalkNext]_walk_vars PROVE WInv'
  OBVIOUS
<1>1. CASE Start
  <2>1. stop_at_end_function' = stop_at_end_function
        /\ api_sequences' \subseteq {NewSequence}
    BY <1>1 DEF Start
  <2>2. NewSequence.functions = <<>>
    BY DEF NewSequence
  <2>3. EndsAtEndFunction(NewSequence)
    BY <2>2 DEF EndsAtEndFunction
  <2>4. BuiltOnOthers'
    BY <2>1, <2>2, <2>3 DEF BuiltOnOthers
  <2> QED
    BY <2>1, <2>4, NewSequenceSound DEF WInv
<1>2. CASE Draw
  <2>1. PICK s \in api_sequences : \E f \in Funs :
          /\ ~(stop_at_end_function /\ IsSequenceEnded(s))
          /\ \E new \in IsFunSatisfied(f, s) : Found(new)
    BY <1>2 DEF Draw
  <2>2. PICK f \in Funs :
          /\ ~(stop_at_end_function /\ IsSequenceEnded(s))
          /\ \E new \in IsFunSatisfied(f, s) : Found(new)
    BY <2>1
  <2>3. PICK new \in IsFunSatisfied(f, s) : Found(new)
    BY <2>2
  <2>4. /\ api_sequences' = api_sequences \cup {new}
        /\ stop_at_end_function' = stop_at_end_function
    BY <1>2, <2>3 DEF Found, Draw
  <2>5. Sound(s) /\ Tracked(s)
    BY DEF WInv
  <2>6. Sound(new) /\ Tracked(new) /\ Extends(s, f, new)
    BY <2>5, IsFunSatisfiedSound
  <2>7. s \in Sequence /\ new \in Sequence
    BY <2>5, <2>6 DEF Sound
  <2>8. IsExtension(new, s)
    BY <2>6, <2>7, ExtendsIsExtension
  <2>9. stop_at_end_function => EndsAtEndFunction(new)
    BY <2>2, <2>6, <2>7, ExtensionEndsLast DEF WInv, BuiltOnOthers
  <2>10. BuiltOnOthers'
    <3> SUFFICES ASSUME NEW x \in api_sequences'
                 PROVE  /\ x.functions # <<>> => \E y \in api_sequences' : IsExtension(x, y)
                        /\ stop_at_end_function => EndsAtEndFunction(x)
      BY <2>4 DEF BuiltOnOthers
    <3>1. CASE x \in api_sequences
      BY <2>4, <3>1 DEF WInv, BuiltOnOthers
    <3>2. CASE x = new
      BY <2>4, <2>8, <2>9, <3>2
    <3> QED
      BY <2>4, <3>1, <3>2
  <2> QED
    BY <2>4, <2>6, <2>10 DEF WInv
<1>3. CASE Terminating \/ UNCHANGED walk_vars
  BY <1>3 DEF Terminating, walk_vars, WInv, BuiltOnOthers
<1> QED
  BY <1>1, <1>2, <1>3 DEF WalkNext

-----------------------------------------------------------------------------
\* For every crate and both modes: every sequence of the walk extends another
\* one of it by one call, and one that has ended is never extended when the
\* walk stops at end functions.
THEOREM WalkBuildsOnOthers == WalkSpec => []BuiltOnOthers
  BY WInitially, WInvariance, PTL DEF WalkSpec, WInv

\* For every crate and both modes: all sequences of the walk keep the ownership
\* rules, although they share their beginnings with each other.
THEOREM WalkKeepsRules == WalkSpec => []WalkObeysRules
<1>1. WInv => WalkObeysRules
  BY TrackedBorrowsEnd DEF WInv, WalkObeysRules, Sound
<1> QED
  BY <1>1, WInitially, WInvariance, PTL DEF WalkSpec

=============================================================================
