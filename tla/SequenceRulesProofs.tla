-------------------------- MODULE SequenceRulesProofs --------------------------
(***************************************************************************)
(* What is_fun_satisfied and _merge_another_sequence do to a sequence, for *)
(* sequences of any length over any crate and any edges: they keep the     *)
(* rules of SequenceRules.                                                 *)
(*                                                                         *)
(* The rules speak of finished calls, so none of them can be carried along *)
(* by itself: a call is finished in one step that appends arguments chosen *)
(* in earlier ones.  FrameInv says what the loop over the parameters       *)
(* maintains for the arguments it has chosen so far, Recorded what the     *)
(* fields moved and careful_pairs remember of the finished calls.          *)
(***************************************************************************)
EXTENDS SequenceRules, WellFoundedInduction, TLAPS

\* The arguments chosen so far for the running call.
FrameArgs(fr) == DOMAIN fr.params
FrameArgUses(fr, p, j) ==
  fr.params[p].kind = "FunctionReturn" /\ fr.params[p].index = j
FrameArgIs(fr, p, n) ==
  fr.params[p].kind = "FuzzableType" /\ fr.params[p].index = n
FrameArgMoves(fr, p) ==
  MoveCondition(Inputs(fr)[p], fr.params[p].call_type)
FrameArgMutBorrows(fr, p) ==
  IsMutableBorrowOccurs(Inputs(fr)[p], fr.params[p].call_type)
FrameArgImmutBorrows(fr, p) ==
  /\ ~FrameArgMoves(fr, p)
  /\ IsImmutableBorrowOccurs(Inputs(fr)[p], fr.params[p].call_type)

\* The local copies agree with the sequence, and only grow.
FrameCopies(fr, s) ==
  /\ fr.new.functions = s.functions
  /\ s.moved \subseteq fr.moved
  /\ s.careful_pairs \subseteq fr.new.careful_pairs
  /\ s.covered_dependencies \subseteq fr.new.covered_dependencies

\* Every argument is recorded in the set its use belongs to.
FrameUses(fr, s) ==
  \A p \in FrameArgs(fr) : \A j \in Nat :
    FrameArgUses(fr, p, j) =>
      /\ j \in 1..Len(s.functions)
      /\ j \notin s.moved
      /\ FrameArgMoves(fr, p) => j \in fr.moved
      /\ FrameArgMutBorrows(fr, p) => j \in fr.multi_mut
      /\ FrameArgImmutBorrows(fr, p) => j \in fr.immutable_borrow

\* Two arguments made from one result do not get into each other's way.
FrameExclusive(fr, s) ==
  \A p, q \in FrameArgs(fr) : \A j \in Nat :
    p < q /\ FrameArgUses(fr, p, j) /\ FrameArgUses(fr, q, j) =>
      /\ ~FrameArgMoves(fr, p)
      /\ FrameArgMutBorrows(fr, p) =>
           /\ ~FrameArgMoves(fr, q)
           /\ ~FrameArgMutBorrows(fr, q)
           /\ ~FrameArgImmutBorrows(fr, q)
      /\ FrameArgImmutBorrows(fr, p) => ~FrameArgMutBorrows(fr, q)

\* The new call's own borrows are recorded, and a borrower is given up
\* together with the result it borrows from.
FrameBorrows(fr, s) ==
  \A p \in FrameArgs(fr) : \A j \in Nat :
    FrameArgUses(fr, p, j) =>
      /\ FrameArgImmutBorrows(fr, p) /\ LendsTo(fr, j) =>
           <<j, Len(s.functions) + 1>> \in fr.new.careful_pairs
      /\ FrameArgMoves(fr, p) \/ FrameArgMutBorrows(fr, p) =>
           \A b \in Nat : <<j, b>> \in s.careful_pairs =>
             /\ b \in fr.moved
             /\ \A q \in FrameArgs(fr) : p < q => ~FrameArgUses(fr, q, b)

\* Nothing outside of the sequence is ever marked.
FrameRange(fr, s) ==
  /\ fr.moved \subseteq 1..Len(s.functions)
  /\ fr.immutable_borrow \subseteq 1..Len(s.functions)
  /\ \A a, b \in Nat : <<a, b>> \in fr.new.careful_pairs =>
       \/ <<a, b>> \in s.careful_pairs
       \/ b = Len(s.functions) + 1 /\ a \in fr.immutable_borrow

\* The variables added for this call are its fuzzable arguments, one each.
FrameVariables(fr, s) ==
  LET old == Len(s.fuzzable_params)
      new == Len(fr.new.fuzzable_params)
  IN  /\ old <= new
      /\ \A p \in FrameArgs(fr) :
           fr.params[p].kind = "FuzzableType" => fr.params[p].index \in (old + 1)..new
      /\ \A n \in (old + 1)..new : \E p \in FrameArgs(fr) : FrameArgIs(fr, p, n)
      /\ \A p, q \in FrameArgs(fr) : \A n \in Nat :
           FrameArgIs(fr, p, n) /\ FrameArgIs(fr, q, n) => p = q

FrameInv(fr, s) ==
  /\ FrameCopies(fr, s)
  /\ FrameUses(fr, s)
  /\ FrameExclusive(fr, s)
  /\ FrameBorrows(fr, s)
  /\ FrameRange(fr, s)
  /\ FrameVariables(fr, s)

\* What moved and careful_pairs say of the finished calls.
Recorded(s) ==
  /\ s.moved \subseteq 1..Len(s.functions)
  /\ \A a, b \in Nat : <<a, b>> \in s.careful_pairs =>
       a \in 1..Len(s.functions) /\ b \in 1..Len(s.functions)
  /\ \A c \in DOMAIN s.functions : \A p \in Args(s, c) : \A j \in Nat :
       UsesResult(s, c, p, j) /\ MovesAt(s, c, p) => j \in s.moved
  /\ \A c \in DOMAIN s.functions : \A p \in Args(s, c) : \A o, b \in Nat :
       /\ UsesResult(s, c, p, o) /\ (MovesAt(s, c, p) \/ MutBorrowsAt(s, c, p))
       /\ b < c /\ <<o, b>> \in s.careful_pairs
       => b \in s.moved

\* The rules that merged sequences obey, too.
Sound(s) ==
  /\ s \in Sequence
  /\ Recorded(s)
  /\ NoUseAfterMoveIn(s)
  /\ ExclusiveMutBorrowIn(s)
  /\ RecordedBorrowsEndIn(s)
  /\ FuzzablesUsedOnceIn(s)

\* Every reference into a result is recorded: true of sequences that are grown
\* call by call, lost when sequences are merged.
Tracked(s) ==
  \A b \in DOMAIN s.functions : \A o \in 1..(b - 1) :
    BorrowsFrom(s, b, o) => <<o, b>> \in s.careful_pairs

-----------------------------------------------------------------------------
\* A nonempty set of naturals contains its minimum, and nothing below it: the
\* first match that a scan from the front stops at.
LEMMA MinIsLeast ==
  ASSUME NEW S \in SUBSET Nat, S # {}
  PROVE  /\ Min(S) \in S
         /\ \A y \in S : Min(S) <= y
<1> DEFINE less == {ss \in Nat \X Nat : ss[1] < ss[2]}
<1>1. IsWellFoundedOn(less, Nat)
  BY NatLessThanWellFounded, Zenon DEF OpToRel
<1> HIDE DEF less
<1>2. PICK x \in S : \A y \in S : <<y, x>> \notin less
  BY <1>1, WFMin
<1>3. \A y \in S : x <= y
  <2> TAKE y \in S
  <2>1. <<y, x>> \notin less
    BY <1>2
  <2>2. <<y, x>> \in Nat \X Nat /\ <<y, x>>[1] = y /\ <<y, x>>[2] = x
    OBVIOUS
  <2>3. ~(<<y, x>>[1] < <<y, x>>[2])
    BY <2>1, <2>2, Zenon DEF less
  <2> QED
    BY <2>2, <2>3
<1> QED
  BY <1>3 DEF Min

\* Induction, for a set of numbers: what holds at the start of a loop and is
\* kept by every iteration holds after any number of them.
LEMMA Induction ==
  ASSUME NEW T \in SUBSET Nat, 0 \in T, \A n \in T : n + 1 \in T
  PROVE  T = Nat
<1> SUFFICES ASSUME Nat \ T # {} PROVE FALSE
  OBVIOUS
<1> DEFINE x == Min(Nat \ T)
<1>1. x \in Nat \ T /\ \A y \in Nat \ T : x <= y
  BY MinIsLeast
<1> HIDE DEF x
<1>2. x # 0 /\ x - 1 \in Nat
  BY <1>1
<1>3. x - 1 \in T
  BY <1>1, <1>2
<1>4. (x - 1) + 1 \in T
  BY <1>3
<1> QED
  BY <1>1, <1>4

-----------------------------------------------------------------------------
\* The number of parameters is a natural number.
LEMMA ArityType ==
  ASSUME NEW f \in Funs
  PROVE  Len(api_functions[f].inputs) \in Nat /\ f \in Nat /\ f # 0
  BY FunctionsAssumption

\* The loop over the parameters exists: it begins with the frame of no
\* arguments and every iteration makes the next frame from the one before.
LEMMA FramesUnfold ==
  ASSUME NEW f \in Funs, NEW s
  PROVE  /\ Frames(f, s)[0] = {NewFrame(s, f)}
         /\ \A n \in 1..Len(api_functions[f].inputs) :
              Frames(f, s)[n] = UNION {NextParam(fr) : fr \in Frames(f, s)[n - 1]}
<1> DEFINE arity == Len(api_functions[f].inputs)
           Step(frames) == UNION {NextParam(fr) : fr \in frames}
           first == {NewFrame(s, f)}
           IsLoop(g, m) == g = [n \in 0..m |-> IF n = 0 THEN first ELSE Step(g[n - 1])]
           T == {m \in Nat : \E g : IsLoop(g, m)}
<1>0. arity \in Nat
  BY ArityType
<1>1. Frames(f, s) = CHOOSE g : IsLoop(g, arity)
  BY DEF Frames
<1> HIDE DEF arity, Step, first
<1>2. 0 \in T
  <2> DEFINE g == [n \in 0..0 |-> first]
  <2>1. g = [n \in 0..0 |-> IF n = 0 THEN first ELSE Step(g[n - 1])]
    OBVIOUS
  <2>2. IsLoop(g, 0)
    BY <2>1
  <2> QED
    BY <2>2
<1>3. ASSUME NEW m \in T PROVE m + 1 \in T
  <2>1. PICK g : IsLoop(g, m)
    OBVIOUS
  <2>2. m \in Nat /\ g = [n \in 0..m |-> IF n = 0 THEN first ELSE Step(g[n - 1])]
    BY <2>1
  <2> DEFINE h == [n \in 0..(m + 1) |-> IF n = m + 1 THEN Step(g[m]) ELSE g[n]]
             k == [n \in 0..(m + 1) |-> IF n = 0 THEN first ELSE Step(h[n - 1])]
  <2>3. ASSUME NEW n \in 0..(m + 1) PROVE h[n] = k[n]
    <3>1. CASE n = 0
      BY <2>2, <3>1
    <3>2. CASE n = m + 1
      <4>1. m \in 0..(m + 1) /\ m # m + 1 /\ n # 0 /\ n - 1 = m
        BY <2>2, <3>2
      <4>2. h[n] = Step(g[m]) /\ h[m] = g[m]
        BY <3>2, <4>1
      <4> QED
        BY <4>1, <4>2
    <3>3. CASE n \in 1..m
      <4>1. n \in 0..m /\ n # 0 /\ n # m + 1 /\ n - 1 \in 0..(m + 1) /\ n - 1 # m + 1
        BY <2>2, <3>3
      <4>2. h[n] = g[n] /\ h[n - 1] = g[n - 1]
        BY <4>1
      <4>3. g[n] = Step(g[n - 1])
        BY <2>2, <4>1
      <4> QED
        BY <4>1, <4>2, <4>3
    <3> QED
      BY <2>2, <3>1, <3>2, <3>3
  <2>4. h = k
    BY <2>3
  <2>5. IsLoop(h, m + 1)
    BY <2>4
  <2>6. \E x : IsLoop(x, m + 1)
    <3> HIDE DEF h, IsLoop
    <3> QED
      BY <2>5
  <2> QED
    BY <2>2, <2>6
<1>4. T = Nat
  <2> HIDE DEF T
  <2>1. T \in SUBSET Nat
    BY DEF T
  <2> QED
    BY <1>2, <1>3, <2>1, Induction
<1>5. \E g : IsLoop(g, arity)
  BY <1>0, <1>4
<1>6. IsLoop(Frames(f, s), arity)
  <2> HIDE DEF IsLoop
  <2> QED
    BY <1>1, <1>5
<1>7. ASSUME NEW n \in 0..arity
      PROVE  Frames(f, s)[n] = IF n = 0 THEN first ELSE Step(Frames(f, s)[n - 1])
  BY <1>6
<1>8. Frames(f, s)[0] = first
  BY <1>0, <1>7
<1>9. ASSUME NEW n \in 1..arity PROVE Frames(f, s)[n] = Step(Frames(f, s)[n - 1])
  BY <1>0, <1>7
<1> QED
  BY <1>8, <1>9 DEF arity, first, Step

-----------------------------------------------------------------------------
(* Types *)

\* The edge check_dependency returns is an edge of the graph, so the call type
\* of the argument is one of the graph's.
LEMMA EdgeTypes ==
  ASSUME NEW fr \in Frame, NEW j \in Candidates(fr)
  PROVE  /\ EdgeIndex(fr, j) \in DOMAIN api_dependencies
         /\ EdgeCallType(fr, j) \in ArgCallTypes
         /\ j \in Nat
<1>1. EdgeIndexes(fr, j) \in SUBSET Nat /\ EdgeIndexes(fr, j) # {}
  BY DependenciesAssumption DEF Candidates, EdgeIndexes, DependencyIndexes
<1>2. EdgeIndex(fr, j) \in EdgeIndexes(fr, j)
  BY <1>1, MinIsLeast DEF EdgeIndex, CheckDependency, EdgeIndexes
<1>3. EdgeIndex(fr, j) \in DOMAIN api_dependencies
  BY <1>2 DEF EdgeIndexes, DependencyIndexes
<1>4. EdgeCallType(fr, j) \in ArgCallTypes
  BY <1>3 DEF EdgeCallType, ArgCallTypes
<1>5. j \in Nat
  BY DEF Candidates, Frame, Sequence
<1> QED
  BY <1>3, <1>4, <1>5

\* Passing a result as an argument keeps the types of the locals.
LEMMA PassReturnType ==
  ASSUME NEW fr \in Frame, NEW j \in Candidates(fr)
  PROVE  PassReturn(fr, j) \in Frame
<1> DEFINE ct == EdgeCallType(fr, j)
           arg == [kind |-> "FunctionReturn", index |-> j, call_type |-> ct]
           edges == {EdgeIndex(fr, k) : k \in {m \in Candidates(fr) : m <= j}}
<1>1. arg \in Param
  BY EdgeTypes DEF Param
<1>2. edges \subseteq DOMAIN api_dependencies
  BY EdgeTypes
<1>3. j \in Nat
  BY EdgeTypes
<1>4. UnsafeCallType(ct) \in BOOLEAN
  BY DEF UnsafeCallType
<1>5. Append(fr.params, arg) \in Seq(Param)
  BY <1>1 DEF Frame
<1> HIDE DEF ct, arg, edges
<1> DEFINE new == [fr.new EXCEPT
                     !.covered_dependencies = @ \cup edges,
                     !.function_mut_tag = @ \cup (IF NeedMutTag(ct) THEN {j} ELSE {}),
                     !.unsafe_tag = @ \/ UnsafeCallType(ct)]
<1>6. PassReturn(fr, j) = [fr EXCEPT !.params = Append(@, arg), !.new = new]
  BY DEF PassReturn, ct, arg, edges, Frame, Sequence
<1>7. fr.new \in Sequence
  BY DEF Frame
<1>8. new \in Sequence
  BY <1>2, <1>3, <1>4, <1>7 DEF Sequence
<1> HIDE DEF new
<1> QED
  BY <1>5, <1>6, <1>8 DEF Frame

\* What the record updates of api_graph.rs leave of the other fields.
LEMMA PassReturnFields ==
  ASSUME NEW fr \in Frame, NEW j \in Candidates(fr)
  PROVE  /\ PassReturn(fr, j).fun = fr.fun
         /\ PassReturn(fr, j).params =
              Append(fr.params, [kind |-> "FunctionReturn", index |-> j,
                                 call_type |-> EdgeCallType(fr, j)])
         /\ PassReturn(fr, j).moved = fr.moved
         /\ PassReturn(fr, j).multi_mut = fr.multi_mut
         /\ PassReturn(fr, j).immutable_borrow = fr.immutable_borrow
         /\ PassReturn(fr, j).new.functions = fr.new.functions
         /\ PassReturn(fr, j).new.fuzzable_params = fr.new.fuzzable_params
         /\ PassReturn(fr, j).new.careful_pairs = fr.new.careful_pairs
         /\ fr.new.covered_dependencies \subseteq PassReturn(fr, j).new.covered_dependencies
  BY DEF PassReturn, Frame, Sequence

\* The results that borrow from a result are positions in the sequence.
LEMMA BorrowersType ==
  ASSUME NEW fr \in Frame, NEW j
  PROVE  Borrowers(fr, j) \in SUBSET Nat
  BY DEF Borrowers, Frame, Sequence

\* Whatever the use of a result records, the locals keep their types.
LEMMA UseReturnType ==
  ASSUME NEW fr \in Frame, NEW j \in Candidates(fr)
  PROVE  UseReturn(fr, j) \in Frame
<1>1. j \in Nat
  BY EdgeTypes
<1>2. PassReturn(fr, j) \in Frame /\ Borrowers(fr, j) \in SUBSET Nat
  BY PassReturnType, BorrowersType
<1>3. MoveReturn(fr, j) \in Frame
  BY <1>1, <1>2 DEF MoveReturn, Frame
<1>4. MutBorrowReturn(fr, j) \in Frame
  BY <1>1, <1>2 DEF MutBorrowReturn, Frame
<1>5. ImmutBorrowReturn(fr, j) \in Frame
  <2> DEFINE lent == IF LendsTo(fr, j) THEN {<<j, Len(fr.new.functions) + 1>>} ELSE {}
             new == [PassReturn(fr, j).new EXCEPT !.careful_pairs = @ \cup lent]
  <2>1. lent \in SUBSET (Nat \X Nat)
    BY <1>1 DEF Frame, Sequence
  <2> HIDE DEF lent
  <2>2. new \in Sequence
    BY <1>2, <2>1 DEF Frame, Sequence
  <2>3. ImmutBorrowReturn(fr, j) =
          [PassReturn(fr, j) EXCEPT !.immutable_borrow = @ \cup {j}, !.new = new]
    BY <1>2 DEF ImmutBorrowReturn, Frame, Sequence, lent
  <2> HIDE DEF new
  <2> QED
    BY <1>1, <1>2, <2>2, <2>3 DEF Frame
<1> QED
  BY <1>2, <1>3, <1>4, <1>5 DEF UseReturn

\* Passing a decoded variable keeps the types of the locals: its type is one
\* that the input bytes can be decoded to.
LEMMA PassFuzzableType ==
  ASSUME NEW fr \in Frame, fr.fun \in Funs, ParamIndex(fr) \in DOMAIN Inputs(fr),
         FuzzableArgument(fr).fuzzable_type # NoFuzzable
  PROVE  PassFuzzable(fr) \in Frame
<1> DEFINE arg == FuzzableArgument(fr)
           index == Len(fr.new.fuzzable_params) + 1
           param == [kind |-> "FuzzableType", index |-> index,
                     call_type |-> arg.call_type]
           new == [fr.new EXCEPT
                     !.fuzzable_params = Append(@, arg.fuzzable_type),
                     !.fuzzable_mut_tag =
                       @ \cup (IF NeedMutTag(arg.call_type) THEN {index} ELSE {})]
<1>1. fr.new \in Sequence
  BY DEF Frame
<1>2. ParamType(fr) \in ParamTypes
  BY DEF ParamTypes, ParamType, Inputs
<1>3. arg.fuzzable_type \in DecodedTypes \ {NoFuzzable} /\ arg.call_type \in ArgCallTypes
  BY <1>2 DEF FuzzableArgument, DecodedTypes, ArgCallTypes
<1>4. index \in Nat
  BY <1>1 DEF Sequence
<1>5. PassFuzzable(fr) = [fr EXCEPT !.params = Append(@, param), !.new = new]
  BY <1>1 DEF PassFuzzable, Frame, Sequence
<1> HIDE DEF arg
<1>6. Append(fr.new.fuzzable_params, arg.fuzzable_type)
        \in Seq(DecodedTypes \ {NoFuzzable})
  BY <1>1, <1>3 DEF Sequence
<1> HIDE DEF index
<1>7. new \in Sequence
  BY <1>1, <1>4, <1>6 DEF Sequence
<1>8. param \in Param
  BY <1>3, <1>4 DEF Param
<1> HIDE DEF param, new
<1>9. Append(fr.params, param) \in Seq(Param)
  BY <1>8 DEF Frame
<1> QED
  BY <1>5, <1>7, <1>9 DEF Frame

\* The sequence is_fun_satisfied returns has the type of a sequence.
LEMMA AppendedType ==
  ASSUME NEW fr \in Frame, fr.fun \in Funs
  PROVE  Appended(fr) \in Sequence
<1>1. fr.new \in Sequence
  BY DEF Frame
<1>2. ApiCall(fr.fun, fr.params) \in [func : Funs, params : Seq(Param)]
  BY DEF ApiCall, Frame
<1>3. Append(fr.new.functions, ApiCall(fr.fun, fr.params))
        \in Seq([func : Funs, params : Seq(Param)])
  BY <1>1, <1>2 DEF Sequence
<1>4. fr.moved \in SUBSET Nat
  BY DEF Frame
<1> QED
  BY <1>1, <1>3, <1>4 DEF Appended, Sequence

\* ApiSequence::new returns a sequence.
LEMMA NewSequenceType == NewSequence \in Sequence
  BY DEF NewSequence, Sequence

\* The locals is_fun_satisfied starts with have their types.
LEMMA NewFrameType ==
  ASSUME NEW s \in Sequence, NEW f \in Funs
  PROVE  NewFrame(s, f) \in Frame
<1> DEFINE new == [s EXCEPT !.unsafe_tag   = @ \/ api_functions[f].unsafe,
                            !.using_traits = @ \cup api_functions[f].traits]
<1>1. api_functions[f].unsafe \in BOOLEAN
  BY FunctionsAssumption
<1>2. api_functions[f].traits \subseteq Traits
  BY DEF Traits
<1>3. new \in Sequence
  BY <1>1, <1>2 DEF Sequence
<1>4. s.moved \in SUBSET Nat
  BY DEF Sequence
<1> HIDE DEF new
<1>5. NewFrame(s, f) =
        [fun |-> f, params |-> <<>>, moved |-> s.moved, multi_mut |-> {},
         immutable_borrow |-> {}, new |-> new]
  BY DEF NewFrame, new
<1> QED
  BY <1>3, <1>4, <1>5 DEF Frame

-----------------------------------------------------------------------------
(***************************************************************************)
(* What the four ways to pass a result have in common: argument j is       *)
(* usable, the sets of the frame only grow, and they grow by what the use  *)
(* of j calls for.                                                         *)
(***************************************************************************)
Passes(fr, j, g) ==
  /\ j \in Usable(fr)
  /\ g.fun = fr.fun
  /\ g.new.functions = fr.new.functions
  /\ g.new.fuzzable_params = fr.new.fuzzable_params
  /\ g.params = Append(fr.params, [kind |-> "FunctionReturn", index |-> j,
                                   call_type |-> EdgeCallType(fr, j)])
  /\ fr.moved \subseteq g.moved
  /\ fr.multi_mut \subseteq g.multi_mut
  /\ fr.immutable_borrow \subseteq g.immutable_borrow
  /\ fr.new.careful_pairs \subseteq g.new.careful_pairs
  /\ fr.new.covered_dependencies \subseteq g.new.covered_dependencies
  /\ g.moved \subseteq fr.moved \cup {j} \cup Borrowers(fr, j)
  /\ g.multi_mut \subseteq fr.multi_mut \cup {j}
  /\ g.immutable_borrow \subseteq fr.immutable_borrow \cup {j}
  /\ g.new.careful_pairs \subseteq
       fr.new.careful_pairs \cup {<<j, Len(fr.new.functions) + 1>>}
  /\ Moves(fr, j) => j \in g.moved
  /\ MutBorrows(fr, j) => j \in g.multi_mut
  /\ ImmutBorrows(fr, j) => j \in g.immutable_borrow
  /\ IF Moves(fr, j) \/ MutBorrows(fr, j)
     THEN Borrowers(fr, j) \subseteq g.moved
     ELSE g.moved = fr.moved
  /\ IF ImmutBorrows(fr, j) /\ LendsTo(fr, j)
     THEN <<j, Len(fr.new.functions) + 1>> \in g.new.careful_pairs
     ELSE g.new.careful_pairs = fr.new.careful_pairs

\* Each of the four ways to use a result passes it as an argument, and records
\* it in the set that belongs to the way.
LEMMA UseReturnPasses ==
  ASSUME NEW fr \in Frame, NEW j \in Usable(fr), NEW g, g = UseReturn(fr, j)
  PROVE  Passes(fr, j, g)
<1>1. j \in Candidates(fr)
  BY DEF Usable
<1>2. PassReturn(fr, j) \in Frame
  BY <1>1, PassReturnType
<1>3. /\ MutBorrows(fr, j) => ~Moves(fr, j)
      /\ ImmutBorrows(fr, j) => ~Moves(fr, j) /\ ~MutBorrows(fr, j)
  BY DEF MutBorrows, ImmutBorrows
<1>4. CASE Moves(fr, j)
  <2>1. g = MoveReturn(fr, j)
    BY <1>3, <1>4 DEF UseReturn
  <2>2. /\ g.fun = PassReturn(fr, j).fun
        /\ g.params = PassReturn(fr, j).params
        /\ g.new = PassReturn(fr, j).new
        /\ g.multi_mut = PassReturn(fr, j).multi_mut
        /\ g.immutable_borrow = PassReturn(fr, j).immutable_borrow
        /\ g.moved = PassReturn(fr, j).moved \cup Borrowers(fr, j) \cup {j}
    BY <1>2, <2>1 DEF MoveReturn, Frame
  <2> QED
    BY <1>1, <1>3, <1>4, <2>2, PassReturnFields DEF Passes
<1>5. CASE MutBorrows(fr, j)
  <2>1. g = MutBorrowReturn(fr, j)
    BY <1>3, <1>5 DEF UseReturn
  <2>2. /\ g.fun = PassReturn(fr, j).fun
        /\ g.params = PassReturn(fr, j).params
        /\ g.new = PassReturn(fr, j).new
        /\ g.multi_mut = PassReturn(fr, j).multi_mut \cup {j}
        /\ g.immutable_borrow = PassReturn(fr, j).immutable_borrow
        /\ g.moved = PassReturn(fr, j).moved \cup Borrowers(fr, j)
    BY <1>2, <2>1 DEF MutBorrowReturn, Frame
  <2> QED
    BY <1>1, <1>3, <1>5, <2>2, PassReturnFields DEF Passes
<1>6. CASE ImmutBorrows(fr, j)
  <2>1. g = ImmutBorrowReturn(fr, j)
    BY <1>3, <1>6 DEF UseReturn
  <2>2. /\ g.fun = PassReturn(fr, j).fun
        /\ g.params = PassReturn(fr, j).params
        /\ g.new.functions = PassReturn(fr, j).new.functions
        /\ g.new.fuzzable_params = PassReturn(fr, j).new.fuzzable_params
        /\ g.new.covered_dependencies = PassReturn(fr, j).new.covered_dependencies
        /\ g.new.careful_pairs = PassReturn(fr, j).new.careful_pairs \cup
             (IF LendsTo(fr, j) THEN {<<j, Len(fr.new.functions) + 1>>} ELSE {})
        /\ g.multi_mut = PassReturn(fr, j).multi_mut
        /\ g.immutable_borrow = PassReturn(fr, j).immutable_borrow \cup {j}
        /\ g.moved = PassReturn(fr, j).moved
    BY <1>2, <2>1 DEF ImmutBorrowReturn, Frame, Sequence
  <2> QED
    BY <1>1, <1>3, <1>6, <2>2, PassReturnFields DEF Passes
<1>7. CASE ~Moves(fr, j) /\ ~MutBorrows(fr, j) /\ ~ImmutBorrows(fr, j)
  <2>1. g = PassReturn(fr, j)
    BY <1>7 DEF UseReturn
  <2> QED
    BY <1>1, <1>7, <2>1, PassReturnFields DEF Passes
<1> QED
  BY <1>4, <1>5, <1>6, <1>7

\* The arguments chosen before are still there, and the last one is new.
LEMMA PassedArgs ==
  ASSUME NEW fr \in Frame, NEW j, NEW g, Passes(fr, j, g),
         NEW last, last = Len(fr.params) + 1
  PROVE  /\ last \in Nat
         /\ FrameArgs(g) = FrameArgs(fr) \cup {last}
         /\ FrameArgs(fr) \subseteq 1..Len(fr.params)
         /\ Inputs(g) = Inputs(fr)
         /\ \A p \in FrameArgs(fr) : g.params[p] = fr.params[p]
         /\ g.params[last].kind = "FunctionReturn"
         /\ g.params[last].index = j
         /\ g.params[last].call_type = EdgeCallType(fr, j)
<1>1. fr.params \in Seq(Param)
  BY DEF Frame
<1>2. Inputs(g) = Inputs(fr)
  BY DEF Passes, Inputs
<1> DEFINE arg == [kind |-> "FunctionReturn", index |-> j,
                   call_type |-> EdgeCallType(fr, j)]
<1>3. g.params = Append(fr.params, arg)
  BY DEF Passes
<1> QED
  BY <1>1, <1>2, <1>3 DEF FrameArgs

\* Uses of earlier arguments are what they were; the new one, last, uses result
\* j in the way is_fun_satisfied has found out.
PassedAs(fr, j, g, last) ==
  /\ \A p \in FrameArgs(fr) :
       /\ \A k : FrameArgUses(g, p, k) <=> FrameArgUses(fr, p, k)
       /\ FrameArgMoves(g, p) <=> FrameArgMoves(fr, p)
       /\ FrameArgMutBorrows(g, p) <=> FrameArgMutBorrows(fr, p)
       /\ FrameArgImmutBorrows(g, p) <=> FrameArgImmutBorrows(fr, p)
  /\ \A k : FrameArgUses(g, last, k) <=> k = j
  /\ FrameArgMoves(g, last) <=> Moves(fr, j)
  /\ FrameArgMutBorrows(g, last) <=> MutBorrows(fr, j)
  /\ FrameArgImmutBorrows(g, last) <=> ImmutBorrows(fr, j)

\* Every way to pass a result adds its use and keeps the other uses.
LEMMA PassedUses ==
  ASSUME NEW fr \in Frame, NEW j, NEW g, Passes(fr, j, g),
         NEW last, last = Len(fr.params) + 1
  PROVE  PassedAs(fr, j, g, last)
<1>1. ASSUME NEW p \in FrameArgs(fr)
      PROVE  /\ \A k : FrameArgUses(g, p, k) <=> FrameArgUses(fr, p, k)
             /\ FrameArgMoves(g, p) <=> FrameArgMoves(fr, p)
             /\ FrameArgMutBorrows(g, p) <=> FrameArgMutBorrows(fr, p)
             /\ FrameArgImmutBorrows(g, p) <=> FrameArgImmutBorrows(fr, p)
  <2>1. g.params[p] = fr.params[p] /\ Inputs(g) = Inputs(fr)
    BY PassedArgs
  <2> QED
    BY <2>1 DEF FrameArgUses, FrameArgMoves, FrameArgMutBorrows, FrameArgImmutBorrows
<1>2. /\ g.params[last].kind = "FunctionReturn"
      /\ g.params[last].index = j
      /\ g.params[last].call_type = EdgeCallType(fr, j)
      /\ Inputs(g)[last] = ParamType(fr)
  BY PassedArgs DEF ParamType, ParamIndex
<1>3. \A k : FrameArgUses(g, last, k) <=> k = j
  BY <1>2 DEF FrameArgUses
<1>4. FrameArgMoves(g, last) <=> Moves(fr, j)
  BY <1>2 DEF FrameArgMoves, Moves
<1>5. FrameArgMutBorrows(g, last) <=> MutBorrows(fr, j)
  BY <1>2 DEF FrameArgMutBorrows, MutBorrows, Moves, MoveCondition, IsMutableBorrowOccurs
<1>6. FrameArgImmutBorrows(g, last) <=> ImmutBorrows(fr, j)
  BY <1>2, <1>4 DEF FrameArgImmutBorrows, ImmutBorrows, MutBorrows,
                    IsImmutableBorrowOccurs, IsMutableBorrowOccurs
<1> QED
  BY <1>1, <1>3, <1>4, <1>5, <1>6 DEF PassedAs

\* One more argument made from a result keeps what is known of the arguments
\* chosen so far.
LEMMA PassKeepsFrameInv ==
  ASSUME NEW s \in Sequence, NEW fr \in Frame, FrameInv(fr, s), Recorded(s),
         NEW j, NEW g, Passes(fr, j, g)
  PROVE  FrameInv(g, s)
<1> SUFFICES ASSUME NEW last, last = Len(fr.params) + 1 PROVE FrameInv(g, s)
  OBVIOUS
<1>0. Recorded(s) /\ FrameVariables(fr, s)
  BY DEF FrameInv
<1>1. /\ FrameCopies(fr, s) /\ FrameUses(fr, s) /\ FrameExclusive(fr, s)
      /\ FrameBorrows(fr, s) /\ FrameRange(fr, s)
  BY <1>0 DEF FrameInv
<1>2. Len(s.functions) \in Nat /\ Len(fr.new.functions) = Len(s.functions)
  BY <1>0, <1>1 DEF Passes, FrameCopies, Sequence
<1>3. j \in 1..Len(s.functions) /\ j \notin fr.moved /\ ~Conflicts(fr, j)
  BY <1>0, <1>1 DEF Passes, Usable, Candidates, FrameCopies, Sequence
<1>4. FrameArgs(g) = FrameArgs(fr) \cup {last} /\ FrameArgs(fr) \subseteq 1..Len(fr.params)
      /\ last \in Nat
  BY <1>0, PassedArgs
<1>5. /\ \A p \in FrameArgs(fr) :
           /\ \A k : FrameArgUses(g, p, k) <=> FrameArgUses(fr, p, k)
           /\ FrameArgMoves(g, p) <=> FrameArgMoves(fr, p)
           /\ FrameArgMutBorrows(g, p) <=> FrameArgMutBorrows(fr, p)
           /\ FrameArgImmutBorrows(g, p) <=> FrameArgImmutBorrows(fr, p)
      /\ \A k : FrameArgUses(g, last, k) <=> k = j
      /\ FrameArgMoves(g, last) <=> Moves(fr, j)
      /\ FrameArgMutBorrows(g, last) <=> MutBorrows(fr, j)
      /\ FrameArgImmutBorrows(g, last) <=> ImmutBorrows(fr, j)
  <2>1. PassedAs(fr, j, g, last)
    BY PassedUses
  <2> QED
    BY <2>1 DEF PassedAs
<1>6. /\ g.fun = fr.fun
      /\ g.new.functions = fr.new.functions
      /\ fr.moved \subseteq g.moved
      /\ fr.multi_mut \subseteq g.multi_mut
      /\ fr.immutable_borrow \subseteq g.immutable_borrow
      /\ fr.new.careful_pairs \subseteq g.new.careful_pairs
      /\ fr.new.covered_dependencies \subseteq g.new.covered_dependencies
      /\ g.moved \subseteq fr.moved \cup {j} \cup Borrowers(fr, j)
      /\ g.immutable_borrow \subseteq fr.immutable_borrow \cup {j}
      /\ g.new.careful_pairs \subseteq
           fr.new.careful_pairs \cup {<<j, Len(s.functions) + 1>>}
      /\ Moves(fr, j) => j \in g.moved
      /\ MutBorrows(fr, j) => j \in g.multi_mut
      /\ ImmutBorrows(fr, j) => j \in g.immutable_borrow
      /\ IF Moves(fr, j) \/ MutBorrows(fr, j)
         THEN Borrowers(fr, j) \subseteq g.moved
         ELSE g.moved = fr.moved
      /\ IF ImmutBorrows(fr, j) /\ LendsTo(fr, j)
         THEN <<j, Len(s.functions) + 1>> \in g.new.careful_pairs
         ELSE g.new.careful_pairs = fr.new.careful_pairs
  <2>1. Len(fr.new.functions) + 1 = Len(s.functions) + 1
    BY <1>2
  <2> QED
    BY <2>1 DEF Passes
<1>7. FrameCopies(g, s)
  BY <1>6, <1>1, <1>2 DEF FrameCopies
<1>8. FrameUses(g, s)
  <2> SUFFICES ASSUME NEW p \in FrameArgs(g), NEW k \in Nat, FrameArgUses(g, p, k)
               PROVE  /\ k \in 1..Len(s.functions)
                      /\ k \notin s.moved
                      /\ FrameArgMoves(g, p) => k \in g.moved
                      /\ FrameArgMutBorrows(g, p) => k \in g.multi_mut
                      /\ FrameArgImmutBorrows(g, p) => k \in g.immutable_borrow
    BY <1>2 DEF FrameUses
  <2>1. CASE p \in FrameArgs(fr)
    BY <1>6, <1>0, <1>1, <2>1, <1>5 DEF FrameUses
  <2>2. CASE p = last
    BY <1>6, <1>0, <1>1, <1>3, <2>2, <1>5 DEF FrameCopies
  <2> QED
    BY <1>4, <2>1, <2>2
<1>9. FrameExclusive(g, s)
  <2> SUFFICES ASSUME NEW p \in FrameArgs(g), NEW q \in FrameArgs(g), NEW k \in Nat,
                      p < q, FrameArgUses(g, p, k), FrameArgUses(g, q, k)
               PROVE  /\ ~FrameArgMoves(g, p)
                      /\ FrameArgMutBorrows(g, p) => /\ ~FrameArgMoves(g, q)
                                                   /\ ~FrameArgMutBorrows(g, q)
                                                   /\ ~FrameArgImmutBorrows(g, q)
                      /\ FrameArgImmutBorrows(g, p) => ~FrameArgMutBorrows(g, q)
    BY DEF FrameExclusive
  <2>1. p \in FrameArgs(fr)
    BY <1>4
  <2>2. CASE q \in FrameArgs(fr)
    BY <1>0, <1>1, <2>1, <2>2, <1>5 DEF FrameExclusive
  <2>3. CASE q = last
    <3>1. k = j
      BY <1>0, <2>3, <1>5
    <3>2. /\ FrameArgMoves(fr, p) => j \in fr.moved
          /\ FrameArgMutBorrows(fr, p) => j \in fr.multi_mut
          /\ FrameArgImmutBorrows(fr, p) => j \in fr.immutable_borrow
      BY <1>0, <1>1, <2>1, <3>1, <1>5 DEF FrameUses
    <3> QED
      BY <1>0, <1>3, <2>1, <2>3, <3>2, <1>5 DEF Conflicts
  <2> QED
    BY <1>4, <2>2, <2>3
<1>10. FrameBorrows(g, s)
  <2> SUFFICES ASSUME NEW p \in FrameArgs(g), NEW k \in Nat, FrameArgUses(g, p, k)
               PROVE  /\ FrameArgImmutBorrows(g, p) /\ LendsTo(g, k) =>
                           <<k, Len(s.functions) + 1>> \in g.new.careful_pairs
                      /\ FrameArgMoves(g, p) \/ FrameArgMutBorrows(g, p) =>
                           \A b \in Nat : <<k, b>> \in s.careful_pairs =>
                             /\ b \in g.moved
                             /\ \A q \in FrameArgs(g) : p < q => ~FrameArgUses(g, q, b)
    BY <1>2 DEF FrameBorrows
  <2>1. LendsTo(g, k) <=> LendsTo(fr, k)
    BY <1>6 DEF LendsTo
  <2>2. CASE p \in FrameArgs(fr)
    <3>1. ASSUME FrameArgImmutBorrows(g, p), LendsTo(g, k)
          PROVE  <<k, Len(s.functions) + 1>> \in g.new.careful_pairs
      BY <1>6, <1>0, <1>1, <2>1, <2>2, <3>1, <1>5 DEF FrameBorrows
    <3>2. ASSUME FrameArgMoves(g, p) \/ FrameArgMutBorrows(g, p),
                 NEW b \in Nat, <<k, b>> \in s.careful_pairs
          PROVE  /\ b \in g.moved
                 /\ \A q \in FrameArgs(g) : p < q => ~FrameArgUses(g, q, b)
      <4>1. b \in fr.moved /\ \A q \in FrameArgs(fr) : p < q => ~FrameArgUses(fr, q, b)
        BY <1>0, <1>1, <2>2, <3>2, <1>5 DEF FrameBorrows
      <4>2. b # j
        BY <1>3, <4>1
      <4> QED
        BY <1>6, <1>0, <1>4, <4>1, <4>2, <1>5
    <3> QED
      BY <3>1, <3>2
  <2>3. CASE p = last
    <3>1. k = j
      BY <1>0, <2>3, <1>5
    <3>2. ASSUME FrameArgImmutBorrows(g, p), LendsTo(g, k)
          PROVE  <<k, Len(s.functions) + 1>> \in g.new.careful_pairs
      BY <1>6, <1>0, <1>2, <2>1, <2>3, <3>1, <3>2, <1>5
    <3>3. ASSUME FrameArgMoves(g, p) \/ FrameArgMutBorrows(g, p),
                 NEW b \in Nat, <<k, b>> \in s.careful_pairs
          PROVE  /\ b \in g.moved
                 /\ \A q \in FrameArgs(g) : p < q => ~FrameArgUses(g, q, b)
      <4>1. <<j, b>> \in fr.new.careful_pairs
        BY <1>1, <3>1, <3>3 DEF FrameCopies
      <4>2. b \in Borrowers(fr, j)
        <5>1. <<j, b>>[1] = j /\ <<j, b>>[2] = b
          OBVIOUS
        <5> QED
          BY <4>1, <5>1 DEF Borrowers
      <4>3. b \in g.moved
        BY <1>6, <1>0, <2>3, <3>3, <4>2, <1>5
      <4>4. \A q \in FrameArgs(g) : ~(p < q)
        BY <1>4, <2>3
      <4> QED
        BY <4>3, <4>4
    <3> QED
      BY <3>2, <3>3
  <2> QED
    BY <1>4, <2>2, <2>3
<1>11. FrameRange(g, s)
  <2>1. g.moved \subseteq 1..Len(s.functions)
    <3>1. CASE Moves(fr, j) \/ MutBorrows(fr, j)
      <4>1. j \notin fr.immutable_borrow
        BY <1>3, <3>1 DEF Conflicts
      <4>2. ASSUME NEW b \in Borrowers(fr, j) PROVE b \in 1..Len(s.functions)
        <5>1. PICK r \in fr.new.careful_pairs : r[1] = j /\ r[2] = b
          BY DEF Borrowers
        <5>2. <<j, b>> \in fr.new.careful_pairs /\ j \in Nat /\ b \in Nat
          <6>1. r \in Nat \X Nat
            BY <1>0, <5>1 DEF Frame, Sequence
          <6>2. r = <<r[1], r[2]>> /\ r[1] \in Nat /\ r[2] \in Nat
            BY <6>1
          <6> QED
            BY <5>1, <6>2
        <5> QED
          BY <1>0, <1>1, <4>1, <5>2 DEF FrameRange, Recorded
      <4> QED
        BY <1>6, <1>1, <1>3, <4>2 DEF FrameRange
    <3>2. CASE ~(Moves(fr, j) \/ MutBorrows(fr, j))
      BY <1>6, <1>1, <3>2 DEF FrameRange
    <3> QED
      BY <3>1, <3>2
  <2>2. ASSUME NEW a \in Nat, NEW b \in Nat, <<a, b>> \in g.new.careful_pairs
        PROVE  \/ <<a, b>> \in s.careful_pairs
               \/ b = Len(s.functions) + 1 /\ a \in g.immutable_borrow
    <3>1. CASE <<a, b>> \in fr.new.careful_pairs
      BY <1>6, <1>1, <3>1 DEF FrameRange
    <3>2. CASE <<a, b>> \notin fr.new.careful_pairs
      <4>1. ImmutBorrows(fr, j) /\ <<a, b>> = <<j, Len(s.functions) + 1>>
        BY <1>6, <1>2, <2>2, <3>2
      <4> QED
        BY <1>6, <4>1
    <3> QED
      BY <3>1, <3>2
  <2>3. g.immutable_borrow \subseteq 1..Len(s.functions)
    BY <1>1, <1>3, <1>6 DEF FrameRange
  <2> QED
    BY <2>1, <2>2, <2>3 DEF FrameRange
<1>12. FrameVariables(g, s)
  <2>1. Len(g.new.fuzzable_params) = Len(fr.new.fuzzable_params)
    BY DEF Passes
  <2>2. \A p \in FrameArgs(fr) : g.params[p] = fr.params[p]
    BY PassedArgs
  <2>3. g.params[last].kind # "FuzzableType"
    BY PassedArgs
  <2>4. \A p \in FrameArgs(g) : g.params[p].kind = "FuzzableType" => p \in FrameArgs(fr)
    BY <1>4, <2>3
  <2>5. \A p \in FrameArgs(fr) : \A n : FrameArgIs(g, p, n) <=> FrameArgIs(fr, p, n)
    BY <2>2 DEF FrameArgIs
  <2>6. \A p \in FrameArgs(g) : \A n : FrameArgIs(g, p, n) => p \in FrameArgs(fr)
    BY <2>4 DEF FrameArgIs
  <2> QED
    BY <1>0, <1>4, <2>1, <2>2, <2>4, <2>5, <2>6 DEF FrameVariables
<1> QED
  BY <1>7, <1>8, <1>9, <1>10, <1>11, <1>12 DEF FrameInv

\* A fuzzable argument uses no result and leaves everything else alone.
LEMMA FuzzableKeepsFrameInv ==
  ASSUME NEW s \in Sequence, NEW fr \in Frame, FrameInv(fr, s),
         NEW g, g = PassFuzzable(fr)
  PROVE  FrameInv(g, s)
<1>0. fr.params \in Seq(Param) /\ Len(fr.new.fuzzable_params) \in Nat
  BY DEF Frame, Sequence
<1>1. /\ FrameCopies(fr, s) /\ FrameUses(fr, s) /\ FrameExclusive(fr, s)
      /\ FrameBorrows(fr, s) /\ FrameRange(fr, s) /\ FrameVariables(fr, s)
  BY <1>0 DEF FrameInv
<1> SUFFICES ASSUME NEW last, last = Len(fr.params) + 1 PROVE FrameInv(g, s)
  OBVIOUS
<1> DEFINE arg == [kind |-> "FuzzableType",
                   index |-> Len(fr.new.fuzzable_params) + 1,
                   call_type |-> FuzzableArgument(fr).call_type]
<1>2. /\ g.fun = fr.fun
      /\ g.params = Append(fr.params, arg)
      /\ g.moved = fr.moved
      /\ g.multi_mut = fr.multi_mut
      /\ g.immutable_borrow = fr.immutable_borrow
      /\ g.new.functions = fr.new.functions
      /\ g.new.careful_pairs = fr.new.careful_pairs
      /\ g.new.covered_dependencies = fr.new.covered_dependencies
      /\ g.new.fuzzable_params =
           Append(fr.new.fuzzable_params, FuzzableArgument(fr).fuzzable_type)
  BY <1>0 DEF PassFuzzable, Frame, Sequence
<1>3. arg.kind = "FuzzableType" /\ arg.index = Len(fr.new.fuzzable_params) + 1
  OBVIOUS
<1> HIDE DEF arg
<1>4. /\ FrameArgs(g) = FrameArgs(fr) \cup {last}
      /\ \A p \in FrameArgs(fr) : g.params[p] = fr.params[p]
      /\ g.params[last] = arg
  BY <1>0, <1>2 DEF FrameArgs
<1>5. \A p \in FrameArgs(g) : \A k :
        FrameArgUses(g, p, k) => p \in FrameArgs(fr) /\ FrameArgUses(fr, p, k)
  BY <1>3, <1>4 DEF FrameArgUses
<1>6. Inputs(g) = Inputs(fr)
  BY <1>2 DEF Inputs
<1>7. \A p \in FrameArgs(fr) :
        /\ FrameArgMoves(g, p) <=> FrameArgMoves(fr, p)
        /\ FrameArgMutBorrows(g, p) <=> FrameArgMutBorrows(fr, p)
        /\ FrameArgImmutBorrows(g, p) <=> FrameArgImmutBorrows(fr, p)
  BY <1>4, <1>6 DEF FrameArgMoves, FrameArgMutBorrows, FrameArgImmutBorrows
<1>8. \A k : LendsTo(g, k) <=> LendsTo(fr, k)
  BY <1>2 DEF LendsTo
<1>9. FrameCopies(g, s)
  BY <1>1, <1>2 DEF FrameCopies
<1>10. FrameUses(g, s)
  BY <1>1, <1>2, <1>5, <1>6, <1>7 DEF FrameUses
<1>11. FrameExclusive(g, s)
  BY <1>1, <1>5, <1>7 DEF FrameExclusive
<1>12. FrameBorrows(g, s)
  BY <1>1, <1>2, <1>5, <1>6, <1>7, <1>8 DEF FrameBorrows
<1>13. FrameRange(g, s)
  BY <1>1, <1>2, <1>6 DEF FrameRange
<1>14. FrameVariables(g, s)
  <2> DEFINE old == Len(s.fuzzable_params)
             new == Len(fr.new.fuzzable_params)
  <2>1. old \in Nat /\ new \in Nat /\ Len(g.new.fuzzable_params) = new + 1
    BY <1>0, <1>2 DEF Frame, Sequence
  <2>2. /\ old <= new
        /\ \A p \in FrameArgs(fr) :
             fr.params[p].kind = "FuzzableType" => fr.params[p].index \in (old + 1)..new
        /\ \A n \in (old + 1)..new : \E p \in FrameArgs(fr) : FrameArgIs(fr, p, n)
        /\ \A p, q \in FrameArgs(fr) : \A n \in Nat :
             FrameArgIs(fr, p, n) /\ FrameArgIs(fr, q, n) => p = q
    BY <1>1 DEF FrameVariables
  <2>3. g.params[last].kind = "FuzzableType" /\ g.params[last].index = new + 1
    BY <1>3, <1>4
  <2> HIDE DEF old, new
  <2>4. \A p \in FrameArgs(fr) : \A n : FrameArgIs(g, p, n) <=> FrameArgIs(fr, p, n)
    BY <1>4 DEF FrameArgIs
  <2>5. \A n : FrameArgIs(g, last, n) <=> n = new + 1
    BY <2>3 DEF FrameArgIs
  <2>6. \A p \in FrameArgs(fr) : \A n : FrameArgIs(fr, p, n) => n \in (old + 1)..new
    BY <2>2 DEF FrameArgIs
  <2>7. ASSUME NEW p \in FrameArgs(g), g.params[p].kind = "FuzzableType"
        PROVE  g.params[p].index \in (old + 1)..(new + 1)
    BY <1>4, <2>1, <2>2, <2>3, <2>7
  <2>8. ASSUME NEW n \in (old + 1)..(new + 1)
        PROVE  \E p \in FrameArgs(g) : FrameArgIs(g, p, n)
    <3>1. CASE n = new + 1
      BY <1>4, <2>5, <3>1
    <3>2. CASE n # new + 1
      <4>1. n \in (old + 1)..new
        BY <2>1, <3>2
      <4> QED
        BY <1>4, <2>2, <2>4, <4>1
    <3> QED
      BY <3>1, <3>2
  <2>9. ASSUME NEW p \in FrameArgs(g), NEW q \in FrameArgs(g), NEW n \in Nat,
               FrameArgIs(g, p, n), FrameArgIs(g, q, n)
        PROVE  p = q
    <3>1. CASE n = new + 1
      <4>1. p \notin FrameArgs(fr) /\ q \notin FrameArgs(fr)
        BY <2>1, <2>4, <2>6, <2>9, <3>1
      <4> QED
        BY <1>4, <4>1
    <3>2. CASE n # new + 1
      BY <1>4, <2>2, <2>4, <2>5, <2>9, <3>2
    <3> QED
      BY <3>1, <3>2
  <2> QED
    BY <2>1, <2>2, <2>7, <2>8, <2>9 DEF FrameVariables, old
<1> QED
  BY <1>9, <1>10, <1>11, <1>12, <1>13, <1>14 DEF FrameInv

\* A frame without arguments satisfies whatever is said of its arguments.
LEMMA NewFrameInv ==
  ASSUME NEW s \in Sequence, Recorded(s), NEW f \in Funs, NEW g, g = NewFrame(s, f)
  PROVE  FrameInv(g, s)
<1>1. /\ g.params = <<>>
      /\ g.moved = s.moved
      /\ g.immutable_borrow = {}
      /\ g.new.functions = s.functions
      /\ g.new.careful_pairs = s.careful_pairs
      /\ g.new.covered_dependencies = s.covered_dependencies
      /\ g.new.fuzzable_params = s.fuzzable_params
  BY DEF NewFrame, Sequence
<1>2. FrameArgs(g) = {}
  BY <1>1 DEF FrameArgs
<1>3. FrameCopies(g, s)
  BY <1>1 DEF FrameCopies
<1>4. FrameUses(g, s) /\ FrameExclusive(g, s) /\ FrameBorrows(g, s)
  BY <1>2 DEF FrameUses, FrameExclusive, FrameBorrows
<1>5. FrameRange(g, s)
  BY <1>1 DEF FrameRange, Recorded
<1>6. FrameVariables(g, s)
  <2>1. Len(s.fuzzable_params) \in Nat
    BY DEF Sequence
  <2> QED
    BY <1>1, <1>2, <2>1 DEF FrameVariables
<1> QED
  BY <1>3, <1>4, <1>5, <1>6 DEF FrameInv

-----------------------------------------------------------------------------
(***************************************************************************)
(* Appending the finished frame: t has the n calls of s and one more.      *)
(***************************************************************************)
Grown(s, fr, t, n) ==
  /\ n \in Nat
  /\ n = Len(s.functions) /\ Len(t.functions) = n + 1
  /\ DOMAIN s.functions = 1..n /\ DOMAIN t.functions = 1..(n + 1)
  /\ \A c \in 1..n : t.functions[c] = s.functions[c]
  /\ t.functions[n + 1].func = fr.fun
  /\ t.functions[n + 1].params = fr.params
  /\ t.moved = fr.moved
  /\ t.careful_pairs = fr.new.careful_pairs
  /\ t.fuzzable_params = fr.new.fuzzable_params
  /\ t.covered_dependencies = fr.new.covered_dependencies

GrownUses(s, fr, t, n) ==
  /\ \A c \in 1..n :
       /\ Args(t, c) = Args(s, c)
       /\ \A p, j : UsesResult(t, c, p, j) <=> UsesResult(s, c, p, j)
       /\ \A p, j : UsesVariable(t, c, p, j) <=> UsesVariable(s, c, p, j)
       /\ \A p : /\ Arg(t, c, p) = Arg(s, c, p)
                 /\ MovesAt(t, c, p) <=> MovesAt(s, c, p)
                 /\ MutBorrowsAt(t, c, p) <=> MutBorrowsAt(s, c, p)
                 /\ ImmutBorrowsAt(t, c, p) <=> ImmutBorrowsAt(s, c, p)
  /\ Args(t, n + 1) = FrameArgs(fr)
  /\ \A p, j : UsesResult(t, n + 1, p, j) <=> FrameArgUses(fr, p, j)
  /\ \A p, j : UsesVariable(t, n + 1, p, j) <=> FrameArgIs(fr, p, j)
  /\ \A p : /\ Arg(t, n + 1, p) = fr.params[p]
            /\ MovesAt(t, n + 1, p) <=> FrameArgMoves(fr, p)
            /\ MutBorrowsAt(t, n + 1, p) <=> FrameArgMutBorrows(fr, p)
            /\ ImmutBorrowsAt(t, n + 1, p) <=> FrameArgImmutBorrows(fr, p)

\* _add_fn appends the running call and leaves the finished ones alone.
LEMMA AppendedCall ==
  ASSUME NEW s \in Sequence, NEW fr \in Frame, FrameCopies(fr, s),
         NEW t, t = Appended(fr), NEW n, n = Len(s.functions)
  PROVE  Grown(s, fr, t, n)
<1>1. /\ t.functions = Append(s.functions, ApiCall(fr.fun, fr.params))
      /\ t.moved = fr.moved
      /\ t.careful_pairs = fr.new.careful_pairs
      /\ t.fuzzable_params = fr.new.fuzzable_params
      /\ t.covered_dependencies = fr.new.covered_dependencies
  BY DEF Appended, FrameCopies, Frame, Sequence
<1>2. s.functions \in Seq([func : Funs, params : Seq(Param)])
  BY DEF Sequence
<1>3. ApiCall(fr.fun, fr.params).func = fr.fun
      /\ ApiCall(fr.fun, fr.params).params = fr.params
  BY DEF ApiCall
<1> QED
  BY <1>1, <1>2, <1>3 DEF Grown

\* The arguments of the appended call use, move and borrow what the arguments
\* in the frame did.
LEMMA AppendedUses ==
  ASSUME NEW s, NEW fr, NEW t, NEW n, Grown(s, fr, t, n)
  PROVE  GrownUses(s, fr, t, n)
<1>1. \A c \in 1..n : t.functions[c] = s.functions[c]
  BY DEF Grown
<1>2. t.functions[n + 1].func = fr.fun
      /\ t.functions[n + 1].params = fr.params
  BY DEF Grown
<1>3. ASSUME NEW c \in 1..n
      PROVE  /\ Args(t, c) = Args(s, c)
             /\ \A p, j : UsesResult(t, c, p, j) <=> UsesResult(s, c, p, j)
             /\ \A p, j : UsesVariable(t, c, p, j) <=> UsesVariable(s, c, p, j)
             /\ \A p : /\ Arg(t, c, p) = Arg(s, c, p)
                       /\ MovesAt(t, c, p) <=> MovesAt(s, c, p)
                       /\ MutBorrowsAt(t, c, p) <=> MutBorrowsAt(s, c, p)
                       /\ ImmutBorrowsAt(t, c, p) <=> ImmutBorrowsAt(s, c, p)
  BY <1>1 DEF Args, Arg, ArgType, UsesResult, UsesVariable, MovesAt, MutBorrowsAt,
              ImmutBorrowsAt
<1>4. /\ Args(t, n + 1) = FrameArgs(fr)
      /\ \A p, j : UsesResult(t, n + 1, p, j) <=> FrameArgUses(fr, p, j)
      /\ \A p, j : UsesVariable(t, n + 1, p, j) <=> FrameArgIs(fr, p, j)
      /\ \A p : /\ Arg(t, n + 1, p) = fr.params[p]
                /\ MovesAt(t, n + 1, p) <=> FrameArgMoves(fr, p)
                /\ MutBorrowsAt(t, n + 1, p) <=> FrameArgMutBorrows(fr, p)
                /\ ImmutBorrowsAt(t, n + 1, p) <=> FrameArgImmutBorrows(fr, p)
  BY <1>2 DEF Args, Arg, ArgType, UsesResult, UsesVariable, MovesAt, MutBorrowsAt,
              ImmutBorrowsAt, FrameArgs, FrameArgUses, FrameArgIs, FrameArgMoves,
              FrameArgMutBorrows, FrameArgImmutBorrows, Inputs
<1> QED
  BY <1>3, <1>4 DEF GrownUses

IndexTypes(s, fr) ==
  /\ \A c \in DOMAIN s.functions :
       /\ c \in Nat
       /\ Args(s, c) \subseteq Nat
       /\ \A p \in Args(s, c) : Arg(s, c, p).index \in Nat
  /\ FrameArgs(fr) \subseteq Nat
  /\ \A p \in FrameArgs(fr) : fr.params[p].index \in Nat

\* Positions of calls and arguments, and what arguments refer to, are natural
\* numbers.
LEMMA ArgIndexType ==
  ASSUME NEW s \in Sequence, NEW fr \in Frame
  PROVE  IndexTypes(s, fr)
<1> DEFINE Call == [func : Funs, params : Seq(Param)]
<1>1. s.functions \in Seq(Call)
  BY DEF Sequence
<1> HIDE DEF Call
<1>2. fr.params \in Seq(Param)
  BY DEF Frame
<1>3. ASSUME NEW params \in Seq(Param), NEW p \in DOMAIN params
      PROVE  params[p].index \in Nat /\ p \in Nat
  <2>1. params[p] \in Param /\ p \in Nat
    OBVIOUS
  <2> QED
    BY <2>1 DEF Param
<1>4. ASSUME NEW c \in DOMAIN s.functions
      PROVE  /\ \A p \in Args(s, c) : Arg(s, c, p).index \in Nat
             /\ Args(s, c) \subseteq Nat
             /\ c \in Nat
  <2>0. s.functions[c] \in Call /\ c \in Nat
    BY <1>1
  <2>1. s.functions[c].params \in Seq(Param)
    BY <2>0 DEF Call
  <2> QED
    BY <1>3, <2>0, <2>1 DEF Args, Arg
<1>5. /\ \A p \in FrameArgs(fr) : fr.params[p].index \in Nat
      /\ FrameArgs(fr) \subseteq Nat
  BY <1>2, <1>3 DEF FrameArgs
<1> QED
  BY <1>4, <1>5 DEF IndexTypes

-----------------------------------------------------------------------------
\* Appending the running call keeps NoUseAfterMoveIn: its arguments use results
\* that no finished call moved.
LEMMA AppendKeepsNoUseAfterMove ==
  ASSUME NEW s, NEW fr, NEW t, NEW n, Grown(s, fr, t, n), GrownUses(s, fr, t, n),
         IndexTypes(s, fr), FrameInv(fr, s), Recorded(s), NoUseAfterMoveIn(s)
  PROVE  NoUseAfterMoveIn(t)
<1>0. n \in Nat /\ DOMAIN s.functions = 1..n /\ DOMAIN t.functions = 1..(n + 1)
  BY DEF Grown
<1>1. FrameCopies(fr, s) /\ FrameUses(fr, s) /\ FrameExclusive(fr, s) /\ FrameBorrows(fr, s)
      /\ FrameRange(fr, s) /\ FrameVariables(fr, s)
  BY DEF FrameInv
<1> SUFFICES ASSUME NEW c \in DOMAIN t.functions, NEW p \in Args(t, c), NEW j,
                    Arg(t, c, p).kind = "FunctionReturn", j = Arg(t, c, p).index
             PROVE  /\ j \in 1..(c - 1)
                    /\ MovesAt(t, c, p) =>
                         \A d \in DOMAIN t.functions : \A q \in Args(t, d) :
                           Before(c, p, d, q) => ~UsesResult(t, d, q, j)
  BY DEF NoUseAfterMoveIn, Before
<1>2. CASE c \in 1..n
  <2>1. p \in Args(s, c) /\ UsesResult(s, c, p, j) /\ j \in Nat
    BY <1>0, <1>1, <1>2 DEF IndexTypes, UsesResult, GrownUses
  <2>2. j \in 1..(c - 1)
    BY <1>0, <1>1, <1>2, <2>1 DEF NoUseAfterMoveIn, UsesResult
  <2>3. ASSUME MovesAt(t, c, p), NEW d \in DOMAIN t.functions, NEW q \in Args(t, d), Before(c, p, d, q)
        PROVE  ~UsesResult(t, d, q, j)
    <3>1. MovesAt(s, c, p)
      BY <1>2, <2>3 DEF GrownUses
    <3>2. CASE d \in 1..n
      BY <1>0, <1>1, <1>2, <2>1, <2>3, <3>1, <3>2
         DEF NoUseAfterMoveIn, UsesResult, GrownUses
    <3>3. CASE d = n + 1
      <4>1. j \in s.moved
        BY <1>0, <1>1, <1>2, <2>1, <3>1 DEF Recorded
      <4> QED
        BY <1>1, <2>1, <2>3, <3>3, <4>1 DEF FrameUses, GrownUses
    <3> QED
      BY <1>0, <3>2, <3>3
  <2> QED
    BY <2>2, <2>3
<1>3. CASE c = n + 1
  <2>1. p \in FrameArgs(fr) /\ FrameArgUses(fr, p, j) /\ j \in Nat
    BY <1>1, <1>3 DEF IndexTypes, FrameArgUses, GrownUses
  <2>2. j \in 1..(c - 1)
    BY <1>0, <1>1, <1>3, <2>1 DEF FrameUses
  <2>3. ASSUME MovesAt(t, c, p), NEW d \in DOMAIN t.functions, NEW q \in Args(t, d), Before(c, p, d, q)
        PROVE  ~UsesResult(t, d, q, j)
    <3>1. d = n + 1 /\ p < q
      BY <1>0, <1>3, <2>3 DEF Before
    <3>2. q \in FrameArgs(fr) /\ FrameArgMoves(fr, p)
      BY <1>3, <2>3, <3>1 DEF GrownUses
    <3> QED
      BY <1>1, <2>1, <3>1, <3>2 DEF FrameExclusive, GrownUses
  <2> QED
    BY <2>2, <2>3
<1> QED
  BY <1>0, <1>2, <1>3


\* Appending the running call keeps ExclusiveMutBorrowIn.
LEMMA AppendKeepsExclusive ==
  ASSUME NEW s, NEW fr, NEW t, NEW n, Grown(s, fr, t, n), GrownUses(s, fr, t, n),
         IndexTypes(s, fr), FrameInv(fr, s), Recorded(s), ExclusiveMutBorrowIn(s)
  PROVE  ExclusiveMutBorrowIn(t)
<1>0. n \in Nat /\ DOMAIN s.functions = 1..n /\ DOMAIN t.functions = 1..(n + 1)
  BY DEF Grown
<1>1. FrameCopies(fr, s) /\ FrameUses(fr, s) /\ FrameExclusive(fr, s) /\ FrameBorrows(fr, s)
      /\ FrameRange(fr, s) /\ FrameVariables(fr, s)
  BY DEF FrameInv
<1> SUFFICES ASSUME NEW c \in DOMAIN t.functions, NEW p \in Args(t, c), NEW q \in Args(t, c), p # q,
                    NEW j, UsesResult(t, c, p, j), UsesResult(t, c, q, j), MutBorrowsAt(t, c, p)
             PROVE  ~MovesAt(t, c, q) /\ ~MutBorrowsAt(t, c, q) /\ ~ImmutBorrowsAt(t, c, q)
  BY DEF ExclusiveMutBorrowIn, UsesResult
<1>2. CASE c \in 1..n
  <2>1. /\ p \in Args(s, c) /\ q \in Args(s, c) /\ MutBorrowsAt(s, c, p)
        /\ UsesResult(s, c, p, j) /\ UsesResult(s, c, q, j)
    BY <1>2 DEF GrownUses
  <2>2. ~MovesAt(s, c, q) /\ ~MutBorrowsAt(s, c, q) /\ ~ImmutBorrowsAt(s, c, q)
    BY <1>0, <1>1, <1>2, <2>1 DEF ExclusiveMutBorrowIn, UsesResult
  <2> QED
    BY <1>2, <2>2 DEF GrownUses
<1>3. CASE c = n + 1
  <2>1. /\ p \in FrameArgs(fr) /\ q \in FrameArgs(fr) /\ FrameArgMutBorrows(fr, p)
        /\ FrameArgUses(fr, p, j) /\ FrameArgUses(fr, q, j)
    BY <1>3 DEF GrownUses
  <2>2. j \in Nat /\ p \in Nat /\ q \in Nat
    BY <1>1, <2>1 DEF IndexTypes, FrameArgUses
  <2>3. ~FrameArgMoves(fr, q) /\ ~FrameArgMutBorrows(fr, q) /\ ~FrameArgImmutBorrows(fr, q)
    <3>1. CASE p < q
      BY <1>1, <2>1, <2>2, <3>1 DEF FrameExclusive
    <3>2. CASE q < p
      BY <1>1, <2>1, <2>2, <3>2 DEF FrameExclusive
    <3> QED
      BY <2>2, <3>1, <3>2
  <2> QED
    BY <1>3, <2>3 DEF GrownUses
<1> QED
  BY <1>0, <1>2, <1>3


\* Appending the running call keeps the meaning of moved and careful_pairs.
LEMMA AppendKeepsRecorded ==
  ASSUME NEW s, NEW fr, NEW t, NEW n, Grown(s, fr, t, n), GrownUses(s, fr, t, n),
         IndexTypes(s, fr), FrameInv(fr, s), Recorded(s)
  PROVE  Recorded(t)
<1>0. /\ n \in Nat /\ n = Len(s.functions) /\ Len(t.functions) = n + 1
      /\ DOMAIN s.functions = 1..n /\ DOMAIN t.functions = 1..(n + 1)
  BY DEF Grown
<1>1. FrameCopies(fr, s) /\ FrameUses(fr, s) /\ FrameBorrows(fr, s) /\ FrameRange(fr, s)
  BY DEF FrameInv
<1>2. /\ t.moved = fr.moved /\ s.moved \subseteq fr.moved
      /\ t.careful_pairs = fr.new.careful_pairs
      /\ s.careful_pairs \subseteq fr.new.careful_pairs
  BY <1>1 DEF FrameCopies, Grown
<1>3. t.moved \subseteq 1..Len(t.functions)
  BY <1>0, <1>1, <1>2 DEF FrameRange
<1>4. ASSUME NEW a \in Nat, NEW b \in Nat, <<a, b>> \in t.careful_pairs
      PROVE  a \in 1..Len(t.functions) /\ b \in 1..Len(t.functions)
  <2>1. <<a, b>> \in fr.new.careful_pairs
    BY <1>2, <1>4
  <2>2. CASE <<a, b>> \in s.careful_pairs
    <3>1. a \in 1..Len(s.functions) /\ b \in 1..Len(s.functions)
      BY <2>2 DEF Recorded
    <3> QED
      BY <1>0, <3>1
  <2>3. CASE <<a, b>> \notin s.careful_pairs
    <3>1. b = n + 1 /\ a \in 1..n
      BY <1>0, <1>1, <2>1, <2>3 DEF FrameRange
    <3> QED
      BY <1>0, <3>1
  <2> QED
    BY <2>2, <2>3
<1>5. ASSUME NEW c \in DOMAIN t.functions, NEW p \in Args(t, c), NEW j \in Nat,
             UsesResult(t, c, p, j), MovesAt(t, c, p)
      PROVE  j \in t.moved
  <2>1. CASE c \in 1..n
    BY <1>0, <1>2, <1>5, <2>1 DEF Recorded, GrownUses
  <2>2. CASE c = n + 1
    BY <1>1, <1>2, <1>5, <2>2 DEF FrameUses, GrownUses
  <2> QED
    BY <1>0, <2>1, <2>2
<1>6. ASSUME NEW c \in DOMAIN t.functions, NEW p \in Args(t, c), NEW o \in Nat, NEW b \in Nat,
             UsesResult(t, c, p, o), MovesAt(t, c, p) \/ MutBorrowsAt(t, c, p),
             b < c, <<o, b>> \in t.careful_pairs
      PROVE  b \in t.moved
  <2>1. <<o, b>> \in s.careful_pairs
    BY <1>0, <1>1, <1>2, <1>6 DEF FrameRange
  <2>2. CASE c \in 1..n
    BY <1>0, <1>2, <1>6, <2>1, <2>2 DEF Recorded, GrownUses
  <2>3. CASE c = n + 1
    BY <1>1, <1>2, <1>6, <2>1, <2>3 DEF FrameBorrows, GrownUses
  <2> QED
    BY <1>0, <2>2, <2>3
<1> QED
  BY <1>3, <1>4, <1>5, <1>6 DEF Recorded

\* Appending the running call records the references its result is.
LEMMA AppendKeepsTracked ==
  ASSUME NEW s, NEW fr, NEW t, NEW n, Grown(s, fr, t, n), GrownUses(s, fr, t, n),
         IndexTypes(s, fr), FrameInv(fr, s), Tracked(s)
  PROVE  Tracked(t)
<1>0. /\ n \in Nat /\ n = Len(s.functions)
      /\ DOMAIN s.functions = 1..n /\ DOMAIN t.functions = 1..(n + 1)
  BY DEF Grown
<1>1. FrameCopies(fr, s) /\ FrameBorrows(fr, s)
  BY DEF FrameInv
<1>2. t.careful_pairs = fr.new.careful_pairs /\ s.careful_pairs \subseteq t.careful_pairs
  BY <1>1 DEF FrameCopies, Grown
<1> SUFFICES ASSUME NEW b \in DOMAIN t.functions, NEW o \in 1..(b - 1), BorrowsFrom(t, b, o)
             PROVE  <<o, b>> \in t.careful_pairs
  BY DEF Tracked
<1>3. t.functions[o] = s.functions[o] /\ o \in Nat
  BY <1>0 DEF Grown
<1>4. CASE b \in 1..n
  <2>1. t.functions[b] = s.functions[b]
    BY <1>4 DEF Grown
  <2>2. BorrowsFrom(s, b, o)
    BY <1>3, <1>4, <2>1 DEF BorrowsFrom, GrownUses
  <2> QED
    BY <1>0, <1>2, <1>4, <2>2 DEF Tracked
<1>5. CASE b = n + 1
  <2>1. PICK p \in FrameArgs(fr) : FrameArgUses(fr, p, o) /\ FrameArgImmutBorrows(fr, p)
    BY <1>5 DEF BorrowsFrom, GrownUses
  <2>2. LendsTo(fr, o)
    <3>1. /\ IsImmutableBorrowType(api_functions[fr.fun].output)
          /\ ~IsImmutableBorrowType(api_functions[s.functions[o].func].output)
      BY <1>3, <1>5 DEF BorrowsFrom, Grown
    <3>2. api_functions[fr.fun].output # <<>>
      BY <3>1 DEF IsImmutableBorrowType
    <3> QED
      BY <1>1, <3>1, <3>2 DEF LendsTo, HasNoOutput, FrameCopies
  <2> QED
    BY <1>0, <1>1, <1>2, <1>3, <1>5, <2>1, <2>2 DEF FrameBorrows
<1> QED
  BY <1>0, <1>4, <1>5

\* Appending the running call keeps RecordedBorrowsEndIn: what it uses does not
\* borrow from a result that is moved or mutably borrowed.
LEMMA AppendKeepsRecordedBorrows ==
  ASSUME NEW s \in Sequence, NEW fr \in Frame, NEW t \in Sequence, NEW n,
         Grown(s, fr, t, n), GrownUses(s, fr, t, n),
         IndexTypes(s, fr), FrameInv(fr, s), Recorded(s), RecordedBorrowsEndIn(s)
  PROVE  RecordedBorrowsEndIn(t)
<1>0. n \in Nat /\ n = Len(s.functions) /\ DOMAIN s.functions = 1..n
      /\ DOMAIN t.functions = 1..(n + 1)
  BY DEF Grown
<1>1. FrameCopies(fr, s) /\ FrameUses(fr, s) /\ FrameBorrows(fr, s) /\ FrameRange(fr, s)
  BY DEF FrameInv
<1> SUFFICES ASSUME NEW pair \in t.careful_pairs, NEW o, NEW b, o = pair[1], b = pair[2],
                    NEW c \in DOMAIN t.functions, NEW p \in Args(t, c), c > b,
                    UsesResult(t, c, p, o),
                    MovesAt(t, c, p) \/ MutBorrowsAt(t, c, p),
                    NEW d \in DOMAIN t.functions, NEW q \in Args(t, d), Before(c, p, d, q)
             PROVE  ~UsesResult(t, d, q, b)
  BY DEF RecordedBorrowsEndIn, EndsBorrow
<1>2. pair = <<o, b>> /\ o \in Nat /\ b \in Nat
  BY DEF Sequence
<1>3. <<o, b>> \in fr.new.careful_pairs /\ c \in Nat
  BY <1>0, <1>2 DEF Grown
<1>4. <<o, b>> \in s.careful_pairs
  BY <1>0, <1>1, <1>2, <1>3 DEF FrameRange
<1>5. CASE c \in 1..n
  <2>1. p \in Args(s, c) /\ UsesResult(s, c, p, o) /\ (MovesAt(s, c, p) \/ MutBorrowsAt(s, c, p))
    BY <1>5 DEF GrownUses
  <2>2. CASE d \in 1..n
    <3>1. q \in Args(s, d)
      BY <2>2 DEF GrownUses
    <3>2. EndsBorrow(s, c, p, o, b)
      BY <1>0, <1>2, <1>4, <1>5, <2>1 DEF RecordedBorrowsEndIn
    <3>3. ~UsesResult(s, d, q, b)
      BY <1>0, <2>1, <2>2, <3>1, <3>2 DEF EndsBorrow
    <3> QED
      BY <2>2, <3>3 DEF GrownUses
  <2>3. CASE d = n + 1
    <3>1. b \in s.moved
      BY <1>0, <1>2, <1>4, <1>5, <2>1 DEF Recorded
    <3> QED
      BY <1>1, <1>2, <2>3, <3>1 DEF FrameUses, GrownUses
  <2> QED
    BY <1>0, <2>2, <2>3
<1>6. CASE c = n + 1
  <2>1. d = n + 1 /\ p < q
    BY <1>0, <1>6 DEF Before
  <2>2. /\ p \in FrameArgs(fr) /\ q \in FrameArgs(fr) /\ FrameArgUses(fr, p, o)
        /\ FrameArgMoves(fr, p) \/ FrameArgMutBorrows(fr, p)
    BY <1>6, <2>1 DEF GrownUses
  <2>3. ~FrameArgUses(fr, q, b)
    BY <1>1, <1>2, <1>4, <2>1, <2>2 DEF FrameBorrows
  <2> QED
    BY <2>1, <2>3 DEF GrownUses
<1> QED
  BY <1>0, <1>5, <1>6

\* Appending the running call keeps every variable with the one argument it is
\* decoded for.
LEMMA AppendKeepsFuzzables ==
  ASSUME NEW s \in Sequence, NEW fr \in Frame, NEW t \in Sequence, NEW n,
         Grown(s, fr, t, n), GrownUses(s, fr, t, n),
         IndexTypes(s, fr), FrameInv(fr, s), FuzzablesUsedOnceIn(s)
  PROVE  FuzzablesUsedOnceIn(t)
<1> DEFINE old == Len(s.fuzzable_params)
           new == Len(t.fuzzable_params)
<1>0. /\ n \in Nat /\ n = Len(s.functions) /\ DOMAIN s.functions = 1..n
      /\ DOMAIN t.functions = 1..(n + 1)
      /\ t.fuzzable_params = fr.new.fuzzable_params
  BY DEF Grown
<1>1. FrameVariables(fr, s)
  BY DEF FrameInv
<1>2. /\ old \in Nat /\ new \in Nat /\ DOMAIN s.fuzzable_params = 1..old
      /\ DOMAIN t.fuzzable_params = 1..new
  BY DEF Sequence
<1>3. /\ old <= new
      /\ \A p \in FrameArgs(fr) :
           fr.params[p].kind = "FuzzableType" => fr.params[p].index \in (old + 1)..new
      /\ \A m \in (old + 1)..new : \E p \in FrameArgs(fr) : FrameArgIs(fr, p, m)
      /\ \A p, q \in FrameArgs(fr) : \A m \in Nat :
           FrameArgIs(fr, p, m) /\ FrameArgIs(fr, q, m) => p = q
  BY <1>0, <1>1 DEF FrameVariables
<1> HIDE DEF old, new
<1>4. \A c \in 1..n : \A p \in Args(s, c) :
        Arg(s, c, p).kind = "FuzzableType" => Arg(s, c, p).index \in 1..old
  BY <1>0, <1>2 DEF FuzzablesUsedOnceIn
<1>5. ASSUME NEW m \in 1..new
      PROVE  \E c \in DOMAIN t.functions : \E p \in Args(t, c) :
               /\ UsesVariable(t, c, p, m)
               /\ \A d \in DOMAIN t.functions : \A q \in Args(t, d) :
                    UsesVariable(t, d, q, m) => d = c /\ q = p
  <2>1. CASE m \in 1..old
    <3>0. PICK c \in 1..n : \E p \in Args(s, c) :
            /\ UsesVariable(s, c, p, m)
            /\ \A d \in DOMAIN s.functions : \A q \in Args(s, d) :
                 UsesVariable(s, d, q, m) => d = c /\ q = p
      BY <1>0, <1>2, <2>1 DEF FuzzablesUsedOnceIn
    <3>1. PICK p \in Args(s, c) :
            /\ UsesVariable(s, c, p, m)
            /\ \A d \in DOMAIN s.functions : \A q \in Args(s, d) :
                 UsesVariable(s, d, q, m) => d = c /\ q = p
      BY <3>0
    <3>2. c \in DOMAIN t.functions /\ p \in Args(t, c) /\ UsesVariable(t, c, p, m)
      BY <1>0, <3>1 DEF GrownUses
    <3>3. ASSUME NEW d \in DOMAIN t.functions, NEW q \in Args(t, d), UsesVariable(t, d, q, m)
          PROVE  d = c /\ q = p
      <4>1. d # n + 1
        BY <1>2, <1>3, <2>1, <3>3 DEF GrownUses, FrameArgIs
      <4> QED
        BY <1>0, <3>1, <3>3, <4>1 DEF GrownUses
    <3> QED
      BY <3>2, <3>3
  <2>2. CASE m \in (old + 1)..new
    <3>1. PICK p \in FrameArgs(fr) : FrameArgIs(fr, p, m)
      BY <1>3, <2>2
    <3>2. n + 1 \in DOMAIN t.functions /\ p \in Args(t, n + 1) /\ UsesVariable(t, n + 1, p, m)
      BY <1>0, <3>1 DEF GrownUses
    <3>3. ASSUME NEW d \in DOMAIN t.functions, NEW q \in Args(t, d), UsesVariable(t, d, q, m)
          PROVE  d = n + 1 /\ q = p
      <4>1. d = n + 1
        <5> SUFFICES ASSUME d \in 1..n PROVE FALSE
          BY <1>0
        <5>1. q \in Args(s, d) /\ UsesVariable(s, d, q, m)
          BY <3>3 DEF GrownUses
        <5>2. m \in 1..old
          BY <1>4, <5>1 DEF UsesVariable
        <5> QED
          BY <1>2, <2>2, <5>2
      <4> QED
        BY <1>2, <1>3, <3>1, <3>3, <4>1 DEF GrownUses
    <3> QED
      BY <3>2, <3>3
  <2> QED
    BY <1>2, <2>1, <2>2
<1>6. ASSUME NEW c \in DOMAIN t.functions, NEW p \in Args(t, c),
             Arg(t, c, p).kind = "FuzzableType"
      PROVE  Arg(t, c, p).index \in 1..new
  <2>1. CASE c \in 1..n
    <3>1. Arg(t, c, p).index \in 1..old
      BY <1>4, <1>6, <2>1 DEF GrownUses
    <3> QED
      BY <1>2, <1>3, <3>1
  <2>2. CASE c = n + 1
    <3>1. p \in FrameArgs(fr) /\ Arg(t, c, p) = fr.params[p]
      BY <2>2 DEF GrownUses
    <3>2. Arg(t, c, p).index \in (old + 1)..new
      BY <1>3, <1>6, <3>1
    <3> QED
      BY <1>2, <3>2
  <2> QED
    BY <1>0, <2>1, <2>2
<1> QED
  BY <1>2, <1>5, <1>6 DEF FuzzablesUsedOnceIn

-----------------------------------------------------------------------------
(***************************************************************************)
(* The whole call of is_fun_satisfied.                                     *)
(***************************************************************************)

\* t is s with one more call, of f; the call uses what s still has, and t has
\* no more than that.
Extends(s, f, t) ==
  /\ Len(s.functions) \in Nat
  /\ Len(t.functions) = Len(s.functions) + 1
  /\ DOMAIN s.functions = 1..Len(s.functions)
  /\ DOMAIN t.functions = 1..(Len(s.functions) + 1)
  /\ \A c \in DOMAIN s.functions : t.functions[c] = s.functions[c]
  /\ t.functions[Len(s.functions) + 1].func = f
  /\ UsedByLast(t) \subseteq (1..Len(s.functions)) \ s.moved
  /\ s.moved \subseteq t.moved
  /\ t.moved \subseteq 1..Len(s.functions)
  /\ s.covered_dependencies \subseteq t.covered_dependencies

\* Appending a frame whose arguments were chosen by the loop extends the
\* sequence and keeps all of its rules.
LEMMA AppendedSound ==
  ASSUME NEW s, Sound(s), NEW fr \in Frame, fr.fun \in Funs, FrameInv(fr, s),
         NEW t, t = Appended(fr)
  PROVE  Sound(t) /\ (Tracked(s) => Tracked(t)) /\ Extends(s, fr.fun, t)
<1> SUFFICES ASSUME NEW n, n = Len(s.functions)
             PROVE  Sound(t) /\ (Tracked(s) => Tracked(t)) /\ Extends(s, fr.fun, t)
  OBVIOUS
<1>1. /\ s \in Sequence /\ Recorded(s) /\ NoUseAfterMoveIn(s) /\ ExclusiveMutBorrowIn(s)
      /\ RecordedBorrowsEndIn(s) /\ FuzzablesUsedOnceIn(s)
  BY DEF Sound
<1>2. FrameCopies(fr, s) /\ FrameUses(fr, s) /\ FrameRange(fr, s)
  BY DEF FrameInv
<1>3. Grown(s, fr, t, n)
  BY <1>1, <1>2, AppendedCall
<1>4. GrownUses(s, fr, t, n)
  BY <1>3, AppendedUses
<1>5. IndexTypes(s, fr)
  BY <1>1, ArgIndexType
<1>6. t \in Sequence
  BY AppendedType
<1>7. Recorded(t)
  BY <1>1, <1>3, <1>4, <1>5, AppendKeepsRecorded
<1>8. NoUseAfterMoveIn(t)
  BY <1>1, <1>3, <1>4, <1>5, AppendKeepsNoUseAfterMove
<1>9. ExclusiveMutBorrowIn(t)
  BY <1>1, <1>3, <1>4, <1>5, AppendKeepsExclusive
<1>10. RecordedBorrowsEndIn(t)
  BY <1>1, <1>3, <1>4, <1>5, <1>6, AppendKeepsRecordedBorrows
<1>11. FuzzablesUsedOnceIn(t)
  BY <1>1, <1>3, <1>4, <1>5, <1>6, AppendKeepsFuzzables
<1>12. ASSUME Tracked(s) PROVE Tracked(t)
  BY <1>3, <1>4, <1>5, <1>12, AppendKeepsTracked
<1>13. UsedByLast(t) \subseteq (1..n) \ s.moved
  <2>1. Len(t.functions) = n + 1 /\ n + 1 # 0 /\ n \in Nat
    BY <1>3 DEF Grown
  <2>2. UsedByLast(t) =
          {Arg(t, n + 1, p).index :
             p \in {q \in Args(t, n + 1) : Arg(t, n + 1, q).kind = "FunctionReturn"}}
    BY <2>1 DEF UsedByLast
  <2>3. ASSUME NEW p \in Args(t, n + 1), Arg(t, n + 1, p).kind = "FunctionReturn"
        PROVE  Arg(t, n + 1, p).index \in (1..n) \ s.moved
    <3>1. p \in FrameArgs(fr) /\ Arg(t, n + 1, p) = fr.params[p]
      BY <1>4 DEF GrownUses
    <3>2. FrameArgUses(fr, p, fr.params[p].index) /\ fr.params[p].index \in Nat
      BY <1>5, <2>3, <3>1 DEF FrameArgUses, IndexTypes
    <3> QED
      BY <1>2, <3>1, <3>2 DEF FrameUses
  <2> QED
    BY <2>2, <2>3
<1>14. Extends(s, fr.fun, t)
  BY <1>2, <1>3, <1>13 DEF Extends, Grown, FrameCopies, FrameRange
<1>15. Sound(t)
  BY <1>6, <1>7, <1>8, <1>9, <1>10, <1>11 DEF Sound
<1> QED
  BY <1>12, <1>14, <1>15

\* A frame after n iterations of the loop over f's parameters.
LoopFrame(f, s, n, fr) ==
  /\ fr \in Frame
  /\ fr.fun = f
  /\ Len(fr.params) = n
  /\ FrameInv(fr, s)

\* One iteration of the loop keeps what is known of the arguments.
LEMMA NextParamKeeps ==
  ASSUME NEW s \in Sequence, Recorded(s), NEW f \in Funs, NEW n \in Nat,
         n + 1 \in 1..Len(api_functions[f].inputs),
         NEW fr, LoopFrame(f, s, n, fr), NEW g \in NextParam(fr)
  PROVE  LoopFrame(f, s, n + 1, g)
<1>1. fr \in Frame /\ fr.fun = f /\ Len(fr.params) = n /\ FrameInv(fr, s)
  BY DEF LoopFrame
<1>2. CASE IsFuzzableType(ParamType(fr))
  <2>1. FuzzableArgument(fr).fuzzable_type # NoFuzzable /\ g = PassFuzzable(fr)
    BY <1>2 DEF NextParam
  <2>2. ParamIndex(fr) \in DOMAIN Inputs(fr)
    BY <1>1, FunctionsAssumption DEF ParamIndex, Inputs
  <2>3. g \in Frame
    BY <1>1, <2>1, <2>2, PassFuzzableType
  <2>4. FrameInv(g, s)
    BY <1>1, <2>1, FuzzableKeepsFrameInv
  <2>5. g.fun = f /\ Len(g.params) = n + 1
    BY <1>1, <2>1 DEF PassFuzzable, Frame
  <2> QED
    BY <2>3, <2>4, <2>5 DEF LoopFrame
<1>3. CASE ~IsFuzzableType(ParamType(fr))
  <2>1. PICK j \in FirstUsable(fr) : g = UseReturn(fr, j)
    BY <1>3 DEF NextParam
  <2>2. j \in Usable(fr)
    <3>1. Usable(fr) # {} /\ j = Min(Usable(fr))
      BY <2>1 DEF FirstUsable
    <3>2. Usable(fr) \in SUBSET Nat
      BY <1>1, EdgeTypes DEF Usable
    <3> QED
      BY <3>1, <3>2, MinIsLeast
  <2>3. g \in Frame
    BY <1>1, <2>1, <2>2, UseReturnType DEF Usable
  <2>4. Passes(fr, j, g)
    BY <1>1, <2>1, <2>2, UseReturnPasses
  <2>5. FrameInv(g, s)
    BY <1>1, <2>4, PassKeepsFrameInv
  <2>6. g.fun = f /\ Len(g.params) = n + 1
    BY <1>1, <2>4 DEF Passes, Frame
  <2> QED
    BY <2>3, <2>5, <2>6 DEF LoopFrame
<1> QED
  BY <1>2, <1>3

\* The loop invariant of is_fun_satisfied.
LEMMA FramesKeep ==
  ASSUME NEW s \in Sequence, Recorded(s), NEW f \in Funs,
         NEW n \in 0..Len(api_functions[f].inputs), NEW fr \in Frames(f, s)[n]
  PROVE  LoopFrame(f, s, n, fr)
<1> DEFINE arity == Len(api_functions[f].inputs)
           T == {m \in Nat : m <= arity => \A g \in Frames(f, s)[m] : LoopFrame(f, s, m, g)}
<1>0. arity \in Nat
  BY ArityType
<1>1. 0 \in T
  <2>1. Frames(f, s)[0] = {NewFrame(s, f)}
    BY FramesUnfold
  <2>2. NewFrame(s, f) \in Frame
    BY NewFrameType
  <2>3. FrameInv(NewFrame(s, f), s)
    BY NewFrameInv
  <2>4. NewFrame(s, f).fun = f /\ Len(NewFrame(s, f).params) = 0
    BY DEF NewFrame
  <2>5. LoopFrame(f, s, 0, NewFrame(s, f))
    BY <2>2, <2>3, <2>4 DEF LoopFrame
  <2> QED
    BY <2>1, <2>5
<1>2. ASSUME NEW m \in T PROVE m + 1 \in T
  <2> SUFFICES ASSUME m + 1 <= arity, NEW g \in Frames(f, s)[m + 1]
               PROVE  LoopFrame(f, s, m + 1, g)
    OBVIOUS
  <2>1. m \in Nat /\ m + 1 \in 1..arity /\ (m + 1) - 1 = m
    BY <1>0
  <2>2. Frames(f, s)[m + 1] = UNION {NextParam(x) : x \in Frames(f, s)[m]}
    BY <2>1, FramesUnfold
  <2>3. PICK x \in Frames(f, s)[m] : g \in NextParam(x)
    BY <2>2
  <2>4. LoopFrame(f, s, m, x)
    BY <1>0, <2>1
  <2> QED
    BY <2>1, <2>3, <2>4, NextParamKeeps
<1>3. T = Nat
  <2> HIDE DEF T
  <2>1. T \in SUBSET Nat
    BY DEF T
  <2> QED
    BY <1>1, <1>2, <2>1, Induction
<1> QED
  BY <1>0, <1>3

\* What is_fun_satisfied returns for a sequence that keeps the rules extends it
\* by a call of f and keeps the rules.
LEMMA IsFunSatisfiedSound ==
  ASSUME NEW s, Sound(s), NEW f \in Funs, NEW t \in IsFunSatisfied(f, s)
  PROVE  Sound(t) /\ (Tracked(s) => Tracked(t)) /\ Extends(s, f, t)
<1> DEFINE arity == Len(api_functions[f].inputs)
<1>1. PICK fr \in Frames(f, s)[arity] : t = Appended(fr)
  BY DEF IsFunSatisfied
<1>2. arity \in 0..arity
  BY ArityType
<1>3. s \in Sequence /\ Recorded(s)
  BY DEF Sound
<1>4. LoopFrame(f, s, arity, fr)
  BY <1>2, <1>3, FramesKeep
<1>5. fr \in Frame /\ fr.fun = f /\ FrameInv(fr, s)
  BY <1>4 DEF LoopFrame
<1> QED
  BY <1>1, <1>5, AppendedSound

\* The empty sequence keeps the rules.
LEMMA NewSequenceSound == Sound(NewSequence) /\ Tracked(NewSequence)
<1>1. /\ NewSequence.functions = <<>> /\ NewSequence.moved = {}
      /\ NewSequence.careful_pairs = {} /\ NewSequence.fuzzable_params = <<>>
  BY DEF NewSequence
<1>2. Recorded(NewSequence)
  BY <1>1 DEF Recorded
<1>3. NoUseAfterMoveIn(NewSequence) /\ ExclusiveMutBorrowIn(NewSequence)
  BY <1>1 DEF NoUseAfterMoveIn, ExclusiveMutBorrowIn
<1>4. RecordedBorrowsEndIn(NewSequence) /\ FuzzablesUsedOnceIn(NewSequence)
  BY <1>1 DEF RecordedBorrowsEndIn, FuzzablesUsedOnceIn
<1>5. Tracked(NewSequence)
  BY <1>1 DEF Tracked
<1> QED
  BY <1>2, <1>3, <1>4, <1>5, NewSequenceType DEF Sound

\* Where every reference is recorded, RecordedBorrowsEndIn speaks of all of
\* them.
LEMMA TrackedBorrowsEnd ==
  ASSUME NEW s \in Sequence, RecordedBorrowsEndIn(s), Tracked(s)
  PROVE  BorrowEndsWithOwnerIn(s)
<1> SUFFICES ASSUME NEW b \in DOMAIN s.functions, NEW o \in 1..(b - 1), BorrowsFrom(s, b, o),
                    NEW c \in DOMAIN s.functions, NEW p \in Args(s, c), c > b
             PROVE  EndsBorrow(s, c, p, o, b)
  BY DEF BorrowEndsWithOwnerIn
<1> DEFINE pair == <<o, b>>
<1>1. pair \in s.careful_pairs
  BY DEF Tracked
<1>2. pair[1] = o /\ pair[2] = b
  OBVIOUS
<1> HIDE DEF pair
<1>3. EndsBorrow(s, c, p, pair[1], pair[2])
  BY <1>1, <1>2 DEF RecordedBorrowsEndIn
<1> QED
  BY <1>2, <1>3

-----------------------------------------------------------------------------
(***************************************************************************)
(* The variables.  add_api_function has refused the functions whose        *)
(* variables is_fun_satisfied would refuse.                                *)
(***************************************************************************)

\* A parameter that the fuzzer fills has a decoder, for a variable of at most
\* one dynamic length.
LEMMA SupportedParam ==
  ASSUME NEW f \in Funs, NEW i \in DOMAIN api_functions[f].inputs,
         IsFuzzableType(api_functions[f].inputs[i]),
         NEW arg, arg = GenerateFuzzableTypeAndCallType(api_functions[f].inputs[i])
  PROVE  arg.fuzzable_type # NoFuzzable /\ ~IsMultipleDynamicLength(arg.fuzzable_type)
  BY SupportedAssumption DEF ContainsUnsupportedFuzzableType

\* No parameter adds a variable of two dynamic lengths.
LEMMA NextParamPlain ==
  ASSUME NEW fr \in Frame, fr.fun \in Funs, ParamIndex(fr) \in DOMAIN Inputs(fr),
         ~ContainsMultiDynamicLengthFuzzable(fr.new), NEW g \in NextParam(fr)
  PROVE  ~ContainsMultiDynamicLengthFuzzable(g.new)
<1>1. CASE IsFuzzableType(ParamType(fr))
  <2> DEFINE arg == FuzzableArgument(fr)
  <2>1. ~IsMultipleDynamicLength(arg.fuzzable_type)
    BY <1>1, SupportedParam DEF FuzzableArgument, ParamType, Inputs
  <2>0. g = PassFuzzable(fr)
    BY <1>1 DEF NextParam
  <2>2. g.new.fuzzable_params = Append(fr.new.fuzzable_params, arg.fuzzable_type)
    BY <2>0 DEF PassFuzzable, Frame, Sequence
  <2> HIDE DEF arg
  <2>3. fr.new.fuzzable_params \in Seq(DecodedTypes \ {NoFuzzable})
    BY DEF Frame, Sequence
  <2>4. \A n \in DOMAIN g.new.fuzzable_params :
          g.new.fuzzable_params[n] = arg.fuzzable_type \/
          (n \in DOMAIN fr.new.fuzzable_params /\
           g.new.fuzzable_params[n] = fr.new.fuzzable_params[n])
    BY <2>2, <2>3
  <2> QED
    BY <2>1, <2>4 DEF ContainsMultiDynamicLengthFuzzable
<1>2. CASE ~IsFuzzableType(ParamType(fr))
  <2>1. PICK j \in FirstUsable(fr) : g = UseReturn(fr, j)
    BY <1>2 DEF NextParam
  <2>2. Usable(fr) # {} /\ j = Min(Usable(fr)) /\ Usable(fr) \in SUBSET Nat
    BY <2>1, EdgeTypes DEF FirstUsable, Usable
  <2>3. j \in Usable(fr)
    BY <2>2, MinIsLeast
  <2>4. g.new.fuzzable_params = fr.new.fuzzable_params
    BY <2>1, <2>3, UseReturnPasses DEF Passes
  <2> QED
    BY <2>4 DEF ContainsMultiDynamicLengthFuzzable
<1> QED
  BY <1>1, <1>2

\* The call itself adds no variables.
LEMMA AppendedPlain ==
  ASSUME NEW fr \in Frame
  PROVE  /\ ~ContainsMultiDynamicLengthFuzzable(fr.new)
               => ~ContainsMultiDynamicLengthFuzzable(Appended(fr))
         /\ ~ContainsMultiDynamicLengthFuzzable(fr.new) => ~Refused(fr)
<1>1. Appended(fr).fuzzable_params = fr.new.fuzzable_params
  BY DEF Appended, Frame, Sequence
<1> QED
  BY <1>1 DEF ContainsMultiDynamicLengthFuzzable, Refused

\* is_fun_satisfied begins with the variables of the sequence.
LEMMA NewFramePlain ==
  ASSUME NEW s \in Sequence, NEW f \in Funs, ~ContainsMultiDynamicLengthFuzzable(s)
  PROVE  ~ContainsMultiDynamicLengthFuzzable(NewFrame(s, f).new)
<1>1. NewFrame(s, f).new.fuzzable_params = s.fuzzable_params
  BY DEF NewFrame, Sequence
<1> QED
  BY <1>1 DEF ContainsMultiDynamicLengthFuzzable

=============================================================================
