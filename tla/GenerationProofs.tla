--------------------------- MODULE GenerationProofs ---------------------------
(***************************************************************************)
(* Proofs about Generation: what the breadth-first, the deep and the       *)
(* backward search leave in the list of sequences, and what is chosen from *)
(* it, for every crate, whatever the order of the dependencies.            *)
(*                                                                         *)
(* First the merge: merging finished sequences and appending a call to the *)
(* result keeps the ownership rules, since the parts share neither results *)
(* nor variables.  Then one invariant per question: Live and ListInv (all  *)
(* that is in the list obeys the rules), RoundsInv (a backward round that  *)
(* covers nothing has tried everything), BfsInv (what is not extended      *)
(* cannot be), DeepInv (each length has earned its keep) and ChoiceInv     *)
(* (what is not chosen adds nothing).                                      *)
(***************************************************************************)
EXTENDS Generation, SequenceRulesProofs, FiniteSetTheorems

\* new is what is_fun_satisfied returned, and after is before with it pushed.
Pushed(before, new, after) ==
  \/ new = {} /\ after = before
  \/ \E t : new = {t} /\ after = Append(before, t)

\* The sequence that is_fun_satisfied returned is pushed;
LEMMA PushSome ==
  ASSUME NEW S, NEW before \in Seq(S), NEW t \in S
  PROVE  before \o SetToSeq({t}) = Append(before, t)
<1> DEFINE g == [n \in 1..1 |-> t]
<1>1. Cardinality({t}) = 1
  BY FS_Singleton
<1>2. g \in [1..1 -> {t}] /\ IsInjective(g)
  BY DEF IsInjective
<1>3. SetToSeq({t}) \in [1..1 -> {t}]
  BY <1>1, <1>2 DEF SetToSeq
<1>4. SetToSeq({t}) = <<t>>
  BY <1>3
<1> HIDE DEF g
<1>5. before \o <<t>> = Append(before, t)
  <2>1. before \o <<t>> \in Seq(S) /\ Append(before, t) \in Seq(S)
        /\ Len(before \o <<t>>) = Len(before) + 1 /\ Len(Append(before, t)) = Len(before) + 1
        /\ Len(before) \in Nat
    OBVIOUS
  <2>2. ASSUME NEW n \in 1..(Len(before) + 1)
        PROVE  (before \o <<t>>)[n] = Append(before, t)[n]
    BY <2>1
  <2> QED
    BY <2>1, <2>2
<1> QED
  BY <1>4, <1>5

\* if it returned none, the list stays as it is.
LEMMA PushNone ==
  ASSUME NEW S, NEW before \in Seq(S)
  PROVE  before \o SetToSeq({}) = before
<1> DEFINE g == [n \in 1..0 |-> 0]
<1>1. Cardinality({}) = 0
  BY FS_EmptySet
<1>2. g \in [1..0 -> {}] /\ IsInjective(g)
  BY DEF IsInjective
<1>3. SetToSeq({}) \in [1..0 -> {}]
  BY <1>1, <1>2 DEF SetToSeq
<1>4. SetToSeq({}) = <<>>
  BY <1>3
<1> QED
  BY <1>4


\* is_fun_satisfied returns at most one sequence.
LEMMA ReturnsAtMostOne ==
  ASSUME NEW s, NEW f \in Funs
  PROVE  IsFunSatisfied(f, s) = {} \/ \E t : IsFunSatisfied(f, s) = {t}
<1> DEFINE arity == Len(api_functions[f].inputs)
           Single(F) == F = {} \/ \E fr : F = {fr}
           T == {m \in Nat : m <= arity => Single(Frames(f, s)[m])}
<1>0. arity \in Nat
  BY ArityType
<1>1. 0 \in T
  BY FramesUnfold
<1>2. ASSUME NEW m \in T PROVE m + 1 \in T
  <2> SUFFICES ASSUME m + 1 <= arity PROVE Single(Frames(f, s)[m + 1])
    OBVIOUS
  <2>1. m \in Nat /\ m + 1 \in 1..arity /\ (m + 1) - 1 = m /\ m <= arity
    BY <1>0
  <2>2. Frames(f, s)[m + 1] = UNION {NextParam(x) : x \in Frames(f, s)[m]}
    BY <2>1, FramesUnfold
  <2>3. Single(Frames(f, s)[m])
    BY <2>1
  <2>4. CASE Frames(f, s)[m] = {}
    BY <2>2, <2>4
  <2>5. ASSUME NEW x, Frames(f, s)[m] = {x} PROVE Single(Frames(f, s)[m + 1])
    <3>1. Frames(f, s)[m + 1] = NextParam(x)
      BY <2>2, <2>5
    <3>2. FirstUsable(x) = {} \/ FirstUsable(x) = {Min(Usable(x))}
      BY DEF FirstUsable
    <3>3. \/ NextParam(x) = {}
          \/ NextParam(x) = {PassFuzzable(x)}
          \/ NextParam(x) = {UseReturn(x, Min(Usable(x)))}
      BY <3>2 DEF NextParam
    <3> QED
      BY <3>1, <3>3
  <2> QED
    BY <2>3, <2>4, <2>5
<1>3. T = Nat
  <2> HIDE DEF T
  <2>1. T \in SUBSET Nat
    BY DEF T
  <2> QED
    BY <1>1, <1>2, <2>1, Induction
<1>4. Single(Frames(f, s)[arity])
  <2> HIDE DEF Single, arity
  <2> QED
    BY <1>0, <1>3
<1> QED
  BY <1>4 DEF IsFunSatisfied

\* What the searches do with the answer of is_fun_satisfied.
LEMMA PushesAnswer ==
  ASSUME NEW before \in Seq(Sequence), NEW s, Sound(s), NEW f \in Funs,
         NEW new, new = IsFunSatisfied(f, s) \/ new = {},
         NEW after, after = before \o SetToSeq(new)
  PROVE  Pushed(before, new, after)
<1>1. CASE new = {}
  BY <1>1, PushNone DEF Pushed
<1>2. ASSUME NEW t, new = {t}, new = IsFunSatisfied(f, s) PROVE Pushed(before, new, after)
  <2>1. t \in Sequence
    BY <1>2, IsFunSatisfiedSound DEF Sound
  <2> QED
    BY <1>2, <2>1, PushSome DEF Pushed
<1> QED
  BY <1>1, <1>2, ReturnsAtMostOne

-----------------------------------------------------------------------------
(***************************************************************************)
(* _merge_another_sequence.                                                *)
(***************************************************************************)

\* t is call c behind n calls and m variables.
Behind(c, t, n, m) ==
  /\ t.func = c.func
  /\ DOMAIN t.params = DOMAIN c.params
  /\ \A p \in DOMAIN c.params :
       /\ t.params[p].kind = c.params[p].kind
       /\ t.params[p].call_type = c.params[p].call_type
       /\ t.params[p].index =
            c.params[p].index + (IF c.params[p].kind = "FuzzableType" THEN m ELSE n)

\* t has the n calls and m variables of s, and after them those of o.
Joined(s, o, t, n, m) ==
  LET k == Len(o.functions)
      l == Len(o.fuzzable_params)
  IN  /\ n \in Nat /\ m \in Nat /\ k \in Nat /\ l \in Nat
      /\ n = Len(s.functions) /\ m = Len(s.fuzzable_params)
      /\ DOMAIN s.functions = 1..n /\ DOMAIN o.functions = 1..k
      /\ DOMAIN t.functions = 1..(n + k) /\ Len(t.functions) = n + k
      /\ DOMAIN s.fuzzable_params = 1..m /\ DOMAIN o.fuzzable_params = 1..l
      /\ DOMAIN t.fuzzable_params = 1..(m + l)
      /\ \A c \in 1..n : t.functions[c] = s.functions[c]
      /\ \A c \in 1..k : Behind(o.functions[c], t.functions[n + c], n, m)
      /\ \A v \in 1..m : t.fuzzable_params[v] = s.fuzzable_params[v]
      /\ \A v \in 1..l : t.fuzzable_params[m + v] = o.fuzzable_params[v]
      /\ t.moved = s.moved \cup Shifted(o.moved, n)
      /\ t.careful_pairs = s.careful_pairs

\* c is the two lists a and b, one after the other.
Concatenated(a, b, c) ==
  /\ Len(c) = Len(a) + Len(b)
  /\ DOMAIN c = 1..(Len(a) + Len(b))
  /\ \A i \in 1..Len(a) : c[i] = a[i]
  /\ \A i \in 1..Len(b) : c[Len(a) + i] = b[i]

\* The elements of a concatenation.
LEMMA ConcatFields ==
  ASSUME NEW S, NEW a \in Seq(S), NEW b \in Seq(S)
  PROVE  a \o b \in Seq(S) /\ Concatenated(a, b, a \o b)
  BY DEF Concatenated

Calls == [func : Funs, params : Seq(Param)]
Decoded == DecodedTypes \ {NoFuzzable}

\* The two lists of a sequence.
LEMMA SequenceLists ==
  ASSUME NEW s \in Sequence
  PROVE  s.functions \in Seq(Calls) /\ s.fuzzable_params \in Seq(Decoded)
  BY DEF Sequence, Calls, Decoded

\* An argument behind n calls and m variables keeps its kind and call type.
LEMMA RenumberedFields ==
  ASSUME NEW a \in Param, NEW n \in Nat, NEW m \in Nat
  PROVE  /\ Renumbered(a, n, m) \in Param
         /\ Renumbered(a, n, m).kind = a.kind
         /\ Renumbered(a, n, m).call_type = a.call_type
         /\ Renumbered(a, n, m).index =
              a.index + (IF a.kind = "FuzzableType" THEN m ELSE n)
  BY DEF Renumbered, Param

\* A call behind others is renumbered and otherwise the same.
LEMMA RenumberedCall ==
  ASSUME NEW c \in Calls, NEW n \in Nat, NEW m \in Nat, NEW t,
         t = ApiCall(c.func, [p \in DOMAIN c.params |-> Renumbered(c.params[p], n, m)])
  PROVE  t \in Calls /\ Behind(c, t, n, m)
<1> DEFINE new == [p \in DOMAIN c.params |-> Renumbered(c.params[p], n, m)]
<1>1. c.params \in Seq(Param)
  BY DEF Calls
<1>2. Len(c.params) \in Nat /\ DOMAIN c.params = 1..Len(c.params)
      /\ \A p \in DOMAIN c.params : c.params[p] \in Param
  BY <1>1
<1>3. new \in [1..Len(c.params) -> Param]
  BY <1>2, RenumberedFields
<1>4. new \in Seq(Param)
  BY <1>2, <1>3
<1>5. DOMAIN new = DOMAIN c.params
      /\ \A p \in DOMAIN c.params : new[p] = Renumbered(c.params[p], n, m)
  OBVIOUS
<1>6. t = [func |-> c.func, params |-> new]
  BY DEF ApiCall
<1> HIDE DEF new
<1>7. t.func = c.func /\ t.params = new /\ t \in Calls
  BY <1>4, <1>6 DEF Calls
<1>8. ASSUME NEW p \in DOMAIN c.params
      PROVE  /\ t.params[p].kind = c.params[p].kind
             /\ t.params[p].call_type = c.params[p].call_type
             /\ t.params[p].index =
                  c.params[p].index + (IF c.params[p].kind = "FuzzableType" THEN m ELSE n)
  <2>1. t.params[p] = Renumbered(c.params[p], n, m) /\ c.params[p] \in Param
    BY <1>2, <1>5, <1>7
  <2> QED
    BY <2>1, RenumberedFields
<1> QED
  BY <1>5, <1>7, <1>8 DEF Behind

\* The calls of the second sequence, renumbered.
LEMMA ShiftedCallsFields ==
  ASSUME NEW o \in Sequence, NEW n \in Nat, NEW m \in Nat,
         NEW calls, calls = ShiftedCalls(o, n, m)
  PROVE  /\ calls \in Seq(Calls) /\ Len(calls) = Len(o.functions)
         /\ \A c \in 1..Len(o.functions) : Behind(o.functions[c], calls[c], n, m)
<1>1. o.functions \in Seq(Calls)
  BY SequenceLists
<1>2. Len(o.functions) \in Nat /\ DOMAIN o.functions = 1..Len(o.functions)
      /\ \A c \in 1..Len(o.functions) : o.functions[c] \in Calls
  BY <1>1
<1>4. ASSUME NEW c \in 1..Len(o.functions)
      PROVE  calls[c] \in Calls /\ Behind(o.functions[c], calls[c], n, m)
  <2>1. calls[c] = ApiCall(o.functions[c].func,
                     [p \in DOMAIN o.functions[c].params |->
                       Renumbered(o.functions[c].params[p], n, m)])
    BY <1>2 DEF ShiftedCalls
  <2> QED
    BY <1>2, <2>1, RenumberedCall
<1>5. DOMAIN calls = 1..Len(o.functions) /\ calls = [c \in 1..Len(o.functions) |-> calls[c]]
  BY <1>2 DEF ShiftedCalls
<1>6. calls \in [1..Len(o.functions) -> Calls]
  BY <1>4, <1>5
<1> QED
  BY <1>2, <1>4, <1>6

\* _merge_another_sequence joins the two, and returns a sequence.
LEMMA MergeJoins ==
  ASSUME NEW s \in Sequence, NEW o \in Sequence, NEW t, t = MergeAnotherSequence(s, o)
  PROVE  t \in Sequence /\ Joined(s, o, t, Len(s.functions), Len(s.fuzzable_params))
<1> SUFFICES ASSUME NEW n, n = Len(s.functions), NEW m, m = Len(s.fuzzable_params),
                    NEW k, k = Len(o.functions), NEW l, l = Len(o.fuzzable_params)
             PROVE  t \in Sequence /\ Joined(s, o, t, n, m)
  OBVIOUS
<1> DEFINE calls == ShiftedCalls(o, n, m)
<1>1. /\ s.functions \in Seq(Calls) /\ o.functions \in Seq(Calls)
      /\ s.fuzzable_params \in Seq(Decoded) /\ o.fuzzable_params \in Seq(Decoded)
  BY SequenceLists
<1>2. /\ n \in Nat /\ m \in Nat /\ k \in Nat /\ l \in Nat
      /\ DOMAIN s.functions = 1..n /\ DOMAIN o.functions = 1..k
      /\ DOMAIN s.fuzzable_params = 1..m /\ DOMAIN o.fuzzable_params = 1..l
  BY <1>1
<1>3. /\ calls \in Seq(Calls) /\ Len(calls) = k
      /\ \A c \in 1..k : Behind(o.functions[c], calls[c], n, m)
  BY <1>2, ShiftedCallsFields
<1> HIDE DEF calls
<1> DEFINE fs == s.functions \o calls
           ps == s.fuzzable_params \o o.fuzzable_params
<1>4. /\ fs \in Seq(Calls) /\ Concatenated(s.functions, calls, fs)
      /\ ps \in Seq(Decoded) /\ Concatenated(s.fuzzable_params, o.fuzzable_params, ps)
  BY <1>1, <1>3, ConcatFields
<1>5. t = [s EXCEPT !.functions        = fs,
                    !.fuzzable_params  = ps,
                    !.using_traits     = @ \cup o.using_traits,
                    !.unsafe_tag       = @ \/ o.unsafe_tag,
                    !.moved            = @ \cup Shifted(o.moved, n),
                    !.fuzzable_mut_tag = @ \cup Shifted(o.fuzzable_mut_tag, m),
                    !.function_mut_tag = @ \cup Shifted(o.function_mut_tag, n)]
  BY DEF MergeAnotherSequence, calls
<1> HIDE DEF fs, ps
<1>6. /\ Len(fs) = n + k /\ DOMAIN fs = 1..(n + k)
      /\ \A c \in 1..n : fs[c] = s.functions[c]
      /\ \A c \in 1..k : fs[n + c] = calls[c]
  BY <1>2, <1>3, <1>4 DEF Concatenated
<1>7. /\ DOMAIN ps = 1..(m + l)
      /\ \A v \in 1..m : ps[v] = s.fuzzable_params[v]
      /\ \A v \in 1..l : ps[m + v] = o.fuzzable_params[v]
  BY <1>2, <1>4 DEF Concatenated
<1>8. /\ t.functions = fs /\ t.fuzzable_params = ps
      /\ t.moved = s.moved \cup Shifted(o.moved, n)
      /\ t.careful_pairs = s.careful_pairs
      /\ t.covered_dependencies = s.covered_dependencies
  BY <1>5 DEF Sequence
<1>9. t \in Sequence
  <2>1. ASSUME NEW S \in SUBSET Nat, NEW x \in Nat PROVE Shifted(S, x) \in SUBSET Nat
    BY DEF Shifted
  <2>2. /\ Shifted(o.moved, n) \in SUBSET Nat
        /\ Shifted(o.fuzzable_mut_tag, m) \in SUBSET Nat
        /\ Shifted(o.function_mut_tag, n) \in SUBSET Nat
    BY <1>2, <2>1 DEF Sequence
  <2> DEFINE traits == s.using_traits \cup o.using_traits
             unsafe == s.unsafe_tag \/ o.unsafe_tag
             moved == s.moved \cup Shifted(o.moved, n)
             fmut == s.fuzzable_mut_tag \cup Shifted(o.fuzzable_mut_tag, m)
             rmut == s.function_mut_tag \cup Shifted(o.function_mut_tag, n)
  <2>3. /\ traits \in SUBSET Traits /\ unsafe \in BOOLEAN
        /\ moved \in SUBSET Nat /\ fmut \in SUBSET Nat /\ rmut \in SUBSET Nat
    BY <2>2 DEF Sequence
  <2>4. t = [s EXCEPT !.functions = fs, !.fuzzable_params = ps, !.using_traits = traits,
                      !.unsafe_tag = unsafe, !.moved = moved, !.fuzzable_mut_tag = fmut,
                      !.function_mut_tag = rmut]
    BY <1>5
  <2> HIDE DEF traits, unsafe, moved, fmut, rmut
  <2>5. fs \in Seq([func : Funs, params : Seq(Param)])
        /\ ps \in Seq(DecodedTypes \ {NoFuzzable})
    BY <1>4 DEF Calls, Decoded
  <2> QED
    BY <2>3, <2>4, <2>5 DEF Sequence
<1>10. ASSUME NEW c \in 1..k PROVE Behind(o.functions[c], t.functions[n + c], n, m)
  BY <1>3, <1>6, <1>8
<1> QED
  BY <1>2, <1>6, <1>7, <1>8, <1>9, <1>10 DEF Joined

\* The arguments of t are those of s, and after them those of o, whose results
\* come n calls and whose variables m variables later.
JoinedUses(s, o, t, n, m) ==
  LET k == Len(o.functions)
  IN  /\ \A c \in 1..n :
           /\ Args(t, c) = Args(s, c)
           /\ \A p \in Args(s, c) :
                /\ Arg(t, c, p) = Arg(s, c, p)
                /\ MovesAt(t, c, p) <=> MovesAt(s, c, p)
                /\ MutBorrowsAt(t, c, p) <=> MutBorrowsAt(s, c, p)
                /\ ImmutBorrowsAt(t, c, p) <=> ImmutBorrowsAt(s, c, p)
                /\ \A j : UsesResult(t, c, p, j) <=> UsesResult(s, c, p, j)
                /\ \A v : UsesVariable(t, c, p, v) <=> UsesVariable(s, c, p, v)
      /\ \A c \in 1..k :
           /\ Args(t, n + c) = Args(o, c)
           /\ \A p \in Args(o, c) :
                /\ Arg(t, n + c, p).kind = Arg(o, c, p).kind
                /\ Arg(o, c, p).kind = "FunctionReturn" =>
                     Arg(t, n + c, p).index = Arg(o, c, p).index + n
                /\ Arg(o, c, p).kind = "FuzzableType" =>
                     Arg(t, n + c, p).index = Arg(o, c, p).index + m
                /\ MovesAt(t, n + c, p) <=> MovesAt(o, c, p)
                /\ MutBorrowsAt(t, n + c, p) <=> MutBorrowsAt(o, c, p)
                /\ ImmutBorrowsAt(t, n + c, p) <=> ImmutBorrowsAt(o, c, p)
                /\ \A j \in Nat : UsesResult(t, n + c, p, n + j) <=> UsesResult(o, c, p, j)
                /\ \A v \in Nat : UsesVariable(t, n + c, p, m + v) <=> UsesVariable(o, c, p, v)

\* The numbers in a sequence are natural numbers.
SequenceIndexes(s) ==
  \A c \in DOMAIN s.functions :
    /\ \A p \in Args(s, c) : Arg(s, c, p).index \in Nat
    /\ Args(s, c) \subseteq Nat

\* The indexes of arguments and results are numbers.
LEMMA SequenceIndexTypes ==
  ASSUME NEW s \in Sequence
  PROVE  SequenceIndexes(s)
<1>1. s.functions \in Seq(Calls)
  BY SequenceLists
<1> SUFFICES ASSUME NEW c \in DOMAIN s.functions
             PROVE  /\ \A p \in Args(s, c) : Arg(s, c, p).index \in Nat
                    /\ Args(s, c) \subseteq Nat
  BY DEF SequenceIndexes
<1>2. s.functions[c] \in Calls
  BY <1>1
<1> SUFFICES ASSUME NEW params, params = s.functions[c].params
             PROVE  DOMAIN params \subseteq Nat /\ \A p \in DOMAIN params : params[p].index \in Nat
  BY DEF Args, Arg
<1>3. params \in Seq(Param)
  BY <1>2 DEF Calls
<1>4. ASSUME NEW p \in DOMAIN params PROVE params[p] \in Param /\ p \in Nat
  BY <1>3
<1> QED
  BY <1>4 DEF Param

\* What the arguments of joined sequences use, move and borrow.
LEMMA JoinedArgs ==
  ASSUME NEW s \in Sequence, NEW o \in Sequence, NEW t, NEW n, NEW m, Joined(s, o, t, n, m)
  PROVE  JoinedUses(s, o, t, n, m)
<1> SUFFICES ASSUME NEW k, k = Len(o.functions) PROVE JoinedUses(s, o, t, n, m)
  OBVIOUS
<1>1. /\ n \in Nat /\ m \in Nat /\ k \in Nat
      /\ DOMAIN o.functions = 1..k
      /\ \A c \in 1..n : t.functions[c] = s.functions[c]
      /\ \A c \in 1..k : Behind(o.functions[c], t.functions[n + c], n, m)
  BY DEF Joined
<1>2. ASSUME NEW c \in 1..n
      PROVE  /\ Args(t, c) = Args(s, c)
             /\ \A p \in Args(s, c) :
                  /\ Arg(t, c, p) = Arg(s, c, p)
                  /\ MovesAt(t, c, p) <=> MovesAt(s, c, p)
                  /\ MutBorrowsAt(t, c, p) <=> MutBorrowsAt(s, c, p)
                  /\ ImmutBorrowsAt(t, c, p) <=> ImmutBorrowsAt(s, c, p)
                  /\ \A j : UsesResult(t, c, p, j) <=> UsesResult(s, c, p, j)
                  /\ \A v : UsesVariable(t, c, p, v) <=> UsesVariable(s, c, p, v)
  <2>1. Args(t, c) = Args(s, c)
        /\ \A p : Arg(t, c, p) = Arg(s, c, p) /\ ArgType(t, c, p) = ArgType(s, c, p)
    BY <1>1 DEF Args, Arg, ArgType
  <2> QED
    BY <2>1 DEF MovesAt, MutBorrowsAt, ImmutBorrowsAt, UsesResult, UsesVariable
<1>3. ASSUME NEW c \in 1..k
      PROVE  /\ Args(t, n + c) = Args(o, c)
             /\ \A p \in Args(o, c) :
                  /\ Arg(t, n + c, p).kind = Arg(o, c, p).kind
                  /\ Arg(o, c, p).kind = "FunctionReturn" =>
                       Arg(t, n + c, p).index = Arg(o, c, p).index + n
                  /\ Arg(o, c, p).kind = "FuzzableType" =>
                       Arg(t, n + c, p).index = Arg(o, c, p).index + m
                  /\ MovesAt(t, n + c, p) <=> MovesAt(o, c, p)
                  /\ MutBorrowsAt(t, n + c, p) <=> MutBorrowsAt(o, c, p)
                  /\ ImmutBorrowsAt(t, n + c, p) <=> ImmutBorrowsAt(o, c, p)
                  /\ \A j \in Nat : UsesResult(t, n + c, p, n + j) <=> UsesResult(o, c, p, j)
                  /\ \A v \in Nat : UsesVariable(t, n + c, p, m + v) <=> UsesVariable(o, c, p, v)
  <2>1. Behind(o.functions[c], t.functions[n + c], n, m)
    BY <1>1
  <2>2. Args(t, n + c) = Args(o, c)
    BY <2>1 DEF Behind, Args
  <2>3. ASSUME NEW p \in Args(o, c)
        PROVE  /\ Arg(t, n + c, p).kind = Arg(o, c, p).kind
               /\ Arg(t, n + c, p).call_type = Arg(o, c, p).call_type
               /\ Arg(t, n + c, p).index = Arg(o, c, p).index +
                    (IF Arg(o, c, p).kind = "FuzzableType" THEN m ELSE n)
               /\ ArgType(t, n + c, p) = ArgType(o, c, p)
               /\ Arg(o, c, p).index \in Nat
    <3>1. Arg(o, c, p).index \in Nat
      BY <1>1, SequenceIndexTypes DEF SequenceIndexes
    <3> QED
      BY <2>1, <3>1 DEF Behind, Args, Arg, ArgType
  <2>4. ASSUME NEW p \in Args(o, c)
        PROVE  /\ MovesAt(t, n + c, p) <=> MovesAt(o, c, p)
               /\ MutBorrowsAt(t, n + c, p) <=> MutBorrowsAt(o, c, p)
               /\ ImmutBorrowsAt(t, n + c, p) <=> ImmutBorrowsAt(o, c, p)
    BY <2>3 DEF MovesAt, MutBorrowsAt, ImmutBorrowsAt
  <2>5. ASSUME NEW p \in Args(o, c), NEW j \in Nat
        PROVE  /\ UsesResult(t, n + c, p, n + j) <=> UsesResult(o, c, p, j)
               /\ UsesVariable(t, n + c, p, m + j) <=> UsesVariable(o, c, p, j)
    BY <1>1, <2>3 DEF UsesResult, UsesVariable
  <2> QED
    BY <2>2, <2>3, <2>4, <2>5
<1> QED
  BY <1>2, <1>3 DEF JoinedUses

\* A call of the joined sequence belongs to one of the two, and so do the
\* results that it uses.
JoinedParts(s, o, t, n, k) ==
  /\ \A c \in 1..(n + k) : c \in 1..n \/ \E d \in 1..k : c = n + d
  /\ \A c \in 1..n : \A p \in Args(t, c) : \A j \in Nat :
       UsesResult(t, c, p, j) => j \in 1..n /\ j < c
  /\ \A d \in 1..k : \A p \in Args(t, n + d) : \A j \in Nat :
       UsesResult(t, n + d, p, j) =>
         \E i \in Nat : j = n + i /\ i \in 1..(d - 1) /\ UsesResult(o, d, p, i)

\* In a merged sequence no call of one part uses a result of the other.
LEMMA JoinedPartsSeparate ==
  ASSUME NEW s, Sound(s), NEW o, Sound(o), NEW t, NEW n, NEW m, Joined(s, o, t, n, m),
         JoinedUses(s, o, t, n, m), NEW k, k = Len(o.functions)
  PROVE  JoinedParts(s, o, t, n, k)
<1>1. /\ n \in Nat /\ k \in Nat /\ DOMAIN s.functions = 1..n /\ DOMAIN o.functions = 1..k
  BY DEF Joined
<1>2. NoUseAfterMoveIn(s) /\ NoUseAfterMoveIn(o) /\ SequenceIndexes(s) /\ SequenceIndexes(o)
  BY SequenceIndexTypes DEF Sound
<1>3. ASSUME NEW c \in 1..(n + k), c \notin 1..n PROVE \E d \in 1..k : c = n + d
  <2>1. c - n \in 1..k /\ c = n + (c - n)
    BY <1>1, <1>3
  <2> QED
    BY <2>1
<1>4. ASSUME NEW c \in 1..n, NEW p \in Args(t, c), NEW j \in Nat, UsesResult(t, c, p, j)
      PROVE  j \in 1..n /\ j < c
  <2>1. p \in Args(s, c) /\ UsesResult(s, c, p, j)
    BY <1>4 DEF JoinedUses
  <2>2. j \in 1..(c - 1)
    BY <1>1, <1>2, <2>1 DEF NoUseAfterMoveIn, UsesResult
  <2> QED
    BY <1>1, <2>2
<1>5. ASSUME NEW d \in 1..k, NEW p \in Args(t, n + d), NEW j \in Nat, UsesResult(t, n + d, p, j)
      PROVE  \E i \in Nat : j = n + i /\ i \in 1..(d - 1) /\ UsesResult(o, d, p, i)
  <2>1. /\ p \in Args(o, d) /\ Arg(o, d, p).kind = "FunctionReturn"
        /\ j = Arg(o, d, p).index + n /\ Arg(o, d, p).index \in Nat
    BY <1>1, <1>2, <1>5 DEF JoinedUses, UsesResult, SequenceIndexes
  <2>2. Arg(o, d, p).index \in 1..(d - 1)
    BY <1>1, <1>2, <2>1 DEF NoUseAfterMoveIn
  <2>3. UsesResult(o, d, p, Arg(o, d, p).index)
    BY <2>1 DEF UsesResult
  <2> QED
    BY <1>1, <2>1, <2>2, <2>3
<1> QED
  BY <1>3, <1>4, <1>5 DEF JoinedParts

\* A result moved in one part is not used in that part any more, and never in
\* the other one.
LEMMA JoinKeepsNoUseAfterMove ==
  ASSUME NEW s, Sound(s), NEW o, Sound(o), NEW t, NEW n, NEW m, Joined(s, o, t, n, m),
         JoinedUses(s, o, t, n, m), NEW k, k = Len(o.functions), JoinedParts(s, o, t, n, k),
         SequenceIndexes(t)
  PROVE  NoUseAfterMoveIn(t)
<1>1. /\ n \in Nat /\ k \in Nat /\ DOMAIN s.functions = 1..n /\ DOMAIN o.functions = 1..k
      /\ DOMAIN t.functions = 1..(n + k)
  BY DEF Joined
<1>2. NoUseAfterMoveIn(s) /\ NoUseAfterMoveIn(o) /\ SequenceIndexes(s) /\ SequenceIndexes(o)
  BY SequenceIndexTypes DEF Sound
<1> SUFFICES ASSUME NEW c \in 1..(n + k), NEW p \in Args(t, c), NEW j \in Nat,
                    UsesResult(t, c, p, j)
             PROVE  /\ j \in 1..(c - 1)
                    /\ MovesAt(t, c, p) =>
                         \A e \in 1..(n + k) : \A q \in Args(t, e) :
                           Before(c, p, e, q) => ~UsesResult(t, e, q, j)
  BY <1>1 DEF NoUseAfterMoveIn, SequenceIndexes, UsesResult
<1>3. CASE c \in 1..n
  <2>1. p \in Args(s, c) /\ UsesResult(s, c, p, j) /\ j \in 1..n /\ j < c
    BY <1>3 DEF JoinedUses, JoinedParts
  <2>2. ASSUME MovesAt(t, c, p), NEW e \in 1..(n + k), NEW q \in Args(t, e),
               Before(c, p, e, q), UsesResult(t, e, q, j)
        PROVE  FALSE
    <3>1. MovesAt(s, c, p)
      BY <1>3, <2>1, <2>2 DEF JoinedUses
    <3>2. CASE e \in 1..n
      <4>1. q \in Args(s, e) /\ UsesResult(s, e, q, j)
        BY <2>2, <3>2 DEF JoinedUses
      <4> QED
        BY <1>1, <1>2, <1>3, <2>1, <2>2, <3>1, <3>2, <4>1 DEF NoUseAfterMoveIn, UsesResult
    <3>3. ASSUME NEW d \in 1..k, e = n + d PROVE FALSE
      <4>1. PICK i \in Nat : j = n + i /\ i \in 1..(d - 1)
        BY <2>2, <3>3 DEF JoinedParts
      <4> QED
        BY <1>1, <2>1, <4>1
    <3> QED
      BY <3>2, <3>3 DEF JoinedParts
  <2> QED
    BY <1>1, <2>1, <2>2
<1>4. ASSUME NEW d \in 1..k, c = n + d
      PROVE  /\ j \in 1..(c - 1)
             /\ MovesAt(t, c, p) =>
                  \A e \in 1..(n + k) : \A q \in Args(t, e) :
                    Before(c, p, e, q) => ~UsesResult(t, e, q, j)
  <2>1. PICK i \in Nat : j = n + i /\ i \in 1..(d - 1) /\ UsesResult(o, d, p, i)
    BY <1>4 DEF JoinedParts
  <2>2. p \in Args(o, d)
    BY <1>4 DEF JoinedUses
  <2>3. ASSUME MovesAt(t, c, p), NEW e \in 1..(n + k), NEW q \in Args(t, e),
               Before(c, p, e, q), UsesResult(t, e, q, j)
        PROVE  FALSE
    <3>1. MovesAt(o, d, p)
      BY <1>4, <2>2, <2>3 DEF JoinedUses
    <3>2. CASE e \in 1..n
      <4>1. j \in 1..n
        BY <2>3, <3>2 DEF JoinedParts
      <4> QED
        BY <1>1, <2>1, <4>1
    <3>3. ASSUME NEW x \in 1..k, e = n + x PROVE FALSE
      <4>1. PICK y \in Nat : j = n + y /\ UsesResult(o, x, q, y)
        BY <2>3, <3>3 DEF JoinedParts
      <4>2. y = i /\ q \in Args(o, x)
        BY <1>1, <2>1, <3>3, <4>1 DEF JoinedUses
      <4>3. Before(d, p, x, q)
        BY <1>1, <1>4, <2>3, <3>3 DEF Before
      <4> QED
        BY <1>1, <1>2, <2>1, <2>2, <3>1, <4>1, <4>2, <4>3 DEF NoUseAfterMoveIn, UsesResult
    <3> QED
      BY <3>2, <3>3 DEF JoinedParts
  <2> QED
    BY <1>1, <1>4, <2>1, <2>3
<1> QED
  BY <1>3, <1>4 DEF JoinedParts

\* Arguments of one call belong to one part.
LEMMA JoinKeepsExclusive ==
  ASSUME NEW s, Sound(s), NEW o, Sound(o), NEW t, NEW n, NEW m, Joined(s, o, t, n, m),
         JoinedUses(s, o, t, n, m), NEW k, k = Len(o.functions), JoinedParts(s, o, t, n, k),
         SequenceIndexes(t)
  PROVE  ExclusiveMutBorrowIn(t)
<1>1. /\ n \in Nat /\ k \in Nat /\ DOMAIN s.functions = 1..n /\ DOMAIN o.functions = 1..k
      /\ DOMAIN t.functions = 1..(n + k)
  BY DEF Joined
<1>2. ExclusiveMutBorrowIn(s) /\ ExclusiveMutBorrowIn(o)
  BY DEF Sound
<1> SUFFICES ASSUME NEW c \in 1..(n + k), NEW p \in Args(t, c), NEW q \in Args(t, c), p # q,
                    NEW j \in Nat, UsesResult(t, c, p, j), UsesResult(t, c, q, j),
                    MutBorrowsAt(t, c, p)
             PROVE  ~MovesAt(t, c, q) /\ ~MutBorrowsAt(t, c, q) /\ ~ImmutBorrowsAt(t, c, q)
  BY <1>1 DEF ExclusiveMutBorrowIn, SequenceIndexes, UsesResult
<1>3. CASE c \in 1..n
  <2>1. /\ p \in Args(s, c) /\ q \in Args(s, c) /\ UsesResult(s, c, p, j)
        /\ UsesResult(s, c, q, j) /\ MutBorrowsAt(s, c, p)
    BY <1>3 DEF JoinedUses
  <2>2. ~MovesAt(s, c, q) /\ ~MutBorrowsAt(s, c, q) /\ ~ImmutBorrowsAt(s, c, q)
    BY <1>1, <1>2, <1>3, <2>1 DEF ExclusiveMutBorrowIn, UsesResult
  <2> QED
    BY <1>3, <2>1, <2>2 DEF JoinedUses
<1>4. ASSUME NEW d \in 1..k, c = n + d
      PROVE  ~MovesAt(t, c, q) /\ ~MutBorrowsAt(t, c, q) /\ ~ImmutBorrowsAt(t, c, q)
  <2>1. PICK i \in Nat : j = n + i /\ UsesResult(o, d, p, i)
    BY <1>4 DEF JoinedParts
  <2>2. /\ p \in Args(o, d) /\ q \in Args(o, d) /\ UsesResult(o, d, q, i)
        /\ MutBorrowsAt(o, d, p)
    BY <1>4, <2>1 DEF JoinedUses
  <2>3. ~MovesAt(o, d, q) /\ ~MutBorrowsAt(o, d, q) /\ ~ImmutBorrowsAt(o, d, q)
    BY <1>1, <1>2, <2>1, <2>2 DEF ExclusiveMutBorrowIn, UsesResult
  <2> QED
    BY <1>4, <2>2, <2>3 DEF JoinedUses
<1> QED
  BY <1>3, <1>4 DEF JoinedParts

\* moved remembers the moves of both parts; the pairs speak of the first.
LEMMA JoinKeepsRecorded ==
  ASSUME NEW s, Sound(s), NEW o, Sound(o), NEW t, NEW n, NEW m, Joined(s, o, t, n, m),
         JoinedUses(s, o, t, n, m), NEW k, k = Len(o.functions), JoinedParts(s, o, t, n, k)
  PROVE  Recorded(t)
<1>1. /\ n \in Nat /\ k \in Nat /\ n = Len(s.functions)
      /\ DOMAIN s.functions = 1..n /\ DOMAIN o.functions = 1..k
      /\ DOMAIN t.functions = 1..(n + k) /\ Len(t.functions) = n + k
      /\ t.moved = s.moved \cup Shifted(o.moved, n) /\ t.careful_pairs = s.careful_pairs
  BY DEF Joined
<1>0. n \in Nat /\ k \in Nat
  BY <1>1
<1>2. Recorded(s) /\ Recorded(o)
  BY DEF Sound
<1>3. s.moved \subseteq 1..n /\ o.moved \subseteq 1..k
  BY <1>1, <1>2 DEF Recorded
<1>4. t.moved \subseteq 1..(n + k)
  <2>1. ASSUME NEW j \in o.moved PROVE j + n \in 1..(n + k)
    <3>1. j \in 1..k
      BY <1>3
    <3> QED
      BY <1>0, <3>1
  <2>2. Shifted(o.moved, n) \subseteq 1..(n + k)
    BY <2>1 DEF Shifted
  <2>3. 1..n \subseteq 1..(n + k)
    BY <1>0
  <2> QED
    BY <1>1, <1>3, <2>2, <2>3
<1>5. ASSUME NEW a \in Nat, NEW b \in Nat, <<a, b>> \in t.careful_pairs
      PROVE  a \in 1..n /\ b \in 1..n
  BY <1>1, <1>2, <1>5 DEF Recorded
<1>6. ASSUME NEW c \in 1..(n + k), NEW p \in Args(t, c), NEW j \in Nat,
             UsesResult(t, c, p, j), MovesAt(t, c, p)
      PROVE  j \in t.moved
  <2>1. CASE c \in 1..n
    <3>1. p \in Args(s, c) /\ UsesResult(s, c, p, j) /\ MovesAt(s, c, p)
      BY <1>6, <2>1 DEF JoinedUses
    <3>2. j \in s.moved
      BY <1>1, <1>2, <2>1, <3>1 DEF Recorded
    <3> QED
      BY <1>1, <3>2
  <2>2. ASSUME NEW d \in 1..k, c = n + d PROVE j \in t.moved
    <3>1. PICK i \in Nat : j = n + i /\ UsesResult(o, d, p, i)
      BY <1>6, <2>2 DEF JoinedParts
    <3>2. p \in Args(o, d) /\ MovesAt(o, d, p)
      BY <1>6, <2>2 DEF JoinedUses
    <3>3. i \in o.moved
      BY <1>1, <1>2, <3>1, <3>2 DEF Recorded
    <3> QED
      BY <1>1, <3>1, <3>3 DEF Shifted
  <2> QED
    BY <2>1, <2>2 DEF JoinedParts
<1>7. ASSUME NEW c \in 1..(n + k), NEW p \in Args(t, c), NEW a \in Nat, NEW b \in Nat,
             UsesResult(t, c, p, a), MovesAt(t, c, p) \/ MutBorrowsAt(t, c, p),
             b < c, <<a, b>> \in t.careful_pairs
      PROVE  b \in t.moved
  <2>1. CASE c \in 1..n
    <3>1. /\ p \in Args(s, c) /\ UsesResult(s, c, p, a)
          /\ MovesAt(s, c, p) \/ MutBorrowsAt(s, c, p)
      BY <1>7, <2>1 DEF JoinedUses
    <3>2. b \in s.moved
      BY <1>1, <1>2, <1>7, <2>1, <3>1 DEF Recorded
    <3> QED
      BY <1>1, <3>2
  <2>2. ASSUME NEW d \in 1..k, c = n + d PROVE FALSE
    <3>1. PICK i \in Nat : a = n + i /\ i \in 1..(d - 1)
      BY <1>7, <2>2 DEF JoinedParts
    <3> QED
      BY <1>1, <1>5, <1>7, <3>1
  <2> QED
    BY <2>1, <2>2 DEF JoinedParts
<1>8. ASSUME NEW a \in Nat, NEW b \in Nat, <<a, b>> \in t.careful_pairs
      PROVE  a \in 1..(n + k) /\ b \in 1..(n + k)
  <2>1. a \in 1..n /\ b \in 1..n
    BY <1>5, <1>8
  <2> QED
    BY <1>0, <2>1
<1> QED
  BY <1>1, <1>4, <1>6, <1>7, <1>8 DEF Recorded

\* A recorded reference and its owner are in the first part, and so is all that
\* uses them.
LEMMA JoinKeepsRecordedBorrows ==
  ASSUME NEW s, Sound(s), NEW o, Sound(o), NEW t \in Sequence, NEW n, NEW m,
         Joined(s, o, t, n, m), JoinedUses(s, o, t, n, m),
         NEW k, k = Len(o.functions), JoinedParts(s, o, t, n, k)
  PROVE  RecordedBorrowsEndIn(t)
<1>1. /\ n \in Nat /\ k \in Nat /\ n = Len(s.functions)
      /\ DOMAIN s.functions = 1..n /\ DOMAIN o.functions = 1..k
      /\ DOMAIN t.functions = 1..(n + k) /\ t.careful_pairs = s.careful_pairs
  BY DEF Joined
<1>2. Recorded(s) /\ RecordedBorrowsEndIn(s) /\ s.careful_pairs \subseteq Nat \X Nat
  BY DEF Sound, Sequence
<1> SUFFICES ASSUME NEW pair \in s.careful_pairs, NEW a, NEW b, a = pair[1], b = pair[2],
                    NEW c \in 1..(n + k), NEW p \in Args(t, c), c > b,
                    UsesResult(t, c, p, a), MovesAt(t, c, p) \/ MutBorrowsAt(t, c, p),
                    NEW e \in 1..(n + k), NEW q \in Args(t, e), Before(c, p, e, q),
                    UsesResult(t, e, q, b)
             PROVE  FALSE
  BY <1>1 DEF RecordedBorrowsEndIn, EndsBorrow
<1>3. /\ a \in Nat /\ b \in Nat /\ pair = <<a, b>>
  BY <1>2
<1>4. a \in 1..n /\ b \in 1..n
  BY <1>1, <1>2, <1>3 DEF Recorded
<1>5. c \in 1..n
  <2>1. ASSUME NEW d \in 1..k, c = n + d PROVE FALSE
    <3>1. PICK i \in Nat : a = n + i /\ i \in 1..(d - 1)
      BY <1>3, <2>1 DEF JoinedParts
    <3> QED
      BY <1>1, <1>4, <3>1
  <2> QED
    BY <2>1 DEF JoinedParts
<1>6. e \in 1..n
  <2>1. ASSUME NEW d \in 1..k, e = n + d PROVE FALSE
    <3>1. PICK i \in Nat : b = n + i /\ i \in 1..(d - 1)
      BY <1>3, <2>1 DEF JoinedParts
    <3> QED
      BY <1>1, <1>4, <3>1
  <2> QED
    BY <2>1 DEF JoinedParts
<1>7. /\ p \in Args(s, c) /\ UsesResult(s, c, p, a)
      /\ MovesAt(s, c, p) \/ MutBorrowsAt(s, c, p)
      /\ q \in Args(s, e) /\ UsesResult(s, e, q, b)
  BY <1>5, <1>6 DEF JoinedUses
<1> QED
  BY <1>1, <1>2, <1>5, <1>6, <1>7 DEF RecordedBorrowsEndIn, EndsBorrow

\* The variables of a part are used in that part.
JoinedVariables(s, o, t, n, m, k, l) ==
  /\ \A c \in 1..n : \A p \in Args(t, c) : \A v \in Nat :
       UsesVariable(t, c, p, v) => v \in 1..m
  /\ \A d \in 1..k : \A p \in Args(t, n + d) : \A v \in Nat :
       UsesVariable(t, n + d, p, v) =>
         \E i \in 1..l : v = m + i /\ UsesVariable(o, d, p, i)

\* In a merged sequence no call of one part reads a variable of the other.
LEMMA JoinedVariablesSeparate ==
  ASSUME NEW s, Sound(s), NEW o, Sound(o), NEW t, NEW n, NEW m, Joined(s, o, t, n, m),
         JoinedUses(s, o, t, n, m), NEW k, k = Len(o.functions),
         NEW l, l = Len(o.fuzzable_params)
  PROVE  JoinedVariables(s, o, t, n, m, k, l)
<1>1. /\ n \in Nat /\ k \in Nat /\ DOMAIN s.functions = 1..n /\ DOMAIN o.functions = 1..k
      /\ m \in Nat /\ l \in Nat
      /\ DOMAIN s.fuzzable_params = 1..m /\ DOMAIN o.fuzzable_params = 1..l
  BY DEF Joined
<1>2. FuzzablesUsedOnceIn(s) /\ FuzzablesUsedOnceIn(o) /\ SequenceIndexes(o)
  BY SequenceIndexTypes DEF Sound
<1>3. ASSUME NEW c \in 1..n, NEW p \in Args(t, c), NEW v \in Nat, UsesVariable(t, c, p, v)
      PROVE  v \in 1..m
  <2>1. p \in Args(s, c) /\ UsesVariable(s, c, p, v)
    BY <1>3 DEF JoinedUses
  <2> QED
    BY <1>1, <1>2, <2>1 DEF FuzzablesUsedOnceIn, UsesVariable
<1>4. ASSUME NEW d \in 1..k, NEW p \in Args(t, n + d), NEW v \in Nat,
             UsesVariable(t, n + d, p, v)
      PROVE  \E i \in 1..l : v = m + i /\ UsesVariable(o, d, p, i)
  <2>1. /\ p \in Args(o, d) /\ Arg(o, d, p).kind = "FuzzableType"
        /\ v = Arg(o, d, p).index + m /\ Arg(o, d, p).index \in Nat
    BY <1>1, <1>2, <1>4 DEF JoinedUses, UsesVariable, SequenceIndexes
  <2>2. Arg(o, d, p).index \in 1..l
    BY <1>1, <1>2, <2>1 DEF FuzzablesUsedOnceIn
  <2>3. UsesVariable(o, d, p, Arg(o, d, p).index)
    BY <2>1 DEF UsesVariable
  <2> QED
    BY <1>1, <2>1, <2>2, <2>3
<1> QED
  BY <1>3, <1>4 DEF JoinedVariables

\* The variables are still bound to one argument each.
LEMMA JoinKeepsFuzzables ==
  ASSUME NEW s, Sound(s), NEW o, Sound(o), NEW t, NEW n, NEW m, Joined(s, o, t, n, m),
         JoinedUses(s, o, t, n, m), NEW k, k = Len(o.functions), JoinedParts(s, o, t, n, k),
         SequenceIndexes(t)
  PROVE  FuzzablesUsedOnceIn(t)
<1> SUFFICES ASSUME NEW l, l = Len(o.fuzzable_params) PROVE FuzzablesUsedOnceIn(t)
  OBVIOUS
<1>1. /\ n \in Nat /\ k \in Nat /\ DOMAIN s.functions = 1..n /\ DOMAIN o.functions = 1..k
      /\ DOMAIN t.functions = 1..(n + k)
      /\ m \in Nat /\ l \in Nat
      /\ DOMAIN s.fuzzable_params = 1..m /\ DOMAIN o.fuzzable_params = 1..l
      /\ DOMAIN t.fuzzable_params = 1..(m + l)
  BY DEF Joined
<1>2. FuzzablesUsedOnceIn(s) /\ FuzzablesUsedOnceIn(o)
  BY DEF Sound
<1>3. JoinedVariables(s, o, t, n, m, k, l)
  BY JoinedVariablesSeparate
<1>4. ASSUME NEW c \in 1..(n + k), NEW p \in Args(t, c), Arg(t, c, p).kind = "FuzzableType"
      PROVE  Arg(t, c, p).index \in 1..(m + l)
  <2>1. UsesVariable(t, c, p, Arg(t, c, p).index) /\ Arg(t, c, p).index \in Nat
    BY <1>1, <1>4 DEF UsesVariable, SequenceIndexes
  <2>2. CASE c \in 1..n
    BY <1>1, <1>3, <2>1, <2>2 DEF JoinedVariables
  <2>3. ASSUME NEW d \in 1..k, c = n + d PROVE Arg(t, c, p).index \in 1..(m + l)
    <3>1. PICK i \in 1..l : Arg(t, c, p).index = m + i
      BY <1>3, <2>1, <2>3 DEF JoinedVariables
    <3> QED
      BY <1>1, <3>1
  <2> QED
    BY <2>2, <2>3 DEF JoinedParts
<1>5. ASSUME NEW v \in 1..m
      PROVE  \E c \in 1..(n + k) : \E p \in Args(t, c) :
               /\ UsesVariable(t, c, p, v)
               /\ \A d \in 1..(n + k) : \A q \in Args(t, d) :
                    UsesVariable(t, d, q, v) => d = c /\ q = p
  <2>1. PICK c \in 1..n : \E p \in Args(s, c) :
               /\ UsesVariable(s, c, p, v)
               /\ \A d \in 1..n : \A q \in Args(s, d) :
                    UsesVariable(s, d, q, v) => d = c /\ q = p
    BY <1>1, <1>2 DEF FuzzablesUsedOnceIn
  <2>2. PICK p \in Args(s, c) :
               /\ UsesVariable(s, c, p, v)
               /\ \A d \in 1..n : \A q \in Args(s, d) :
                    UsesVariable(s, d, q, v) => d = c /\ q = p
    BY <2>1
  <2>3. p \in Args(t, c) /\ UsesVariable(t, c, p, v) /\ c \in 1..(n + k)
    BY <1>1, <2>2 DEF JoinedUses
  <2>4. ASSUME NEW d \in 1..(n + k), NEW q \in Args(t, d), UsesVariable(t, d, q, v)
        PROVE  d = c /\ q = p
    <3>1. CASE d \in 1..n
      <4>1. q \in Args(s, d) /\ UsesVariable(s, d, q, v)
        BY <2>4, <3>1 DEF JoinedUses
      <4> QED
        BY <2>2, <3>1, <4>1
    <3>2. ASSUME NEW x \in 1..k, d = n + x PROVE FALSE
      <4>1. PICK i \in 1..l : v = m + i
        BY <1>1, <1>3, <2>4, <3>2 DEF JoinedVariables
      <4> QED
        BY <1>1, <4>1
    <3> QED
      BY <3>1, <3>2 DEF JoinedParts
  <2> QED
    BY <2>3, <2>4
<1>6. ASSUME NEW v \in 1..l
      PROVE  \E c \in 1..(n + k) : \E p \in Args(t, c) :
               /\ UsesVariable(t, c, p, m + v)
               /\ \A d \in 1..(n + k) : \A q \in Args(t, d) :
                    UsesVariable(t, d, q, m + v) => d = c /\ q = p
  <2>1. PICK c \in 1..k : \E p \in Args(o, c) :
               /\ UsesVariable(o, c, p, v)
               /\ \A d \in 1..k : \A q \in Args(o, d) :
                    UsesVariable(o, d, q, v) => d = c /\ q = p
    BY <1>1, <1>2 DEF FuzzablesUsedOnceIn
  <2>2. PICK p \in Args(o, c) :
               /\ UsesVariable(o, c, p, v)
               /\ \A d \in 1..k : \A q \in Args(o, d) :
                    UsesVariable(o, d, q, v) => d = c /\ q = p
    BY <2>1
  <2>0. v \in Nat /\ m + v \in Nat
    BY <1>1
  <2>3. p \in Args(t, n + c) /\ UsesVariable(t, n + c, p, m + v) /\ n + c \in 1..(n + k)
    BY <1>1, <2>0, <2>2 DEF JoinedUses
  <2>4. ASSUME NEW d \in 1..(n + k), NEW q \in Args(t, d), UsesVariable(t, d, q, m + v)
        PROVE  d = n + c /\ q = p
    <3>1. CASE d \in 1..n
      <4>1. m + v \in 1..m
        BY <1>3, <2>0, <2>4, <3>1 DEF JoinedVariables
      <4> QED
        BY <1>1, <4>1
    <3>2. ASSUME NEW x \in 1..k, d = n + x PROVE d = n + c /\ q = p
      <4>1. PICK i \in 1..l : m + v = m + i /\ UsesVariable(o, x, q, i)
        BY <1>3, <2>0, <2>4, <3>2 DEF JoinedVariables
      <4>2. i = v /\ q \in Args(o, x)
        BY <1>1, <2>4, <3>2, <4>1 DEF JoinedUses
      <4> QED
        BY <2>2, <3>2, <4>1, <4>2
    <3> QED
      BY <3>1, <3>2 DEF JoinedParts
  <2> QED
    BY <2>3, <2>4
<1>7. ASSUME NEW v \in 1..(m + l)
      PROVE  \E c \in 1..(n + k) : \E p \in Args(t, c) :
               /\ UsesVariable(t, c, p, v)
               /\ \A d \in 1..(n + k) : \A q \in Args(t, d) :
                    UsesVariable(t, d, q, v) => d = c /\ q = p
  <2>1. CASE v \in 1..m
    BY <1>5, <2>1
  <2>2. CASE v \notin 1..m
    <3>1. v - m \in 1..l /\ v = m + (v - m)
      BY <1>1, <2>2
    <3> QED
      BY <1>6, <3>1
  <2> QED
    BY <2>1, <2>2
<1> QED
  BY <1>1, <1>4, <1>7 DEF FuzzablesUsedOnceIn

\* One sequence after the other keeps the rules if both do.
LEMMA MergeKeepsSound ==
  ASSUME NEW s, Sound(s), NEW o, Sound(o), NEW t, t = MergeAnotherSequence(s, o)
  PROVE  Sound(t) /\ Joined(s, o, t, Len(s.functions), Len(s.fuzzable_params))
<1> SUFFICES ASSUME NEW n, n = Len(s.functions), NEW m, m = Len(s.fuzzable_params),
                    NEW k, k = Len(o.functions)
             PROVE  Sound(t) /\ Joined(s, o, t, n, m)
  OBVIOUS
<1>1. s \in Sequence /\ o \in Sequence
  BY DEF Sound
<1>2. t \in Sequence /\ Joined(s, o, t, n, m)
  BY <1>1, MergeJoins
<1>3. JoinedUses(s, o, t, n, m)
  BY <1>1, <1>2, JoinedArgs
<1>4. JoinedParts(s, o, t, n, k)
  BY <1>2, <1>3, JoinedPartsSeparate
<1>5. SequenceIndexes(t)
  BY <1>2, SequenceIndexTypes
<1>6. Recorded(t)
  BY <1>2, <1>3, <1>4, JoinKeepsRecorded
<1>7. NoUseAfterMoveIn(t)
  BY <1>2, <1>3, <1>4, <1>5, JoinKeepsNoUseAfterMove
<1>8. ExclusiveMutBorrowIn(t)
  BY <1>2, <1>3, <1>4, <1>5, JoinKeepsExclusive
<1>9. RecordedBorrowsEndIn(t)
  BY <1>2, <1>3, <1>4, JoinKeepsRecordedBorrows
<1>10. FuzzablesUsedOnceIn(t)
  BY <1>2, <1>3, <1>4, <1>5, JoinKeepsFuzzables
<1> QED
  BY <1>2, <1>6, <1>7, <1>8, <1>9, <1>10 DEF Sound

-----------------------------------------------------------------------------
(***************************************************************************)
(* _merge_sequences.                                                       *)
(***************************************************************************)

\* g has the values in S of a loop, before and after each of its m iterations.
LoopOf(g, S, m, first, step) ==
  /\ g \in [0..m -> S]
  /\ g[0] = first
  /\ \A n \in 1..m : g[n] = step[<<n, g[n - 1]>>]

\* A loop exists, whatever an iteration makes of the value before it.
LEMMA LoopExists ==
  ASSUME NEW S, NEW m \in Nat, NEW first \in S, NEW step \in [(1..m) \X S -> S]
  PROVE  \E g : LoopOf(g, S, m, first, step)
<1> DEFINE IsLoop(g, i) == /\ g \in [0..i -> S] /\ g[0] = first
                           /\ \A n \in 1..i : g[n] = step[<<n, g[n - 1]>>]
           T == {i \in Nat : i <= m => \E g : IsLoop(g, i)}
<1>1. 0 \in T
  <2> DEFINE g == [n \in 0..0 |-> first]
  <2>1. IsLoop(g, 0)
    OBVIOUS
  <2> QED
    BY <2>1
<1>2. ASSUME NEW i \in T PROVE i + 1 \in T
  <2> SUFFICES ASSUME i + 1 <= m PROVE \E g : IsLoop(g, i + 1)
    OBVIOUS
  <2>0. i \in Nat /\ i <= m
    OBVIOUS
  <2>1. PICK g : IsLoop(g, i)
    BY <2>0
  <2>2. /\ g \in [0..i -> S] /\ g[0] = first
        /\ \A n \in 1..i : g[n] = step[<<n, g[n - 1]>>]
    BY <2>1
  <2> DEFINE h == [n \in 0..(i + 1) |-> IF n = i + 1 THEN step[<<i + 1, g[i]>>] ELSE g[n]]
  <2>3. g[i] \in S /\ i + 1 \in 1..m
    BY <2>0, <2>2
  <2>4. step[<<i + 1, g[i]>>] \in S
    BY <2>3
  <2>5. h \in [0..(i + 1) -> S] /\ h[0] = first
    BY <2>0, <2>2, <2>4
  <2>6. ASSUME NEW n \in 1..(i + 1) PROVE h[n] = step[<<n, h[n - 1]>>]
    <3>1. CASE n = i + 1
      <4>1. n - 1 = i /\ i \in 0..(i + 1) /\ i # i + 1
        BY <2>0, <3>1
      <4>2. h[i] = g[i] /\ h[n] = step[<<i + 1, g[i]>>]
        BY <2>0, <3>1, <4>1
      <4> QED
        BY <3>1, <4>1, <4>2
    <3>2. CASE n \in 1..i
      <4>1. /\ n \in 0..(i + 1) /\ n # i + 1
            /\ n - 1 \in 0..(i + 1) /\ n - 1 # i + 1
        BY <2>0, <3>2
      <4>2. h[n] = g[n] /\ h[n - 1] = g[n - 1]
        BY <4>1
      <4> QED
        BY <2>2, <3>2, <4>2
    <3> QED
      BY <2>0, <3>1, <3>2
  <2> HIDE DEF h
  <2>7. IsLoop(h, i + 1)
    BY <2>5, <2>6
  <2> HIDE DEF IsLoop
  <2> QED
    BY <2>7
<1>3. T = Nat
  <2> HIDE DEF T
  <2>1. T \in SUBSET Nat
    BY DEF T
  <2> QED
    BY <1>1, <1>2, <2>1, Induction
<1>4. \E g : IsLoop(g, m)
  <2> HIDE DEF IsLoop
  <2>1. m \in T /\ m <= m
    BY <1>3
  <2> QED
    BY <2>1
<1> QED
  BY <1>4 DEF LoopOf

\* merged[n] is the first n sequences, one after the other.
MergeLoop(sequences, merged) ==
  /\ merged[0] = NewSequence
  /\ Len(sequences) > 0 => merged[1] = sequences[1]
  /\ \A n \in 2..Len(sequences) :
       merged[n] = MergeAnotherSequence(merged[n - 1], sequences[n])

\* The loop of _merge_sequences exists.
LEMMA MergeUnfold ==
  ASSUME NEW sequences, NEW m \in Nat, Len(sequences) = m,
         \A n \in 1..m : sequences[n] \in Sequence
  PROVE  \E merged : MergeLoop(sequences, merged) /\ MergeSequences(sequences) = merged[m]
<1> DEFINE Body(n, g) == CASE n = 0 -> NewSequence
                           [] n = 1 -> sequences[1]
                           [] OTHER -> MergeAnotherSequence(g[n - 1], sequences[n])
           IsLoop(g) == g = [n \in 0..m |-> Body(n, g)]
           loop == CHOOSE g : IsLoop(g)
<1>1. MergeSequences(sequences) = loop[m]
  BY DEF MergeSequences
<1> DEFINE step == [x \in (1..m) \X Sequence |->
                      IF x[1] = 1 THEN sequences[1]
                      ELSE MergeAnotherSequence(x[2], sequences[x[1]])]
<1>2. ASSUME NEW x \in (1..m) \X Sequence PROVE step[x] \in Sequence
  <2>1. x[1] \in 1..m /\ x[2] \in Sequence /\ sequences[x[1]] \in Sequence
    OBVIOUS
  <2>2. MergeAnotherSequence(x[2], sequences[x[1]]) \in Sequence
    BY <2>1, MergeJoins
  <2> QED
    BY <2>1, <2>2
<1>3. step \in [(1..m) \X Sequence -> Sequence]
  BY <1>2
<1>4. ASSUME NEW n \in 1..m, NEW y \in Sequence
      PROVE  step[<<n, y>>] = IF n = 1 THEN sequences[1]
                              ELSE MergeAnotherSequence(y, sequences[n])
  OBVIOUS
<1> HIDE DEF step
<1>50. PICK g : LoopOf(g, Sequence, m, NewSequence, step)
  <2> HIDE DEF loop, IsLoop
  <2> QED
    BY <1>3, NewSequenceType, LoopExists
<1>5. /\ g \in [0..m -> Sequence] /\ g[0] = NewSequence
      /\ \A n \in 1..m : g[n] = step[<<n, g[n - 1]>>]
  BY <1>50 DEF LoopOf
<1>6. ASSUME NEW n \in 0..m PROVE g[n] = Body(n, g)
  <2>1. CASE n = 0
    BY <1>5, <2>1
  <2>2. CASE n # 0
    <3>1. n \in 1..m /\ n - 1 \in 0..m /\ n # 0
      BY <2>2
    <3>2. g[n - 1] \in Sequence /\ g[n] = step[<<n, g[n - 1]>>]
      BY <1>5, <3>1
    <3>3. g[n] = IF n = 1 THEN sequences[1] ELSE MergeAnotherSequence(g[n - 1], sequences[n])
      BY <1>4, <3>1, <3>2
    <3> QED
      BY <3>1, <3>3
  <2> QED
    BY <2>1, <2>2
<1> HIDE DEF Body
<1>7. IsLoop(g)
  BY <1>5, <1>6
<1>8. IsLoop(loop)
  <2> HIDE DEF IsLoop
  <2> QED
    BY <1>7
<1> HIDE DEF loop
<1>9. ASSUME NEW n \in 0..m PROVE loop[n] = Body(n, loop)
  BY <1>8
<1>10. MergeLoop(sequences, loop)
  <2>1. loop[0] = NewSequence
    BY <1>9 DEF Body
  <2>2. ASSUME m > 0 PROVE loop[1] = sequences[1]
    BY <1>9, <2>2 DEF Body
  <2>3. ASSUME NEW n \in 2..m
        PROVE  loop[n] = MergeAnotherSequence(loop[n - 1], sequences[n])
    <3>1. n \in 0..m /\ n # 0 /\ n # 1
      OBVIOUS
    <3> QED
      BY <1>9, <3>1 DEF Body
  <2> QED
    BY <2>1, <2>2, <2>3 DEF MergeLoop
<1> QED
  BY <1>1, <1>10

-----------------------------------------------------------------------------
(***************************************************************************)
(* What holds of every sequence in the list.                               *)
(***************************************************************************)

\* s keeps the rules, reads no variable of two dynamic lengths, and the result
\* of its last call is still there.
Live(s) ==
  /\ Sound(s)
  /\ ~ContainsMultiDynamicLengthFuzzable(s)
  /\ Len(s.functions) \notin s.moved

\* The empty sequence is live.
LEMMA NewSequenceLive == Live(NewSequence)
  BY NewSequenceSound DEF Live, NewSequence, ContainsMultiDynamicLengthFuzzable

\* The loop over the parameters adds no variable of two dynamic lengths.
LEMMA FramesPlain ==
  ASSUME NEW s \in Sequence, Recorded(s), ~ContainsMultiDynamicLengthFuzzable(s),
         NEW f \in Funs, NEW n \in 0..Len(api_functions[f].inputs),
         NEW fr \in Frames(f, s)[n]
  PROVE  ~ContainsMultiDynamicLengthFuzzable(fr.new)
<1> DEFINE arity == Len(api_functions[f].inputs)
           Plain(g) == ~ContainsMultiDynamicLengthFuzzable(g.new)
           T == {m \in Nat : m <= arity => \A g \in Frames(f, s)[m] : Plain(g)}
<1>0. arity \in Nat
  BY ArityType
<1>1. 0 \in T
  BY FramesUnfold, NewFramePlain
<1>2. ASSUME NEW m \in T PROVE m + 1 \in T
  <2> SUFFICES ASSUME m + 1 <= arity, NEW g \in Frames(f, s)[m + 1] PROVE Plain(g)
    OBVIOUS
  <2>1. m \in Nat /\ m + 1 \in 1..arity /\ (m + 1) - 1 = m /\ m <= arity /\ m \in 0..arity
    BY <1>0
  <2>2. Frames(f, s)[m + 1] = UNION {NextParam(x) : x \in Frames(f, s)[m]}
    BY <2>1, FramesUnfold
  <2>3. PICK x \in Frames(f, s)[m] : g \in NextParam(x)
    BY <2>2
  <2>4. Plain(x)
    BY <2>1
  <2>5. LoopFrame(f, s, m, x)
    BY <2>1, FramesKeep
  <2>6. x \in Frame /\ x.fun = f /\ Len(x.params) = m
    BY <2>5 DEF LoopFrame
  <2>7. ParamIndex(x) \in DOMAIN Inputs(x)
    BY <2>1, <2>6, FunctionsAssumption DEF ParamIndex, Inputs
  <2> QED
    BY <2>3, <2>4, <2>6, <2>7, NextParamPlain
<1>3. T = Nat
  <2> HIDE DEF T
  <2>1. T \in SUBSET Nat
    BY DEF T
  <2> QED
    BY <1>1, <1>2, <2>1, Induction
<1>4. n \in T /\ n <= arity
  BY <1>0, <1>3
<1> QED
  BY <1>4

\* What is_fun_satisfied returns is live, even if the sequence it was given is
\* a merged one.
LEMMA AnswerLive ==
  ASSUME NEW s, Sound(s), ~ContainsMultiDynamicLengthFuzzable(s), NEW f \in Funs,
         NEW t \in IsFunSatisfied(f, s)
  PROVE  Live(t) /\ Extends(s, f, t)
<1> DEFINE arity == Len(api_functions[f].inputs)
<1>1. Sound(t) /\ Extends(s, f, t)
  BY IsFunSatisfiedSound
<1>2. PICK fr \in Frames(f, s)[arity] : t = Appended(fr)
  BY DEF IsFunSatisfied
<1>3. s \in Sequence /\ Recorded(s) /\ arity \in 0..arity
  BY ArityType DEF Sound
<1>4. ~ContainsMultiDynamicLengthFuzzable(fr.new)
  BY <1>3, FramesPlain
<1>5. fr \in Frame
  BY <1>3, FramesKeep DEF LoopFrame
<1>6. ~ContainsMultiDynamicLengthFuzzable(t)
  BY <1>2, <1>4, <1>5, AppendedPlain
<1>7. Len(t.functions) \notin t.moved
  BY <1>1 DEF Extends
<1> QED
  BY <1>1, <1>6, <1>7 DEF Live

-----------------------------------------------------------------------------
(***************************************************************************)
(* What _merge_sequences makes of live sequences.                          *)
(***************************************************************************)

\* t has the parts one after the other; part k ends with call ends[k], whose
\* result is still there.  The recorded references are those of the first part.
HasParts(t, parts, ends, m) ==
  /\ ends \in [1..m -> Nat]
  /\ \A k \in 1..m :
       /\ ends[k] \in 1..Len(t.functions)
       /\ ends[k] \notin t.moved
       /\ t.functions[ends[k]].func = Last(parts[k].functions).func
  /\ \A k, l \in 1..m : k < l => ends[k] < ends[l]
  /\ \A a, b \in Nat : <<a, b>> \in t.careful_pairs => m > 0 /\ b <= ends[1]

\* The parts to put together.
Parts(parts, m) ==
  \A k \in 1..m : Live(parts[k]) /\ parts[k].functions # <<>>

\* Merged sequences keep the rules.
Merge(t) == Sound(t) /\ ~ContainsMultiDynamicLengthFuzzable(t)

\* Two sequences without a variable of two dynamic lengths have none together.
LEMMA MergePlain ==
  ASSUME NEW s, NEW o, NEW t, NEW n, NEW m, Joined(s, o, t, n, m),
         ~ContainsMultiDynamicLengthFuzzable(s), ~ContainsMultiDynamicLengthFuzzable(o)
  PROVE  ~ContainsMultiDynamicLengthFuzzable(t)
<1> SUFFICES ASSUME NEW l, l = Len(o.fuzzable_params)
             PROVE  ~ContainsMultiDynamicLengthFuzzable(t)
  OBVIOUS
<1>1. /\ m \in Nat /\ l \in Nat
      /\ DOMAIN s.fuzzable_params = 1..m /\ DOMAIN o.fuzzable_params = 1..l
      /\ DOMAIN t.fuzzable_params = 1..(m + l)
      /\ \A v \in 1..m : t.fuzzable_params[v] = s.fuzzable_params[v]
      /\ \A v \in 1..l : t.fuzzable_params[m + v] = o.fuzzable_params[v]
  BY DEF Joined
<1> SUFFICES ASSUME NEW v \in 1..(m + l), IsMultipleDynamicLength(t.fuzzable_params[v])
             PROVE  FALSE
  BY <1>1 DEF ContainsMultiDynamicLengthFuzzable
<1>2. CASE v \in 1..m
  BY <1>1, <1>2 DEF ContainsMultiDynamicLengthFuzzable
<1>3. CASE v \notin 1..m
  <2>1. v - m \in 1..l /\ v = m + (v - m)
    BY <1>1, <1>3
  <2>2. t.fuzzable_params[v] = o.fuzzable_params[v - m]
    BY <1>1, <2>1
  <2> QED
    BY <1>1, <2>1, <2>2 DEF ContainsMultiDynamicLengthFuzzable
<1> QED
  BY <1>2, <1>3

\* The first part.
LEMMA FirstPart ==
  ASSUME NEW parts, Live(parts[1]), parts[1].functions # <<>>,
         NEW ends, ends \in [1..1 -> Nat], ends[1] = Len(parts[1].functions)
  PROVE  HasParts(parts[1], parts, ends, 1)
<1> SUFFICES ASSUME NEW s, s = parts[1], NEW n, n = Len(s.functions)
             PROVE  HasParts(s, parts, ends, 1)
  OBVIOUS
<1>1. Sound(s) /\ n \notin s.moved /\ s.functions # <<>>
  BY DEF Live
<1>2. s.functions \in Seq(Calls) /\ s.careful_pairs \subseteq Nat \X Nat
  BY <1>1, SequenceLists DEF Sound, Sequence
<1>3. n \in Nat /\ n # 0 /\ s.functions[n] = Last(s.functions)
  BY <1>1, <1>2 DEF Last
<1>4. \A a, b \in Nat : <<a, b>> \in s.careful_pairs => b <= n
  BY <1>1, <1>3 DEF Sound, Recorded
<1> QED
  BY <1>1, <1>3, <1>4 DEF HasParts

\* One more part.
LEMMA NextPart ==
  ASSUME NEW s, NEW parts, NEW old, NEW m \in Nat, m > 0, Sound(s), HasParts(s, parts, old, m),
         NEW o, o = parts[m + 1], Live(o), o.functions # <<>>,
         NEW t, NEW n, NEW v, Joined(s, o, t, n, v),
         NEW ends, ends \in [1..(m + 1) -> Nat], ends[m + 1] = Len(t.functions),
         \A k \in 1..m : ends[k] = old[k]
  PROVE  HasParts(t, parts, ends, m + 1)
<1> SUFFICES ASSUME NEW l, l = Len(o.functions)
             PROVE  HasParts(t, parts, ends, m + 1)
  OBVIOUS
<1>1. /\ n \in Nat /\ l \in Nat /\ n = Len(s.functions) /\ Len(t.functions) = n + l
      /\ DOMAIN o.functions = 1..l
      /\ \A c \in 1..n : t.functions[c] = s.functions[c]
      /\ \A c \in 1..l : t.functions[n + c].func = o.functions[c].func
      /\ t.moved = s.moved \cup Shifted(o.moved, n)
      /\ t.careful_pairs = s.careful_pairs
  BY DEF Joined, Behind
<1>2. o.functions \in Seq(Calls) /\ Sound(o) /\ l \notin o.moved
  BY SequenceLists DEF Live, Sound
<1>3. l # 0 /\ o.functions[l] = Last(o.functions) /\ l \in 1..l
  BY <1>1, <1>2 DEF Last
<1>0. n \in Nat /\ l \in Nat /\ l # 0
  BY <1>1, <1>3
<1>4. /\ \A k \in 1..m : /\ old[k] \in 1..n /\ old[k] \notin s.moved
                         /\ s.functions[old[k]].func = Last(parts[k].functions).func
      /\ \A i, j \in 1..m : i < j => old[i] < old[j]
      /\ \A a, b \in Nat : <<a, b>> \in s.careful_pairs => b <= old[1]
  BY <1>1 DEF HasParts
<1>5. ASSUME NEW k \in 1..m
      PROVE  /\ ends[k] \in 1..Len(t.functions) /\ ends[k] \notin t.moved
             /\ t.functions[ends[k]].func = Last(parts[k].functions).func
  <2> SUFFICES ASSUME NEW x, x = old[k]
               PROVE  /\ x \in 1..Len(t.functions) /\ x \notin t.moved
                      /\ t.functions[x].func = Last(parts[k].functions).func
    OBVIOUS
  <2>1. x \in 1..n /\ x \notin s.moved /\ s.functions[x].func = Last(parts[k].functions).func
    BY <1>4
  <2>2. x \notin Shifted(o.moved, n)
    <3>1. o.moved \subseteq 1..l
      BY <1>2 DEF Sound, Recorded
    <3> QED
      BY <1>1, <2>1, <3>1 DEF Shifted
  <2>3. t.functions[x] = s.functions[x] /\ x \notin t.moved
    BY <1>1, <2>1, <2>2
  <2>4. x \in 1..(n + l)
    BY <1>0, <2>1
  <2> QED
    BY <1>1, <2>1, <2>3, <2>4
<1>6. /\ ends[m + 1] \in 1..Len(t.functions) /\ ends[m + 1] \notin t.moved
      /\ t.functions[ends[m + 1]].func = Last(parts[m + 1].functions).func
  <2>1. n + l \in 1..(n + l) /\ n + l > n
    BY <1>0
  <2>2. n + l \notin s.moved /\ n + l \notin Shifted(o.moved, n)
    <3>1. s.moved \subseteq 1..n /\ o.moved \subseteq Nat
      BY <1>1, <1>2 DEF Sound, Recorded, Sequence
    <3>2. n + l \notin s.moved
      BY <1>0, <2>1, <3>1
    <3>3. ASSUME NEW x \in o.moved, n + l = x + n PROVE FALSE
      <4>1. x \in Nat
        BY <3>1
      <4>2. x = l
        BY <1>0, <3>3, <4>1
      <4> QED
        BY <1>2, <4>2
    <3> QED
      BY <3>2, <3>3 DEF Shifted
  <2>3. t.functions[n + l].func = Last(o.functions).func
    BY <1>1, <1>3
  <2> QED
    BY <1>1, <2>1, <2>2, <2>3
<1>7. ASSUME NEW k \in 1..(m + 1)
      PROVE  /\ ends[k] \in 1..Len(t.functions) /\ ends[k] \notin t.moved
             /\ t.functions[ends[k]].func = Last(parts[k].functions).func
  <2>1. k \in 1..m \/ k = m + 1
    OBVIOUS
  <2> QED
    BY <1>5, <1>6, <2>1
<1>8. ASSUME NEW i \in 1..(m + 1), NEW j \in 1..(m + 1), i < j PROVE ends[i] < ends[j]
  <2>1. i \in 1..m /\ ends[i] = old[i] /\ old[i] \in 1..n
    BY <1>4, <1>8
  <2>2. CASE j = m + 1
    <3>1. ends[j] = n + l
      BY <1>1, <2>2
    <3> QED
      BY <1>0, <2>1, <3>1
  <2>3. CASE j \in 1..m
    BY <1>4, <1>8, <2>1, <2>3
  <2> QED
    BY <2>2, <2>3
<1>9. ends[1] = old[1] /\ m + 1 > 0
  OBVIOUS
<1> QED
  BY <1>1, <1>4, <1>7, <1>8, <1>9 DEF HasParts

\* All parts, one after the other.
LEMMA MergedParts ==
  ASSUME NEW parts, NEW m \in Nat, Len(parts) = m, Parts(parts, m)
  PROVE  \E ends : HasParts(MergeSequences(parts), parts, ends, m)
                   /\ Merge(MergeSequences(parts))
<1>1. \A k \in 1..m : Live(parts[k]) /\ parts[k].functions # <<>> /\ parts[k] \in Sequence
  BY DEF Parts, Live, Sound
<1>2. PICK merged : MergeLoop(parts, merged) /\ MergeSequences(parts) = merged[m]
  BY <1>1, MergeUnfold
<1> DEFINE Done(i) == \E ends : HasParts(merged[i], parts, ends, i) /\ Merge(merged[i])
           T == {i \in Nat : i <= m => Done(i)}
<1>3. Done(0)
  <2> DEFINE ends == [k \in 1..0 |-> 0]
  <2>1. merged[0] = NewSequence
    BY <1>2 DEF MergeLoop
  <2>2. Merge(NewSequence)
    BY NewSequenceLive DEF Live, Merge
  <2>3. NewSequence.careful_pairs = {}
    BY DEF NewSequence
  <2>4. HasParts(NewSequence, parts, ends, 0)
    BY <2>3 DEF HasParts
  <2> HIDE DEF ends
  <2> QED
    BY <2>1, <2>2, <2>4
<1>4. ASSUME m >= 1 PROVE Done(1)
  <2> DEFINE ends == [k \in 1..1 |-> Len(parts[1].functions)]
  <2>1. merged[1] = parts[1]
    BY <1>2, <1>4 DEF MergeLoop
  <2>2. Live(parts[1]) /\ parts[1].functions # <<>> /\ parts[1].functions \in Seq(Calls)
    BY <1>1, <1>4, SequenceLists
  <2>3. ends \in [1..1 -> Nat] /\ ends[1] = Len(parts[1].functions)
    BY <2>2
  <2> HIDE DEF ends
  <2>4. HasParts(parts[1], parts, ends, 1) /\ Merge(parts[1])
    BY <2>2, <2>3, FirstPart DEF Merge, Live
  <2> QED
    BY <2>1, <2>4
<1>5. ASSUME NEW i \in T PROVE i + 1 \in T
  <2> SUFFICES ASSUME i + 1 <= m PROVE Done(i + 1)
    OBVIOUS
  <2>0. i \in Nat /\ i <= m /\ Done(i)
    OBVIOUS
  <2>1. CASE i = 0
    BY <1>4, <2>1
  <2>2. CASE i # 0
    <3>1. i + 1 \in 2..m /\ (i + 1) - 1 = i /\ i + 1 \in 1..m /\ i > 0
      BY <2>0, <2>2
    <3>2. PICK old : HasParts(merged[i], parts, old, i) /\ Merge(merged[i])
      BY <2>0
    <3> DEFINE s == merged[i]
               o == parts[i + 1]
               t == merged[i + 1]
               ends == [k \in 1..(i + 1) |-> IF k = i + 1 THEN Len(t.functions) ELSE old[k]]
    <3>3. t = MergeAnotherSequence(s, o)
      BY <1>2, <3>1 DEF MergeLoop
    <3>4. Live(o) /\ o.functions # <<>>
      BY <1>1, <3>1
    <3> HIDE DEF s, t, o
    <3>5. /\ Sound(t) /\ Joined(s, o, t, Len(s.functions), Len(s.fuzzable_params))
          /\ ~ContainsMultiDynamicLengthFuzzable(s) /\ ~ContainsMultiDynamicLengthFuzzable(o)
      BY <3>2, <3>3, <3>4, MergeKeepsSound DEF Merge, Live, s
    <3>6. Merge(t)
      BY <3>5, MergePlain DEF Merge
    <3>7. /\ ends \in [1..(i + 1) -> Nat] /\ ends[i + 1] = Len(t.functions)
          /\ \A k \in 1..i : ends[k] = old[k]
      <4>1. old \in [1..i -> Nat] /\ Len(t.functions) \in Nat
        BY <3>2, <3>5, SequenceLists DEF HasParts, Sound
      <4>2. i + 1 \in 1..(i + 1) /\ \A k \in 1..i : k \in 1..(i + 1) /\ k # i + 1
        BY <2>0
      <4>3. \A k \in 1..(i + 1) : k # i + 1 => k \in 1..i
        BY <2>0
      <4> QED
        BY <4>1, <4>2, <4>3
    <3> HIDE DEF ends
    <3>8. HasParts(t, parts, ends, i + 1)
      BY <2>0, <3>1, <3>2, <3>4, <3>5, <3>7, NextPart DEF s, o, Merge
    <3> QED
      BY <3>6, <3>8 DEF t
  <2> QED
    BY <2>1, <2>2
<1>6. T = Nat
  <2> HIDE DEF T, Done
  <2>1. T \in SUBSET Nat
    BY DEF T
  <2> QED
    BY <1>3, <1>5, <2>1, Induction DEF T
<1>7. Done(m)
  <2> HIDE DEF Done
  <2>1. m \in T /\ m <= m
    BY <1>6
  <2> QED
    BY <2>1
<1> QED
  BY <1>2, <1>7

-----------------------------------------------------------------------------
(***************************************************************************)
(* The merged sequence takes the function it was put together for.         *)
(***************************************************************************)

\* rp lists the parameters of f, up to the i-th, that need a result.
Picks(f, rp, i) ==
  /\ rp \in Seq(Nat)
  /\ \A k \in DOMAIN rp : rp[k] \in 1..i /\ ~IsFuzzableType(api_functions[f].inputs[rp[k]])
  /\ \A j \in 1..i : ~IsFuzzableType(api_functions[f].inputs[j]) => \E k \in DOMAIN rp : rp[k] = j
  /\ \A k, l \in DOMAIN rp : k < l => rp[k] < rp[l]

\* One more parameter that needs a result.
LEMMA PicksNext ==
  ASSUME NEW f, NEW i \in Nat, NEW rp, Picks(f, rp, i), NEW q,
         q = IF IsFuzzableType(api_functions[f].inputs[i + 1]) THEN rp ELSE Append(rp, i + 1)
  PROVE  Picks(f, q, i + 1)
<1> DEFINE Need(j) == ~IsFuzzableType(api_functions[f].inputs[j])
<1>1. /\ rp \in Seq(Nat)
      /\ \A k \in DOMAIN rp : rp[k] \in 1..i /\ Need(rp[k])
      /\ \A j \in 1..i : Need(j) => \E k \in DOMAIN rp : rp[k] = j
      /\ \A k, l \in DOMAIN rp : k < l => rp[k] < rp[l]
  BY DEF Picks
<1>2. /\ \A j \in 1..i : j \in 1..(i + 1) /\ j < i + 1
      /\ \A j \in 1..(i + 1) : j = i + 1 \/ j \in 1..i
      /\ i + 1 \in 1..(i + 1) /\ i + 1 \in Nat
  OBVIOUS
<1>3. CASE ~Need(i + 1)
  <2>1. q = rp
    BY <1>3
  <2> HIDE DEF Need
  <2>2. \A k \in DOMAIN q : q[k] \in 1..(i + 1) /\ Need(q[k])
    BY <1>1, <1>2, <2>1
  <2>3. \A j \in 1..(i + 1) : Need(j) => \E k \in DOMAIN q : q[k] = j
    BY <1>1, <1>2, <1>3, <2>1
  <2> QED
    BY <1>1, <2>1, <2>2, <2>3 DEF Picks, Need
<1>4. CASE Need(i + 1)
  <2>1. q = Append(rp, i + 1)
    BY <1>4
  <2> HIDE DEF Need
  <2> DEFINE last == Len(rp) + 1
  <2>2. /\ q \in Seq(Nat) /\ DOMAIN q = DOMAIN rp \cup {last} /\ q[last] = i + 1
        /\ \A k \in DOMAIN rp : q[k] = rp[k] /\ k < last /\ k \in Nat
        /\ last \in Nat
    BY <1>1, <1>2, <2>1
  <2> HIDE DEF last
  <2>3. \A k \in DOMAIN q : q[k] \in 1..(i + 1) /\ Need(q[k])
    BY <1>1, <1>2, <1>4, <2>2
  <2>4. ASSUME NEW j \in 1..(i + 1), Need(j) PROVE \E k \in DOMAIN q : q[k] = j
    <3>1. CASE j = i + 1
      BY <2>2, <3>1
    <3>2. CASE j \in 1..i
      <4>1. PICK k \in DOMAIN rp : rp[k] = j
        BY <1>1, <2>4, <3>2
      <4> QED
        BY <2>2, <4>1
    <3> QED
      BY <1>2, <3>1, <3>2
  <2>5. ASSUME NEW k \in DOMAIN q, NEW l \in DOMAIN q, k < l PROVE q[k] < q[l]
    <3>1. k \in DOMAIN rp
      BY <2>2, <2>5
    <3>2. CASE l = last
      BY <1>1, <1>2, <2>2, <3>1, <3>2
    <3>3. CASE l \in DOMAIN rp
      BY <1>1, <2>2, <2>5, <3>1, <3>3
    <3> QED
      BY <2>2, <3>2, <3>3
  <2> QED
    BY <2>2, <2>3, <2>4, <2>5 DEF Picks, Need
<1> QED
  BY <1>3, <1>4

\* The parameters that need a result, in their order.
LEMMA ResultParamsPicked ==
  ASSUME NEW f \in Funs
  PROVE  Picks(f, ResultParams(f), Len(api_functions[f].inputs))
<1> DEFINE inputs == api_functions[f].inputs
           m == Len(inputs)
           Body(n, g) == IF n = 0 THEN <<>>
                         ELSE IF IsFuzzableType(inputs[n]) THEN g[n - 1]
                         ELSE Append(g[n - 1], n)
           IsLoop(g) == g = [n \in 0..m |-> Body(n, g)]
           loop == CHOOSE g : IsLoop(g)
<1>0. m \in Nat
  BY ArityType
<1>1. ResultParams(f) = loop[m]
  BY DEF ResultParams
<1> DEFINE step == [x \in (1..m) \X Seq(Nat) |->
                      IF IsFuzzableType(inputs[x[1]]) THEN x[2] ELSE Append(x[2], x[1])]
<1>2. ASSUME NEW x \in (1..m) \X Seq(Nat) PROVE step[x] \in Seq(Nat)
  <2>1. x[1] \in Nat /\ x[2] \in Seq(Nat)
    OBVIOUS
  <2>2. Append(x[2], x[1]) \in Seq(Nat)
    BY <2>1
  <2> QED
    BY <2>1, <2>2
<1>3. step \in [(1..m) \X Seq(Nat) -> Seq(Nat)]
  BY <1>2
<1>4. ASSUME NEW n \in 1..m, NEW y \in Seq(Nat)
      PROVE  step[<<n, y>>] = IF IsFuzzableType(inputs[n]) THEN y ELSE Append(y, n)
  OBVIOUS
<1> HIDE DEF step, inputs, m
<1>50. PICK g : LoopOf(g, Seq(Nat), m, <<>>, step)
  <2> HIDE DEF loop, IsLoop
  <2>1. <<>> \in Seq(Nat)
    OBVIOUS
  <2> QED
    BY <1>0, <1>3, <2>1, LoopExists
<1>5. /\ g \in [0..m -> Seq(Nat)] /\ g[0] = <<>>
      /\ \A n \in 1..m : g[n] = step[<<n, g[n - 1]>>]
  BY <1>50 DEF LoopOf
<1>6. ASSUME NEW n \in 0..m PROVE g[n] = Body(n, g)
  <2>1. CASE n = 0
    BY <1>5, <2>1
  <2>2. CASE n # 0
    <3>1. n \in 1..m /\ n - 1 \in 0..m /\ n # 0
      BY <1>0, <2>2
    <3>2. g[n - 1] \in Seq(Nat) /\ g[n] = step[<<n, g[n - 1]>>]
      BY <1>5, <3>1
    <3> QED
      BY <1>4, <3>1, <3>2
  <2> QED
    BY <2>1, <2>2
<1> HIDE DEF Body
<1>7. IsLoop(g)
  BY <1>5, <1>6
<1>8. IsLoop(loop)
  <2> HIDE DEF IsLoop
  <2> QED
    BY <1>7
<1> HIDE DEF loop
<1>9. ASSUME NEW n \in 0..m PROVE loop[n] = Body(n, loop)
  BY <1>8
<1> DEFINE T == {i \in Nat : i <= m => Picks(f, loop[i], i)}
<1>10. 0 \in T
  <2>1. loop[0] = <<>>
    BY <1>0, <1>9 DEF Body
  <2>2. <<>> \in Seq(Nat) /\ DOMAIN <<>> = {} /\ 1..0 = {}
    OBVIOUS
  <2>3. Picks(f, <<>>, 0)
    BY <2>2 DEF Picks
  <2> QED
    BY <2>1, <2>3
<1>11. ASSUME NEW i \in T PROVE i + 1 \in T
  <2> SUFFICES ASSUME i + 1 <= m PROVE Picks(f, loop[i + 1], i + 1)
    OBVIOUS
  <2>1. i \in Nat /\ i <= m /\ i + 1 \in 0..m /\ i + 1 # 0 /\ (i + 1) - 1 = i
    BY <1>0
  <2>2. Picks(f, loop[i], i)
    BY <2>1
  <2>3. loop[i + 1] = IF IsFuzzableType(inputs[i + 1]) THEN loop[i] ELSE Append(loop[i], i + 1)
    BY <1>9, <2>1 DEF Body
  <2> QED
    BY <2>1, <2>2, <2>3, PicksNext DEF inputs
<1>12. T = Nat
  <2> HIDE DEF T
  <2>1. T \in SUBSET Nat
    BY DEF T
  <2> QED
    BY <1>10, <1>11, <2>1, Induction
<1>13. m \in T /\ m <= m
  BY <1>0, <1>12
<1> QED
  BY <1>1, <1>13 DEF m, inputs

\* What the first i parameters of f have marked does not reach beyond the ends
\* of the parts that were meant for them.
Marked(fr, s, rp, ends, i) ==
  \A x \in Nat :
    /\ x \in fr.moved \ s.moved \/ x \in fr.multi_mut \/ x \in fr.immutable_borrow
    /\ x \in 1..Len(s.functions)
    => \E k \in DOMAIN rp : rp[k] <= i /\ x <= ends[k]

\* The call that part k ends with fits parameter rp[k].
EndsFit(f, s, rp, ends) ==
  \A k \in DOMAIN rp :
    DependencyIndexes(s.functions[ends[k]].func, f, rp[k]) # {}

\* A parameter that needs a result finds the one that is meant for it, at the
\* latest, and marks nothing behind it.
LEMMA FindsResult ==
  ASSUME NEW s \in Sequence, NEW f \in Funs, NEW i \in Nat, NEW fr, LoopFrame(f, s, i, fr),
         NEW parts, NEW ends, NEW rp \in Seq(Nat), NEW m, m = Len(rp),
         HasParts(s, parts, ends, m), EndsFit(f, s, rp, ends),
         \A k, l \in DOMAIN rp : k < l => rp[k] < rp[l],
         Marked(fr, s, rp, ends, i),
         NEW k \in DOMAIN rp, rp[k] = i + 1, ~IsFuzzableType(ParamType(fr))
  PROVE  \E g : NextParam(fr) = {g} /\ Marked(g, s, rp, ends, i + 1)
<1>1. /\ fr \in Frame /\ fr.fun = f /\ Len(fr.params) = i
      /\ FrameCopies(fr, s) /\ FrameRange(fr, s)
  BY DEF LoopFrame, FrameInv
<1>2. fr.new.functions = s.functions /\ s.moved \subseteq fr.moved
  BY <1>1 DEF FrameCopies
<1>3. m \in Nat /\ DOMAIN rp = 1..m /\ \A l \in DOMAIN rp : rp[l] \in Nat
  OBVIOUS
<1>4. /\ ends[k] \in 1..Len(s.functions) /\ ends[k] \notin s.moved
      /\ \A l \in 1..m : ends[l] \in 1..Len(s.functions)
      /\ \A l, n \in 1..m : l < n => ends[l] < ends[n]
      /\ \A a, b \in Nat : <<a, b>> \in s.careful_pairs => b <= ends[1]
  BY <1>3 DEF HasParts
<1>5. Len(s.functions) \in Nat /\ DOMAIN s.functions = 1..Len(s.functions)
  <2>1. s.functions \in Seq(Calls)
    BY SequenceLists
  <2> QED
    BY <2>1
<1>6. ends[k] \notin fr.moved /\ ends[k] \notin fr.multi_mut /\ ends[k] \notin fr.immutable_borrow
  <2> SUFFICES ASSUME ends[k] \in fr.moved \ s.moved \/ ends[k] \in fr.multi_mut
                      \/ ends[k] \in fr.immutable_borrow
               PROVE  FALSE
    BY <1>4
  <2>0. ends[k] \in Nat /\ ends[k] \in 1..Len(s.functions)
    BY <1>4, <1>5
  <2>1. PICK l \in DOMAIN rp : rp[l] <= i /\ ends[k] <= ends[l]
    <3> SUFFICES ASSUME NEW x, x = ends[k]
                 PROVE  \E l \in DOMAIN rp : rp[l] <= i /\ x <= ends[l]
      OBVIOUS
    <3> QED
      BY <2>0 DEF Marked
  <2>2. rp[l] < rp[k] /\ l \in 1..m /\ k \in 1..m /\ l \in Nat /\ k \in Nat
    BY <1>3, <2>1
  <2>3. l < k
    BY <1>3, <2>2
  <2>4. ends[l] < ends[k]
    BY <1>4, <2>2, <2>3
  <2>5. ends[l] \in Nat /\ ends[k] \in Nat
    BY <1>4, <1>5, <2>2
  <2> QED
    BY <2>1, <2>4, <2>5
<1>7. EdgeIndexes(fr, ends[k]) # {}
  BY <1>1, <1>2 DEF EdgeIndexes, ParamIndex, EndsFit
<1>8. ends[k] \in Usable(fr)
  BY <1>2, <1>4, <1>5, <1>6, <1>7 DEF Usable, Candidates, Conflicts
<1>9. Usable(fr) \in SUBSET Nat
  BY <1>2, <1>5 DEF Usable, Candidates
<1> DEFINE j == Min(Usable(fr))
<1>10. j \in Usable(fr) /\ j <= ends[k] /\ j \in Nat
  BY <1>8, <1>9, MinIsLeast
<1>11. FirstUsable(fr) = {j}
  BY <1>8 DEF FirstUsable
<1> HIDE DEF j
<1> DEFINE g == UseReturn(fr, j)
<1>12. NextParam(fr) = {g}
  BY <1>11 DEF NextParam
<1>13. Passes(fr, j, g)
  BY <1>1, <1>10, UseReturnPasses
<1> HIDE DEF g
<1>14. /\ g.moved \subseteq fr.moved \cup {j} \cup Borrowers(fr, j)
       /\ g.multi_mut \subseteq fr.multi_mut \cup {j}
       /\ g.immutable_borrow \subseteq fr.immutable_borrow \cup {j}
  BY <1>13 DEF Passes
<1>15. ASSUME NEW b \in Borrowers(fr, j), b \in 1..Len(s.functions) PROVE b <= ends[k]
  <2>1. fr.new.careful_pairs \subseteq Nat \X Nat
    BY <1>1 DEF Frame, Sequence
  <2>2. <<j, b>> \in fr.new.careful_pairs /\ b \in Nat
    BY <1>15, <2>1 DEF Borrowers
  <2>3. b # Len(s.functions) + 1
    BY <1>5, <1>15
  <2>4. <<j, b>> \in s.careful_pairs
    BY <1>1, <1>10, <2>2, <2>3 DEF FrameRange
  <2>5. b <= ends[1]
    BY <1>4, <1>10, <2>2, <2>4
  <2>6. 1 \in 1..m /\ k \in 1..m /\ (k = 1 \/ 1 < k)
    BY <1>3
  <2>7. ends[1] <= ends[k] /\ ends[1] \in Nat /\ ends[k] \in Nat
    BY <1>4, <1>5, <2>6
  <2> QED
    BY <2>2, <2>5, <2>7
<1>16. Marked(g, s, rp, ends, i + 1)
  <2> SUFFICES ASSUME NEW x \in Nat, x \in 1..Len(s.functions),
                      x \in g.moved \ s.moved \/ x \in g.multi_mut \/ x \in g.immutable_borrow
               PROVE  \E l \in DOMAIN rp : rp[l] <= i + 1 /\ x <= ends[l]
    BY DEF Marked
  <2>1. CASE x = j \/ x \in Borrowers(fr, j)
    <3>1. x <= ends[k] /\ rp[k] <= i + 1
      BY <1>10, <1>15, <2>1
    <3> QED
      BY <3>1
  <2>2. CASE x \in fr.moved \ s.moved \/ x \in fr.multi_mut \/ x \in fr.immutable_borrow
    <3>1. PICK l \in DOMAIN rp : rp[l] <= i /\ x <= ends[l]
      BY <2>2 DEF Marked
    <3>2. rp[l] <= i + 1
      BY <1>3, <3>1
    <3> QED
      BY <3>1, <3>2
  <2> QED
    BY <1>14, <2>1, <2>2
<1> QED
  BY <1>12, <1>16

\* A parameter that the fuzzer fills marks nothing.
LEMMA FindsDecoder ==
  ASSUME NEW s \in Sequence, NEW f \in Funs, NEW i \in Nat, NEW fr, LoopFrame(f, s, i, fr),
         NEW rp \in Seq(Nat), NEW ends, Marked(fr, s, rp, ends, i),
         i + 1 \in DOMAIN api_functions[f].inputs, IsFuzzableType(ParamType(fr))
  PROVE  \E g : NextParam(fr) = {g} /\ Marked(g, s, rp, ends, i + 1)
<1>1. fr \in Frame /\ fr.fun = f /\ Len(fr.params) = i
  BY DEF LoopFrame
<1>2. FuzzableArgument(fr).fuzzable_type # NoFuzzable
  BY <1>1, SupportedParam DEF FuzzableArgument, ParamType, Inputs, ParamIndex
<1> DEFINE g == PassFuzzable(fr)
<1>3. NextParam(fr) = {g}
  BY <1>2 DEF NextParam
<1>4. /\ g.moved = fr.moved /\ g.multi_mut = fr.multi_mut
      /\ g.immutable_borrow = fr.immutable_borrow
  BY <1>1 DEF PassFuzzable, Frame
<1> HIDE DEF g
<1>5. Marked(g, s, rp, ends, i + 1)
  <2> SUFFICES ASSUME NEW x \in Nat, x \in 1..Len(s.functions),
                      x \in g.moved \ s.moved \/ x \in g.multi_mut \/ x \in g.immutable_borrow
               PROVE  \E l \in DOMAIN rp : rp[l] <= i + 1 /\ x <= ends[l]
    BY DEF Marked
  <2>1. PICK l \in DOMAIN rp : rp[l] <= i /\ x <= ends[l]
    BY <1>4 DEF Marked
  <2>2. rp[l] \in Nat
    OBVIOUS
  <2>3. rp[l] <= i + 1
    BY <2>1, <2>2
  <2> QED
    BY <2>1, <2>3
<1> QED
  BY <1>3, <1>5

\* is_fun_satisfied finds an argument for every parameter of the function that
\* the parts were put together for.
LEMMA MergedIsSatisfied ==
  ASSUME NEW s, Merge(s), NEW f \in Funs, NEW rp, Picks(f, rp, Len(api_functions[f].inputs)),
         NEW parts, NEW ends, HasParts(s, parts, ends, Len(rp)), EndsFit(f, s, rp, ends)
  PROVE  IsFunSatisfied(f, s) # {}
<1> DEFINE arity == Len(api_functions[f].inputs)
           Found(i) == \E fr \in Frames(f, s)[i] : Marked(fr, s, rp, ends, i)
           T == {i \in Nat : i <= arity => Found(i)}
<1>0. arity \in Nat /\ DOMAIN api_functions[f].inputs = 1..arity
  BY ArityType, FunctionsAssumption
<1>1. s \in Sequence /\ Recorded(s)
  BY DEF Merge, Sound
<1>2. /\ rp \in Seq(Nat)
      /\ \A k, l \in DOMAIN rp : k < l => rp[k] < rp[l]
      /\ \A j \in 1..arity : ~IsFuzzableType(api_functions[f].inputs[j]) =>
           \E k \in DOMAIN rp : rp[k] = j
  BY DEF Picks
<1>3. Found(0)
  <2>1. NewFrame(s, f) \in Frames(f, s)[0]
    BY FramesUnfold
  <2>2. /\ NewFrame(s, f).moved = s.moved /\ NewFrame(s, f).multi_mut = {}
        /\ NewFrame(s, f).immutable_borrow = {}
    BY DEF NewFrame
  <2>3. Marked(NewFrame(s, f), s, rp, ends, 0)
    BY <2>2 DEF Marked
  <2> QED
    BY <2>1, <2>3
<1>4. ASSUME NEW i \in T PROVE i + 1 \in T
  <2> SUFFICES ASSUME i + 1 <= arity PROVE Found(i + 1)
    OBVIOUS
  <2>1. i \in Nat /\ i + 1 \in 1..arity /\ (i + 1) - 1 = i /\ i <= arity /\ i \in 0..arity
    BY <1>0
  <2>2. PICK fr \in Frames(f, s)[i] : Marked(fr, s, rp, ends, i)
    BY <2>1
  <2>3. LoopFrame(f, s, i, fr)
    BY <1>1, <2>1, FramesKeep
  <2>4. ParamType(fr) = api_functions[f].inputs[i + 1]
    BY <2>3 DEF LoopFrame, ParamType, Inputs, ParamIndex
  <2>5. \E g : NextParam(fr) = {g} /\ Marked(g, s, rp, ends, i + 1)
    <3>1. CASE IsFuzzableType(ParamType(fr))
      BY <1>0, <1>1, <1>2, <2>1, <2>2, <2>3, <3>1, FindsDecoder
    <3>2. CASE ~IsFuzzableType(ParamType(fr))
      <4>1. PICK k \in DOMAIN rp : rp[k] = i + 1
        BY <1>2, <2>1, <2>4, <3>2
      <4> QED
        BY <1>1, <1>2, <2>1, <2>2, <2>3, <3>2, <4>1, FindsResult
    <3> QED
      BY <3>1, <3>2
  <2>6. PICK g : NextParam(fr) = {g} /\ Marked(g, s, rp, ends, i + 1)
    BY <2>5
  <2>7. Frames(f, s)[i + 1] = UNION {NextParam(x) : x \in Frames(f, s)[i]}
    BY <2>1, FramesUnfold
  <2>8. g \in Frames(f, s)[i + 1]
    BY <2>2, <2>6, <2>7
  <2> QED
    BY <2>6, <2>8
<1>5. T = Nat
  <2> HIDE DEF T, Found
  <2>1. T \in SUBSET Nat
    BY DEF T
  <2> QED
    BY <1>3, <1>4, <2>1, Induction DEF T
<1>6. Found(arity)
  <2> HIDE DEF Found
  <2>1. arity \in T /\ arity <= arity
    BY <1>0, <1>5
  <2> QED
    BY <2>1
<1>7. PICK fr \in Frames(f, s)[arity] : TRUE
  BY <1>6
<1>8. arity \in 0..arity
  BY <1>0
<1>9. fr \in Frame /\ ~ContainsMultiDynamicLengthFuzzable(fr.new)
  BY <1>1, <1>8, FramesKeep, FramesPlain DEF LoopFrame, Merge
<1>10. ~Refused(fr)
  BY <1>9, AppendedPlain
<1>11. Appended(fr) \in IsFunSatisfied(f, s)
  BY <1>7, <1>10 DEF IsFunSatisfied
<1> QED
  BY <1>11

-----------------------------------------------------------------------------
(***************************************************************************)
(* The list of sequences.                                                  *)
(***************************************************************************)

\* Every sequence of the list is live, and candidate_sequences holds indexes of
\* sequences in the list that call something.
ListInv ==
  /\ api_sequences \in Seq(Sequence)
  /\ \A n \in DOMAIN api_sequences : Live(api_sequences[n])
  /\ candidate_sequences \subseteq
       {n \in DOMAIN api_sequences : api_sequences[n].functions # <<>>}
  /\ unvisited_nodes \subseteq Funs /\ nodes_left \subseteq unvisited_nodes
  /\ covered_node_this_iteration \subseteq Funs
  /\ pc = "start" => api_sequences = <<>> /\ candidate_sequences = {}
  /\ pc # "cover" => nodes_left = {}

\* A finite set of naturals contains its maximum.
LEMMA MaxIsGreatest ==
  ASSUME NEW n \in Nat, NEW S \in SUBSET (0..n), S # {}
  PROVE  Max(S) \in S /\ \A y \in S : y <= Max(S)
<1> DEFINE D == {n - x : x \in S}
<1>0. ASSUME NEW x \in S PROVE n - x \in Nat /\ x \in Nat
  OBVIOUS
<1>1. D \in SUBSET Nat /\ D # {}
  BY <1>0
<1>2. Min(D) \in D /\ \A y \in D : Min(D) <= y
  BY <1>1, MinIsLeast
<1>3. PICK x \in S : Min(D) = n - x
  BY <1>2
<1>4. ASSUME NEW y \in S PROVE x >= y
  <2>1. n - y \in D
    OBVIOUS
  <2> HIDE DEF D
  <2>2. n - x <= n - y
    BY <1>2, <1>3, <2>1
  <2> QED
    BY <2>2
<1>5. \E z \in S : \A y \in S : z >= y
  BY <1>4
<1>6. Max(S) \in S /\ \A y \in S : Max(S) >= y
  BY <1>5 DEF Max
<1>7. ASSUME NEW y \in S PROVE y <= Max(S)
  BY <1>6
<1> QED
  BY <1>6, <1>7

\* The sequence chosen for a parameter is one that fits.
LEMMA DependentFits ==
  ASSUME NEW candidates, candidates \subseteq DOMAIN api_sequences,
         api_sequences \in Seq(Sequence), NEW f, NEW i, Fitting(candidates, f, i) # {}
  PROVE  Dependent(candidates, f, i) \in Fitting(candidates, f, i)
<1> DEFINE n == Len(api_sequences)
           fitting == Fitting(candidates, f, i)
           fuzzed == {x \in fitting : ~HasNoFuzzables(api_sequences[x])}
<1>1. n \in Nat /\ DOMAIN api_sequences = 1..n
  OBVIOUS
<1>2. fitting \subseteq candidates
  BY DEF Fitting
<1>3. fitting \in SUBSET (0..n) /\ fitting \in SUBSET Nat /\ fitting # {}
  BY <1>1, <1>2
<1>4. fuzzed \subseteq fitting
  OBVIOUS
<1>5. Dependent(candidates, f, i) = IF fuzzed # {} THEN Min(fuzzed) ELSE Max(fitting)
  BY DEF Dependent
<1> HIDE DEF fitting, fuzzed, n
<1>6. Max(fitting) \in fitting
  BY <1>1, <1>3, MaxIsGreatest
<1>7. fuzzed # {} => Min(fuzzed) \in fuzzed
  BY <1>3, <1>4, MinIsLeast
<1> QED
  BY <1>4, <1>5, <1>6, <1>7 DEF fitting

\* The sequences chosen for all parameters can be merged, and the function is
\* appended to the result.
LEMMA CoveringSucceeds ==
  ASSUME ListInv, NEW candidates, NEW f \in Funs,
         candidates \subseteq {n \in DOMAIN api_sequences : api_sequences[n].functions # <<>>},
         CanBeCovered(candidates, f)
  PROVE  Merge(Merged(candidates, f)) /\ IsFunSatisfied(f, Merged(candidates, f)) # {}
<1> DEFINE rp == ResultParams(f)
           m == Len(rp)
           Chosen(k) == Dependent(candidates, f, rp[k])
           parts == [k \in DOMAIN rp |-> api_sequences[Chosen(k)]]
           s == MergeSequences(parts)
<1>1. Picks(f, rp, Len(api_functions[f].inputs))
  BY ResultParamsPicked
<1>2. m \in Nat /\ DOMAIN rp = 1..m
  BY <1>1 DEF Picks
<1>3. s = Merged(candidates, f)
  BY DEF Merged
<1> HIDE DEF rp, m
<1>4. ASSUME NEW k \in DOMAIN rp
      PROVE  /\ Chosen(k) \in DOMAIN api_sequences /\ api_sequences[Chosen(k)].functions # <<>>
             /\ DependencyIndexes(Last(api_sequences[Chosen(k)].functions).func, f, rp[k]) # {}
             /\ Live(api_sequences[Chosen(k)]) /\ api_sequences[Chosen(k)] \in Sequence
  <2>1. Fitting(candidates, f, rp[k]) # {}
    BY DEF CanBeCovered, rp
  <2>2. Chosen(k) \in Fitting(candidates, f, rp[k])
    BY <2>1, DependentFits DEF ListInv
  <2> QED
    BY <2>2 DEF Fitting, ListInv
<1> HIDE DEF Chosen
<1>5. parts \in [1..m -> Sequence] /\ parts \in Seq(Sequence) /\ Len(parts) = m
  <2>1. parts \in [1..m -> Sequence]
    BY <1>2, <1>4
  <2> QED
    BY <1>2, <2>1
<1>6. \A k \in 1..m : parts[k] = api_sequences[Chosen(k)]
  BY <1>2
<1> HIDE DEF parts
<1>7. Parts(parts, m)
  BY <1>2, <1>4, <1>6 DEF Parts
<1>8. PICK ends : HasParts(s, parts, ends, m) /\ Merge(s)
  BY <1>2, <1>5, <1>7, MergedParts
<1> HIDE DEF s
<1>9. EndsFit(f, s, rp, ends)
  <2> SUFFICES ASSUME NEW k \in DOMAIN rp
               PROVE  DependencyIndexes(s.functions[ends[k]].func, f, rp[k]) # {}
    BY DEF EndsFit
  <2>1. s.functions[ends[k]].func = Last(api_sequences[Chosen(k)].functions).func
    BY <1>2, <1>6, <1>8 DEF HasParts
  <2> QED
    BY <1>4, <2>1
<1>10. IsFunSatisfied(f, s) # {}
  BY <1>1, <1>8, <1>9, MergedIsSatisfied DEF m
<1> QED
  BY <1>3, <1>8, <1>10

\* What a step does to the list.
ListStep ==
  \/ pc = "start" /\ api_sequences' \in {<<>>, <<NewSequence>>}
  \/ \E new : Pushed(api_sequences, new, api_sequences') /\ \A t \in new : Live(t)

\* An answer of is_fun_satisfied is pushed.
LEMMA PushesLive ==
  ASSUME ListInv, NEW s, Merge(s), NEW f \in Funs,
         NEW new, new = IsFunSatisfied(f, s) \/ new = {},
         api_sequences' = api_sequences \o SetToSeq(new)
  PROVE  ListStep
<1>1. Pushed(api_sequences, new, api_sequences')
  BY PushesAnswer DEF ListInv, Merge
<1>2. \A t \in new : Live(t)
  BY AnswerLive DEF Merge
<1> QED
  BY <1>1, <1>2 DEF ListStep

\* A step that leaves the list alone.
LEMMA PushesNothing ==
  ASSUME UNCHANGED api_sequences
  PROVE  ListStep
<1>1. Pushed(api_sequences, {}, api_sequences')
  BY DEF Pushed
<1> QED
  BY <1>1 DEF ListStep

\* CoverNode pushes the answer for the merged sequence, or nothing.
LEMMA CoverNodeStep ==
  ASSUME ListInv, NEW f \in Funs, CoverNode(f)
  PROVE  /\ ListStep
         /\ CanBeCovered(candidate_sequences, f) => f \in api_functions_visited'
<1> DEFINE s == Merged(candidate_sequences, f)
<1>1. PICK new \in Covering(candidate_sequences, f) :
        /\ api_sequences' = api_sequences \o SetToSeq(new)
        /\ api_functions_visited' = api_functions_visited \cup (IF new = {} THEN {} ELSE {f})
  BY DEF CoverNode
<1>2. CASE CanBeCovered(candidate_sequences, f)
  <2>1. new = IsFunSatisfied(f, s)
    BY <1>1, <1>2 DEF Covering
  <2>2. Merge(s) /\ IsFunSatisfied(f, s) # {}
    BY <1>2, CoveringSucceeds DEF ListInv
  <2> HIDE DEF s
  <2>3. ListStep
    BY <1>1, <2>1, <2>2, PushesLive
  <2> QED
    BY <1>1, <2>1, <2>2, <2>3
<1>3. CASE ~CanBeCovered(candidate_sequences, f)
  <2>1. new = {}
    BY <1>1, <1>3 DEF Covering
  <2>2. Merge(NewSequence)
    BY NewSequenceLive DEF Live, Merge
  <2> QED
    BY <1>1, <1>3, <2>1, <2>2, PushesLive
<1> QED
  BY <1>2, <1>3

\* The actions of the two breadth-first searches push the answer for a sequence
\* of the list, or nothing.
LEMMA ExtendStep ==
  ASSUME ListInv, Extend \/ DeepExtend
  PROVE  ListStep
<1>1. ASSUME NEW n \in DOMAIN api_sequences PROVE Merge(api_sequences[n])
  BY DEF ListInv, Live, Merge
<1>2. CASE Extend
  <2>1. PICK n \in DOMAIN api_sequences, f \in Funs :
          \E new \in {IF Skip(f) THEN {} ELSE IsFunSatisfied(f, api_sequences[n])} :
            api_sequences' = api_sequences \o SetToSeq(new)
    BY <1>2 DEF Extend
  <2> QED
    BY <1>1, <2>1, PushesLive
<1>3. CASE DeepExtend
  <2>1. PICK n \in DOMAIN api_sequences, f \in Funs :
          \E new \in {IsFunSatisfied(f, api_sequences[n])} :
            api_sequences' = api_sequences \o SetToSeq(new)
    BY <1>3 DEF DeepExtend
  <2> QED
    BY <1>1, <2>1, PushesLive
<1> QED
  BY <1>2, <1>3

\* Every step grows the list by live sequences, or begins it.
LEMMA EveryListStep ==
  ASSUME ListInv, [Next]_vars
  PROVE  ListStep
<1>1. CASE Start
  <2>1. api_sequences' = api_sequences \/ api_sequences' = Append(api_sequences, NewSequence)
    BY <1>1 DEF Start
  <2>2. CASE api_sequences' = Append(api_sequences, NewSequence)
    <3>1. Pushed(api_sequences, {NewSequence}, api_sequences')
      BY <2>2 DEF Pushed
    <3> QED
      BY <3>1, NewSequenceLive DEF ListStep
  <2> QED
    BY <2>1, <2>2, PushesNothing
<1>2. CASE DeepStart \/ BackwardDirect
  BY <1>2 DEF DeepStart, BackwardDirect, ListStep
<1>3. CASE Collect \/ NextLen \/ Finish
  BY <1>3, PushesNothing DEF Collect, NextLen, Finish
<1>4. CASE DeepCollect \/ DeepNextLen \/ DeepStop
  BY <1>4, PushesNothing DEF DeepCollect, DeepNextLen, DeepStop
<1>5. CASE BackwardStart \/ BackwardRound \/ EndRound \/ BackwardDone
  BY <1>5, PushesNothing DEF BackwardStart, BackwardRound, EndRound, BackwardDone
<1>6. CASE ChoiceNext
  BY <1>6, PushesNothing DEF ChoiceNext, ChoiceStart, Choose, Switch, ChoiceEnd
<1>7. CASE Terminating \/ UNCHANGED vars
  BY <1>7, PushesNothing DEF Terminating, vars, bfs_vars
<1> QED
  BY <1>1, <1>2, <1>3, <1>4, <1>5, <1>6, <1>7, ExtendStep, CoverNodeStep
  DEF Next, BfsNext, DeepNext, BackwardNext

\* Each sequence keeps its index.
KeepsList ==
  /\ DOMAIN api_sequences \subseteq DOMAIN api_sequences'
  /\ \A n \in DOMAIN api_sequences : api_sequences'[n] = api_sequences[n]

\* After a step the list is one of live sequences, and it has not lost any.
LEMMA ListGrows ==
  ASSUME ListInv, ListStep
  PROVE  /\ api_sequences' \in Seq(Sequence)
         /\ \A n \in DOMAIN api_sequences' : Live(api_sequences'[n])
         /\ pc = "start" \/ KeepsList
<1>0. /\ api_sequences \in Seq(Sequence)
      /\ \A n \in DOMAIN api_sequences : Live(api_sequences[n])
  BY DEF ListInv
<1>1. CASE api_sequences' = <<>> /\ pc = "start"
  BY <1>1
<1>2. CASE api_sequences' = <<NewSequence>> /\ pc = "start"
  BY <1>2, NewSequenceLive, NewSequenceType
<1>3. CASE api_sequences' = api_sequences
  BY <1>0, <1>3 DEF KeepsList
<1>4. ASSUME NEW t, Live(t), api_sequences' = Append(api_sequences, t)
      PROVE  /\ api_sequences' \in Seq(Sequence)
             /\ \A n \in DOMAIN api_sequences' : Live(api_sequences'[n])
             /\ KeepsList
  <2>1. t \in Sequence
    BY <1>4 DEF Live, Sound
  <2>2. /\ api_sequences' \in Seq(Sequence)
        /\ DOMAIN api_sequences' = DOMAIN api_sequences \cup {Len(api_sequences) + 1}
        /\ \A n \in DOMAIN api_sequences : api_sequences'[n] = api_sequences[n]
        /\ api_sequences'[Len(api_sequences) + 1] = t
    BY <1>0, <1>4, <2>1
  <2> QED
    BY <1>0, <1>4, <2>2 DEF KeepsList
<1> QED
  BY <1>1, <1>2, <1>3, <1>4 DEF ListStep, Pushed

\* The invariant of the list holds at the beginning.
LEMMA ListInvInit == GenerationInit => ListInv
  BY DEF GenerationInit, Init, BackwardInit, ListInv

\* The steps keep the invariant of the list.
LEMMA ListInvNext ==
  ASSUME ListInv, [Next]_vars
  PROVE  ListInv'
<1>1. ListStep
  BY EveryListStep
<1>2. /\ api_sequences' \in Seq(Sequence)
      /\ \A n \in DOMAIN api_sequences' : Live(api_sequences'[n])
      /\ pc = "start" \/ KeepsList
  BY <1>1, ListGrows
<1>3. /\ candidate_sequences \subseteq
           {n \in DOMAIN api_sequences : api_sequences[n].functions # <<>>}
      /\ unvisited_nodes \subseteq Funs /\ nodes_left \subseteq unvisited_nodes
      /\ covered_node_this_iteration \subseteq Funs
      /\ pc = "start" => api_sequences = <<>> /\ candidate_sequences = {}
      /\ pc # "cover" => nodes_left = {}
  BY DEF ListInv
<1> DEFINE NonEmpty == {n \in DOMAIN api_sequences : api_sequences[n].functions # <<>>}
           Indexes == candidate_sequences' \subseteq
                        {n \in DOMAIN api_sequences' : api_sequences'[n].functions # <<>>}
           NodeSets == /\ unvisited_nodes' \subseteq Funs /\ nodes_left' \subseteq unvisited_nodes'
                       /\ covered_node_this_iteration' \subseteq Funs
           Begun == pc' = "start" => api_sequences' = <<>> /\ candidate_sequences' = {}
<1>4. ASSUME candidate_sequences' \subseteq NonEmpty, pc # "start" PROVE Indexes
  BY <1>2, <1>4 DEF KeepsList
<1>5. ASSUME UNCHANGED backward_vars PROVE Indexes /\ NodeSets
  BY <1>3, <1>4, <1>5 DEF backward_vars
<1>6. CASE pc = "start"
  <2>1. UNCHANGED backward_vars
    BY <1>6 DEF Next, BfsNext, Start, Collect, Extend, NextLen, Finish, DeepNext, DeepStart,
                DeepCollect, DeepExtend, DeepNextLen, DeepStop, BackwardNext, BackwardDirect,
                BackwardStart, BackwardRound, CoverNode, EndRound, BackwardDone, ChoiceNext,
                ChoiceStart, Choose, Switch, ChoiceEnd, Terminating, vars
  <2>2. candidate_sequences' = {}
    BY <1>3, <1>6, <2>1 DEF backward_vars
  <2>3. pc' # "start" \/ UNCHANGED vars
    BY <1>6 DEF Next, BfsNext, Start, AfterBfs, Collect, Extend, NextLen, Finish, DeepNext,
                DeepStart, DeepCollect, DeepExtend, DeepNextLen, DeepStop, BackwardNext,
                BackwardDirect, BackwardStart, BackwardRound, CoverNode, EndRound,
                BackwardDone, ChoiceNext, ChoiceStart, Choose, Switch, ChoiceEnd, Terminating
  <2>4. Begun
    BY <1>3, <1>6, <2>2, <2>3 DEF vars, bfs_vars
  <2>5. nodes_left' = {}
    BY <1>3, <1>6, <2>1 DEF backward_vars
  <2> QED
    BY <1>2, <1>5, <2>1, <2>4, <2>5 DEF ListInv
<1>7. CASE pc # "start"
  <2>1. pc' # "start"
    BY <1>7 DEF Next, BfsNext, Start, AfterBfs, Collect, Extend, NextLen, Finish, DeepNext,
                DeepStart, DeepCollect, DeepExtend, DeepNextLen, DeepStop, BackwardNext,
                BackwardDirect, BackwardStart, BackwardRound, CoverNode, EndRound,
                BackwardDone, ChoiceNext, ChoiceStart, Choose, Switch, ChoiceEnd, Terminating,
                vars, bfs_vars
  <2>2. CASE UNCHANGED backward_vars
    <3>1. pc' # "cover" => nodes_left' = {}
      BY <1>3, <2>2 DEF Next, BfsNext, Start, AfterBfs, Collect, Extend, NextLen, Finish,
                DeepNext, DeepStart, DeepCollect, DeepExtend, DeepNextLen, DeepStop,
                BackwardNext, BackwardDirect, BackwardStart, BackwardRound, CoverNode,
                EndRound, BackwardDone, ChoiceNext, ChoiceStart, Choose, Switch, ChoiceEnd,
                Terminating, vars, bfs_vars, backward_vars
    <3> QED
      BY <1>2, <1>5, <2>1, <2>2, <3>1 DEF ListInv
  <2>3. CASE BackwardStart
    <3>1. /\ unvisited_nodes' \subseteq Funs /\ pc = "backward"
          /\ UNCHANGED <<candidate_sequences, nodes_left, covered_node_this_iteration>>
      BY <2>3 DEF BackwardStart
    <3> QED
      BY <1>2, <1>3, <1>4, <1>7, <2>1, <3>1 DEF ListInv
  <2>4. CASE BackwardRound
    <3>1. candidate_sequences' \subseteq NonEmpty
      BY <2>4 DEF BackwardRound, ChooseCandidateSequenceForMerge
    <3> QED
      BY <1>2, <1>3, <1>4, <1>7, <2>1, <2>4, <3>1 DEF ListInv, BackwardRound
  <2>5. ASSUME NEW f \in Funs, CoverNode(f) PROVE ListInv'
    <3>1. /\ UNCHANGED <<candidate_sequences, unvisited_nodes>>
          /\ nodes_left' \subseteq nodes_left /\ pc' = "cover"
          /\ covered_node_this_iteration' \subseteq covered_node_this_iteration \cup {f}
      BY <2>5 DEF CoverNode
    <3> QED
      BY <1>2, <1>3, <1>4, <1>7, <2>1, <3>1 DEF ListInv
  <2>6. CASE EndRound
    <3>1. /\ UNCHANGED <<candidate_sequences, nodes_left, covered_node_this_iteration>>
          /\ nodes_left = {} /\ unvisited_nodes' \subseteq unvisited_nodes
      BY <2>6 DEF EndRound
    <3> QED
      BY <1>2, <1>3, <1>4, <1>7, <2>1, <3>1 DEF ListInv
  <2> QED
    BY <1>7, <2>2, <2>3, <2>4, <2>5, <2>6
    DEF Next, BackwardNext, BackwardDirect, BackwardDone, Terminating, vars
<1> QED
  BY <1>6, <1>7

\* Which search is at which place.
PcInv ==
  /\ pc = "start" => len = 0
  /\ pc \in {"collect", "extend"} => ByBfs
  /\ pc \in {"deep", "deepen"} => algorithm = "_TryDeepBfs"
  /\ pc \in {"backward", "round", "cover"} => algorithm \in {"default", "_DirectBackwardSearch"}

\* Each search keeps to its own places.
LEMMA PcAlways == Spec => []PcInv
<1>1. GenerationInit => PcInv
  BY DEF GenerationInit, Init, PcInv
<1>2. PcInv /\ [Next]_vars => PcInv'
  <2> SUFFICES ASSUME PcInv, [Next]_vars PROVE PcInv'
    OBVIOUS
  <2>1. CASE BfsNext
    BY <2>1 DEF PcInv, ByBfs, BfsNext, Start, AfterBfs, Collect, Extend, NextLen, Finish
  <2>2. CASE DeepNext
    BY <2>2 DEF PcInv, ByBfs, DeepNext, DeepStart, DeepCollect, DeepExtend, DeepNextLen, DeepStop
  <2>3. CASE BackwardNext
    BY <2>3 DEF PcInv, ByBfs, BackwardNext, BackwardDirect, BackwardStart, BackwardRound,
                CoverNode, EndRound, BackwardDone
  <2>4. CASE ChoiceNext
    BY <2>4 DEF PcInv, ByBfs, ChoiceNext, ChoiceStart, Choose, Switch, ChoiceEnd
  <2>5. CASE UNCHANGED vars
    BY <2>5 DEF PcInv, ByBfs, vars, bfs_vars
  <2> QED
    BY <2>1, <2>2, <2>3, <2>4, <2>5 DEF Next, Terminating
<1> QED
  BY <1>1, <1>2, PTL DEF Spec

\* The list is one of live sequences, always.
LEMMA ListAlways == Spec => []ListInv
<1>1. ListInv /\ [Next]_vars => ListInv'
  BY ListInvNext
<1> QED
  BY <1>1, ListInvInit, PTL DEF Spec

\* Merged sequences, like all that the searches append, obey the rules for
\* moves, mutable borrows and variables.
THEOREM MergedKeepRules == Spec => []MergedObeyRules
<1>1. ListInv => MergedObeyRules
  <2> SUFFICES ASSUME ListInv, api_sequences # <<>>
               PROVE  LET s == Last(api_sequences)
                      IN  NoUseAfterMoveIn(s) /\ ExclusiveMutBorrowIn(s) /\ FuzzablesUsedOnceIn(s)
    BY DEF MergedObeyRules, Newest
  <2>1. Len(api_sequences) \in DOMAIN api_sequences
    BY DEF ListInv
  <2>2. Sound(Last(api_sequences))
    BY <2>1 DEF ListInv, Live, Last
  <2> QED
    BY <2>2 DEF Sound
<1> QED
  BY <1>1, ListAlways, PTL

\* A recorded reference dies with its owner, in merged sequences, too.
THEOREM MergedBorrowsEnd == Spec => []RecordedBorrowsEnd
<1>1. ListInv => RecordedBorrowsEnd
  <2> SUFFICES ASSUME ListInv, api_sequences # <<>>
               PROVE  RecordedBorrowsEndIn(Last(api_sequences))
    BY DEF RecordedBorrowsEnd, Newest
  <2>1. Len(api_sequences) \in DOMAIN api_sequences
    BY DEF ListInv
  <2>2. Sound(Last(api_sequences))
    BY <2>1 DEF ListInv, Live, Last
  <2> QED
    BY <2>2 DEF Sound
<1> QED
  BY <1>1, ListAlways, PTL

\* "Should not go to here. Only if algorithm error occurs" is never printed:
\* every function that sequences were found for is appended to them.
THEOREM NeverAlgorithmError == Spec => NoAlgorithmError
<1>1. ListInv /\ [Next]_vars =>
        [\A f \in nodes_left \ nodes_left' :
           CanBeCovered(candidate_sequences, f) => f \in api_functions_visited']_nodes_left
  <2> SUFFICES ASSUME ListInv, [Next]_vars, NEW f \in nodes_left \ nodes_left',
                      CanBeCovered(candidate_sequences, f)
               PROVE  f \in api_functions_visited'
    OBVIOUS
  <2>1. f \in Funs
    BY DEF ListInv
  <2>2. nodes_left' # nodes_left
    OBVIOUS
  <2>3. \/ BackwardRound
        \/ \E g \in Funs : CoverNode(g)
    BY <2>2 DEF Next, BackwardNext, BackwardDirect, BackwardStart, EndRound, BackwardDone,
                Terminating, vars, backward_vars
  <2>4. CASE BackwardRound
    BY <2>4 DEF BackwardRound, ListInv
  <2>5. ASSUME NEW g \in Funs, CoverNode(g) PROVE f \in api_functions_visited'
    <3>1. f = g
      BY <2>5 DEF CoverNode
    <3> QED
      BY <2>5, <3>1, CoverNodeStep
  <2> QED
    BY <2>3, <2>4, <2>5
<1> QED
  BY <1>1, ListAlways, PTL DEF Spec, NoAlgorithmError

-----------------------------------------------------------------------------
(***************************************************************************)
(* The rounds of the backward search.                                      *)
(***************************************************************************)

\* There are rounds left for all functions that are not visited, and a round
\* that has covered nothing yet has found no sequences for what it tried.
RoundsInv ==
  /\ pc \in {"round", "cover"} => rounds \in Nat /\ Cardinality(unvisited_nodes) <= rounds
  /\ pc = "round" => unvisited_nodes = Funs \ api_functions_visited
  /\ pc = "cover" =>
       /\ covered_node_this_iteration \subseteq unvisited_nodes
       /\ unvisited_nodes \ covered_node_this_iteration = Funs \ api_functions_visited
  /\ pc = "cover" /\ covered_node_this_iteration = {} =>
       /\ candidate_sequences = ChooseCandidateSequenceForMerge
       /\ \A f \in unvisited_nodes \ nodes_left : ~CanBeCovered(candidate_sequences, f)
  /\ CoversAllItCan

\* Sets of functions are finite.
LEMMA FunsFinite ==
  ASSUME NEW S \in SUBSET Funs
  PROVE  IsFiniteSet(S) /\ Cardinality(S) \in Nat
<1>1. IsFiniteSet(Funs)
  BY FunctionsAssumption, FS_Interval
<1>2. IsFiniteSet(S)
  BY <1>1, FS_Subset
<1> QED
  BY <1>2, FS_CardinalityType

\* The rounds begin.
LEMMA BackwardStartRounds ==
  ASSUME RoundsInv, BackwardStart
  PROVE  RoundsInv'
<1>1. /\ pc' = "round" /\ unvisited_nodes' = Funs \ api_functions_visited
      /\ rounds' = Cardinality(unvisited_nodes') /\ UNCHANGED api_functions_visited
  BY DEF BackwardStart
<1>2. rounds' \in Nat /\ Cardinality(unvisited_nodes') <= rounds'
  BY <1>1, FunsFinite
<1> QED
  BY <1>1, <1>2 DEF RoundsInv, CoversAllItCan

\* A round begins with the candidates there are now.
LEMMA BackwardRoundRounds ==
  ASSUME RoundsInv, BackwardRound
  PROVE  RoundsInv'
<1>1. /\ pc = "round" /\ pc' = "cover" /\ candidate_sequences' = ChooseCandidateSequenceForMerge
      /\ covered_node_this_iteration' = {} /\ nodes_left' = unvisited_nodes
      /\ UNCHANGED <<api_sequences, api_functions_visited, unvisited_nodes, rounds>>
  BY DEF BackwardRound
<1>2. candidate_sequences' = ChooseCandidateSequenceForMerge'
  BY <1>1 DEF ChooseCandidateSequenceForMerge
<1>3. rounds \in Nat /\ Cardinality(unvisited_nodes) <= rounds
      /\ unvisited_nodes = Funs \ api_functions_visited
  BY <1>1 DEF RoundsInv
<1> QED
  BY <1>1, <1>2, <1>3 DEF RoundsInv, CoversAllItCan

\* A function is tried.
LEMMA CoverNodeRounds ==
  ASSUME ListInv, RoundsInv, NEW f \in Funs, CoverNode(f)
  PROVE  RoundsInv'
<1>1. /\ pc = "cover" /\ pc' = "cover" /\ f \in nodes_left /\ nodes_left' = nodes_left \ {f}
      /\ UNCHANGED <<unvisited_nodes, rounds, candidate_sequences>>
  BY DEF CoverNode
<1>2. PICK new \in Covering(candidate_sequences, f) :
        /\ api_sequences' = api_sequences \o SetToSeq(new)
        /\ api_functions_visited' = api_functions_visited \cup (IF new = {} THEN {} ELSE {f})
        /\ covered_node_this_iteration' =
             covered_node_this_iteration \cup (IF new = {} THEN {} ELSE {f})
  BY DEF CoverNode
<1>3. /\ rounds \in Nat /\ Cardinality(unvisited_nodes) <= rounds
      /\ covered_node_this_iteration \subseteq unvisited_nodes
      /\ unvisited_nodes \ covered_node_this_iteration = Funs \ api_functions_visited
      /\ f \in unvisited_nodes
  BY <1>1 DEF RoundsInv, ListInv
<1>4. /\ covered_node_this_iteration' \subseteq unvisited_nodes'
      /\ unvisited_nodes' \ covered_node_this_iteration' = Funs \ api_functions_visited'
  BY <1>1, <1>2, <1>3
<1>5. ASSUME covered_node_this_iteration' = {}
      PROVE  /\ candidate_sequences' = ChooseCandidateSequenceForMerge'
             /\ \A g \in unvisited_nodes' \ nodes_left' : ~CanBeCovered(candidate_sequences, g)'
  <2>1. new = {} /\ covered_node_this_iteration = {}
    BY <1>2, <1>5
  <2>2. api_sequences' = api_sequences /\ api_functions_visited' = api_functions_visited
    BY <1>2, <2>1, PushNone DEF ListInv
  <2>3. /\ candidate_sequences = ChooseCandidateSequenceForMerge
        /\ \A g \in unvisited_nodes \ nodes_left : ~CanBeCovered(candidate_sequences, g)
    BY <1>1, <2>1 DEF RoundsInv
  <2>4. ~CanBeCovered(candidate_sequences, f)
    <3>1. f \notin api_functions_visited
      BY <1>3, <2>1
    <3> QED
      BY <2>2, <3>1, CoverNodeStep
  <2>5. \A g \in unvisited_nodes' \ nodes_left' : ~CanBeCovered(candidate_sequences, g)
    BY <1>1, <2>3, <2>4
  <2>6. \A g : CanBeCovered(candidate_sequences, g)' <=> CanBeCovered(candidate_sequences, g)
    BY <1>1, <2>2 DEF CanBeCovered, Fitting
  <2>7. ChooseCandidateSequenceForMerge' = ChooseCandidateSequenceForMerge
    BY <2>2 DEF ChooseCandidateSequenceForMerge
  <2> QED
    BY <1>1, <2>3, <2>5, <2>6, <2>7
<1> QED
  BY <1>1, <1>3, <1>4, <1>5 DEF RoundsInv, CoversAllItCan

\* A round ends: either fewer functions are left, or it was the last.
LEMMA EndRoundRounds ==
  ASSUME ListInv, RoundsInv, EndRound
  PROVE  RoundsInv'
<1>1. /\ pc = "cover" /\ nodes_left = {}
      /\ UNCHANGED <<api_sequences, api_functions_visited, algorithm>>
  BY DEF EndRound
<1>2. /\ rounds \in Nat /\ Cardinality(unvisited_nodes) <= rounds
      /\ covered_node_this_iteration \subseteq unvisited_nodes
      /\ unvisited_nodes \ covered_node_this_iteration = Funs \ api_functions_visited
      /\ unvisited_nodes \subseteq Funs
  BY <1>1 DEF RoundsInv, ListInv
<1>3. CASE covered_node_this_iteration = {}
  <2>1. pc' = "done"
    BY <1>3 DEF EndRound
  <2>2. ASSUME NEW f \in Funs \ api_functions_visited
        PROVE  ~CanBeCovered(ChooseCandidateSequenceForMerge, f)
    BY <1>1, <1>2, <1>3 DEF RoundsInv
  <2>3. ASSUME NEW f \in Funs \ api_functions_visited'
        PROVE  ~CanBeCovered(ChooseCandidateSequenceForMerge, f)'
    <3>1. ~CanBeCovered(ChooseCandidateSequenceForMerge, f)
      BY <1>1, <2>2
    <3>2. ChooseCandidateSequenceForMerge' = ChooseCandidateSequenceForMerge
      BY <1>1 DEF ChooseCandidateSequenceForMerge
    <3> QED
      BY <1>1, <3>1, <3>2 DEF CanBeCovered, Fitting
  <2> QED
    BY <2>1, <2>3 DEF RoundsInv, CoversAllItCan
<1>4. CASE covered_node_this_iteration # {}
  <2>1. /\ pc' = "round" /\ rounds' = rounds - 1
        /\ unvisited_nodes' = unvisited_nodes \ covered_node_this_iteration
    BY <1>4 DEF EndRound
  <2> DEFINE left == unvisited_nodes \ covered_node_this_iteration
  <2>2. left \in SUBSET unvisited_nodes /\ left # unvisited_nodes /\ left \subseteq Funs
    BY <1>2, <1>4
  <2>3. /\ IsFiniteSet(unvisited_nodes) /\ Cardinality(unvisited_nodes) \in Nat
        /\ Cardinality(left) \in Nat
    BY <1>2, <2>2, FunsFinite
  <2>4. Cardinality(left) <= Cardinality(unvisited_nodes)
        /\ Cardinality(left) # Cardinality(unvisited_nodes)
    BY <2>2, <2>3, FS_Subset
  <2> HIDE DEF left
  <2>5. rounds - 1 \in Nat /\ Cardinality(left) <= rounds - 1
    BY <1>2, <2>3, <2>4
  <2> QED
    BY <1>1, <1>2, <2>1, <2>5 DEF RoundsInv, CoversAllItCan, left
<1> QED
  BY <1>3, <1>4

\* No round is left, and no function either.
LEMMA BackwardDoneRounds ==
  ASSUME ListInv, RoundsInv, BackwardDone
  PROVE  RoundsInv'
<1>1. pc = "round" /\ pc' = "done" /\ rounds = 0 /\ UNCHANGED api_functions_visited
  BY DEF BackwardDone
<1>2. /\ Cardinality(unvisited_nodes) <= 0 /\ unvisited_nodes = Funs \ api_functions_visited
      /\ unvisited_nodes \subseteq Funs
  BY <1>1 DEF RoundsInv, ListInv
<1>3. IsFiniteSet(unvisited_nodes) /\ Cardinality(unvisited_nodes) = 0
  BY <1>2, FunsFinite
<1>4. unvisited_nodes = {}
  BY <1>3, FS_EmptySet
<1> QED
  BY <1>1, <1>2, <1>4 DEF RoundsInv, CoversAllItCan

\* The other steps are not part of the backward search.
LEMMA OtherStepsRounds ==
  ASSUME PcInv, RoundsInv,
         \/ BfsNext /\ UNCHANGED backward_vars
         \/ DeepNext /\ UNCHANGED backward_vars
         \/ BackwardDirect
         \/ ChoiceNext /\ UNCHANGED backward_vars
         \/ UNCHANGED vars
  PROVE  RoundsInv'
<1>1. CASE BfsNext
  BY <1>1 DEF PcInv, RoundsInv, CoversAllItCan, ByBfs, AfterBfs, BfsNext, Start, Collect, Extend,
              NextLen, Finish
<1>2. CASE DeepNext
  BY <1>2 DEF PcInv, RoundsInv, CoversAllItCan, ByBfs, DeepNext, DeepStart, DeepCollect, DeepExtend,
              DeepNextLen, DeepStop
<1>3. CASE BackwardDirect
  BY <1>3 DEF RoundsInv, CoversAllItCan, BackwardDirect
<1>4. CASE ChoiceNext
  BY <1>4 DEF RoundsInv, CoversAllItCan, ChoiceNext, ChoiceStart, Choose, Switch, ChoiceEnd
<1>5. CASE UNCHANGED vars
  <2>1. UNCHANGED <<algorithm, pc, api_sequences, api_functions_visited, unvisited_nodes,
                    rounds, candidate_sequences, nodes_left, covered_node_this_iteration>>
    BY <1>5 DEF vars, bfs_vars, backward_vars
  <2>2. ChooseCandidateSequenceForMerge' = ChooseCandidateSequenceForMerge
    BY <2>1 DEF ChooseCandidateSequenceForMerge
  <2>3. \A f : /\ CanBeCovered(candidate_sequences, f)' <=> CanBeCovered(candidate_sequences, f)
               /\ CanBeCovered(ChooseCandidateSequenceForMerge, f)'
                    <=> CanBeCovered(ChooseCandidateSequenceForMerge, f)
    BY <2>1, <2>2 DEF CanBeCovered, Fitting
  <2> QED
    BY <2>1, <2>2, <2>3 DEF RoundsInv, CoversAllItCan, ByBfs
<1> QED
  BY <1>1, <1>2, <1>3, <1>4, <1>5

\* The rounds of the backward search are enough: when it ends, no function is
\* left that sequences of the list could be put together for.
THEOREM BackwardCoversAll == Spec => []CoversAllItCan
<1>1. GenerationInit => RoundsInv
  BY DEF GenerationInit, Init, RoundsInv, CoversAllItCan
<1>2. ListInv /\ PcInv /\ RoundsInv /\ [Next]_vars => RoundsInv'
  <2> SUFFICES ASSUME ListInv, PcInv, RoundsInv, [Next]_vars PROVE RoundsInv'
    OBVIOUS
  <2> QED
    BY BackwardStartRounds, BackwardRoundRounds, CoverNodeRounds, EndRoundRounds,
       BackwardDoneRounds, OtherStepsRounds
    DEF Next, BackwardNext, Terminating
<1>3. RoundsInv => CoversAllItCan
  BY DEF RoundsInv
<1> QED
  BY <1>1, <1>2, <1>3, ListAlways, PcAlways, PTL DEF Spec

-----------------------------------------------------------------------------
(***************************************************************************)
(* The breadth-first search.                                               *)
(***************************************************************************)

\* Function f has been tried on sequence n.
Tried(n, f) ==
  \/ Len(api_sequences[n].functions) < len
  \/ pc = "extend" /\ Len(api_sequences[n].functions) = len /\ <<n, f>> \notin todo

\* Sequence n is what is_fun_satisfied returned for sequence m and function f.
ExtensionOf(n, m, f) ==
  /\ MayBeExtended(api_sequences[m]) /\ Tried(m, f)
  /\ api_sequences[n] \in IsFunSatisfied(f, api_sequences[m])

\* What todo holds can be tried, and every sequence but the first extends one.
Grows ==
  /\ MaxLen > 0 /\ len \in Nat /\ 1 \in DOMAIN api_sequences /\ api_sequences[1] = NewSequence
  /\ pc = "extend" => \A n, f : <<n, f>> \in todo =>
       /\ n \in DOMAIN api_sequences /\ f \in Funs
       /\ MayBeExtended(api_sequences[n]) /\ Len(api_sequences[n].functions) = len
  /\ \A n \in DOMAIN api_sequences \ {1} :
       \E m \in DOMAIN api_sequences : \E f \in Funs : ExtensionOf(n, m, f)

\* No two sequences have the same calls.
Distinct ==
  \A m, n \in DOMAIN api_sequences :
    m # n => api_sequences[m].functions # api_sequences[n].functions

\* What has been tried is in the list, unless the fast mode skipped it.
Complete ==
  \A n \in DOMAIN api_sequences : \A f \in Funs :
    MayBeExtended(api_sequences[n]) /\ Tried(n, f) =>
      \/ IsFunSatisfied(f, api_sequences[n]) \subseteq Range(api_sequences)
      \/ fast_mode /\ f \in api_functions_visited

\* In the fast mode each visited function ends one sequence at most.
Once ==
  fast_mode =>
    /\ \A n \in DOMAIN api_sequences \ {1} :
         Last(api_sequences[n].functions).func \in api_functions_visited
    /\ \A m, n \in DOMAIN api_sequences \ {1} :
         m # n => Last(api_sequences[m].functions).func # Last(api_sequences[n].functions).func

BfsInv ==
  /\ pc \in {"collect", "extend"} => ByBfs /\ Grows /\ Distinct /\ Complete /\ Once
  /\ Exhaustive

\* What is_fun_satisfied returns for a live sequence.
LEMMA ExtensionCalls ==
  ASSUME NEW s, Live(s), NEW f \in Funs, NEW t \in IsFunSatisfied(f, s)
  PROVE  /\ Live(t) /\ Extends(s, f, t)
         /\ Len(s.functions) \in Nat /\ Len(t.functions) = Len(s.functions) + 1
         /\ Last(t.functions).func = f /\ t.functions # <<>>
<1>1. Live(t) /\ Extends(s, f, t)
  BY AnswerLive DEF Live
<1>2. t.functions \in Seq(Calls) /\ s.functions \in Seq(Calls)
  BY <1>1, SequenceLists DEF Live, Sound
<1>3. Len(t.functions) = Len(s.functions) + 1 /\ t.functions[Len(s.functions) + 1].func = f
      /\ Len(s.functions) \in Nat
  BY <1>1 DEF Extends
<1> QED
  BY <1>1, <1>2, <1>3 DEF Last

\* Extensions with the same calls extend the same calls by the same function.
LEMMA ExtensionsDiffer ==
  ASSUME NEW s, Live(s), NEW f \in Funs, NEW t \in IsFunSatisfied(f, s),
         NEW r, Live(r), NEW g \in Funs, NEW u \in IsFunSatisfied(g, r),
         t.functions = u.functions
  PROVE  s.functions = r.functions /\ f = g
<1> DEFINE n == Len(s.functions)
<1>1. Extends(s, f, t) /\ Extends(r, g, u) /\ Len(s.functions) = Len(r.functions) /\ n \in Nat
  BY ExtensionCalls
<1>2. s.functions \in Seq(Calls) /\ r.functions \in Seq(Calls)
  BY SequenceLists DEF Live, Sound
<1>3. ASSUME NEW c \in 1..n PROVE s.functions[c] = r.functions[c]
  BY <1>1 DEF Extends
<1>4. f = g
  BY <1>1 DEF Extends
<1>5. s.functions = r.functions
  BY <1>1, <1>2, <1>3
<1> QED
  BY <1>4, <1>5

\* A new extension has calls of its own.
LEMMA ExtensionIsNew ==
  ASSUME ListInv, Grows, Distinct, pc = "extend", NEW n, NEW f, <<n, f>> \in todo,
         NEW t \in IsFunSatisfied(f, api_sequences[n]), NEW k \in DOMAIN api_sequences
  PROVE  api_sequences[k].functions # t.functions
<1>0. ASSUME NEW i \in DOMAIN api_sequences PROVE Live(api_sequences[i])
  BY DEF ListInv
<1>1. n \in DOMAIN api_sequences /\ f \in Funs /\ Len(api_sequences[n].functions) = len
  BY DEF Grows
<1>2. t.functions # <<>> /\ Live(api_sequences[n])
  BY <1>0, <1>1, ExtensionCalls
<1>3. CASE k = 1
  BY <1>2, <1>3 DEF Grows, NewSequence
<1>4. CASE k # 1
  <2> SUFFICES ASSUME api_sequences[k].functions = t.functions PROVE FALSE
    OBVIOUS
  <2>1. PICK m \in DOMAIN api_sequences : \E g \in Funs : ExtensionOf(k, m, g)
    BY <1>4 DEF Grows
  <2>2. PICK g \in Funs : ExtensionOf(k, m, g)
    BY <2>1
  <2>3. api_sequences[k] \in IsFunSatisfied(g, api_sequences[m]) /\ Tried(m, g)
    BY <2>2 DEF ExtensionOf
  <2>4. api_sequences[n].functions = api_sequences[m].functions /\ f = g
    BY <1>0, <1>1, <2>3, ExtensionsDiffer
  <2>5. n = m
    BY <1>1, <2>4 DEF Distinct
  <2>6. len \in Nat
    BY DEF Grows
  <2> QED
    BY <1>1, <2>3, <2>4, <2>5, <2>6 DEF Tried
<1> QED
  BY <1>3, <1>4

\* A function that is not appended.
LEMMA ExtendNothing ==
  ASSUME ListInv, Grows, Distinct, Complete, Once, pc = "extend", NEW n, NEW f, <<n, f>> \in todo,
         \/ IsFunSatisfied(f, api_sequences[n]) = {}
         \/ fast_mode /\ f \in api_functions_visited,
         UNCHANGED <<algorithm, pc, len, api_sequences, api_functions_visited>>,
         todo' = todo \ {<<n, f>>}
  PROVE  Grows' /\ Distinct' /\ Complete' /\ Once'
<1>0. \A s : MayBeExtended(s)' <=> MayBeExtended(s)
  BY DEF MayBeExtended, stop_at_end_function
<1>1. \A m, g : Tried(m, g) => Tried(m, g)'
  BY DEF Tried
<1>2. \A m, g : Tried(m, g)' => Tried(m, g) \/ (m = n /\ g = f)
  BY DEF Tried
<1>3. \A k, m, g : ExtensionOf(k, m, g) => ExtensionOf(k, m, g)'
  BY <1>0, <1>1 DEF ExtensionOf
<1>4. Grows'
  BY <1>0, <1>3 DEF Grows
<1>5. Distinct'
  BY DEF Distinct
<1>6. Complete'
  BY <1>0, <1>2 DEF Complete, fast_mode
<1>7. Once'
  BY DEF Once, fast_mode
<1> QED
  BY <1>4, <1>5, <1>6, <1>7

\* A function that is appended.
LEMMA ExtendSomething ==
  ASSUME ListInv, Grows, Distinct, Complete, Once, pc = "extend", NEW n, NEW f, <<n, f>> \in todo,
         NEW t, IsFunSatisfied(f, api_sequences[n]) = {t},
         ~(fast_mode /\ f \in api_functions_visited),
         UNCHANGED <<algorithm, pc, len>>, todo' = todo \ {<<n, f>>},
         api_sequences' = Append(api_sequences, t),
         api_functions_visited' = api_functions_visited \cup {f}
  PROVE  Grows' /\ Distinct' /\ Complete' /\ Once'
<1> SUFFICES ASSUME NEW last, last = Len(api_sequences) + 1
             PROVE  Grows' /\ Distinct' /\ Complete' /\ Once'
  OBVIOUS
<1>0. \A s : MayBeExtended(s)' <=> MayBeExtended(s)
  BY DEF MayBeExtended, stop_at_end_function
<1>1. /\ n \in DOMAIN api_sequences /\ f \in Funs /\ len \in Nat
      /\ Len(api_sequences[n].functions) = len /\ MayBeExtended(api_sequences[n])
  BY DEF Grows
<1>2. \A k \in DOMAIN api_sequences : Live(api_sequences[k])
  BY DEF ListInv
<1>3. /\ Live(t) /\ Len(t.functions) = len + 1 /\ Last(t.functions).func = f
      /\ t \in Sequence
  BY <1>1, <1>2, ExtensionCalls DEF Live, Sound
<1>4. /\ last \in Nat /\ last \notin DOMAIN api_sequences
      /\ DOMAIN api_sequences' = DOMAIN api_sequences \cup {last}
      /\ \A k \in DOMAIN api_sequences : api_sequences'[k] = api_sequences[k]
      /\ api_sequences'[last] = t /\ 1 \in DOMAIN api_sequences
  BY <1>3 DEF ListInv, Grows
<1>5. ASSUME NEW m \in DOMAIN api_sequences, NEW g
      PROVE  /\ Tried(m, g) => Tried(m, g)'
             /\ Tried(m, g)' => Tried(m, g) \/ (m = n /\ g = f)
  BY <1>4 DEF Tried
<1>6. \A g : ~Tried(last, g)'
  BY <1>1, <1>3, <1>4 DEF Tried
<1>7. Tried(n, f)'
  BY <1>1, <1>4 DEF Tried
<1>8. Grows'
  <2>1. ASSUME NEW m, NEW g, <<m, g>> \in todo'
        PROVE  /\ m \in DOMAIN api_sequences' /\ g \in Funs
               /\ MayBeExtended(api_sequences[m])' /\ Len(api_sequences'[m].functions) = len'
    BY <1>0, <1>4, <2>1 DEF Grows
  <2>2. ASSUME NEW k \in DOMAIN api_sequences' \ {1}
        PROVE  \E m \in DOMAIN api_sequences' : \E g \in Funs : ExtensionOf(k, m, g)'
    <3>1. CASE k = last
      <4>1. ExtensionOf(last, n, f)'
        BY <1>0, <1>1, <1>4, <1>7 DEF ExtensionOf
      <4> QED
        BY <1>1, <1>4, <3>1, <4>1
    <3>2. CASE k \in DOMAIN api_sequences
      <4>1. PICK m \in DOMAIN api_sequences : \E g \in Funs : ExtensionOf(k, m, g)
        BY <2>2, <3>2 DEF Grows
      <4>2. PICK g \in Funs : ExtensionOf(k, m, g)
        BY <4>1
      <4>3. ExtensionOf(k, m, g)'
        BY <1>0, <1>4, <1>5, <3>2, <4>2 DEF ExtensionOf
      <4> QED
        BY <1>4, <4>3
    <3> QED
      BY <1>4, <3>1, <3>2
  <2> QED
    BY <1>4, <2>1, <2>2 DEF Grows
<1>9. Distinct'
  <2>1. \A k \in DOMAIN api_sequences : api_sequences[k].functions # t.functions
    BY ExtensionIsNew
  <2> QED
    BY <1>4, <2>1 DEF Distinct
<1>10. Complete'
  <2> SUFFICES ASSUME NEW k \in DOMAIN api_sequences', NEW g \in Funs,
                      MayBeExtended(api_sequences[k])', Tried(k, g)'
               PROVE  \/ IsFunSatisfied(g, api_sequences'[k]) \subseteq Range(api_sequences')
                      \/ fast_mode' /\ g \in api_functions_visited'
    BY DEF Complete
  <2>1. k \in DOMAIN api_sequences /\ api_sequences'[k] = api_sequences[k]
    BY <1>4, <1>6
  <2>2. Range(api_sequences) \subseteq Range(api_sequences') /\ t \in Range(api_sequences')
    BY <1>4 DEF Range
  <2>3. CASE k = n /\ g = f
    BY <2>1, <2>2, <2>3
  <2>4. CASE Tried(k, g)
    <3>1. \/ IsFunSatisfied(g, api_sequences[k]) \subseteq Range(api_sequences)
          \/ fast_mode /\ g \in api_functions_visited
      BY <1>0, <2>1, <2>4 DEF Complete
    <3> QED
      BY <2>1, <2>2, <3>1 DEF fast_mode
  <2> QED
    BY <1>5, <2>1, <2>3, <2>4
<1>11. Once'
  <2> SUFFICES ASSUME fast_mode' PROVE
        /\ \A k \in DOMAIN api_sequences' \ {1} :
             Last(api_sequences'[k].functions).func \in api_functions_visited'
        /\ \A m, k \in DOMAIN api_sequences' \ {1} :
             m # k => Last(api_sequences'[m].functions).func # Last(api_sequences'[k].functions).func
    BY DEF Once
  <2>1. fast_mode /\ f \notin api_functions_visited
    BY DEF fast_mode
  <2>2. /\ \A k \in DOMAIN api_sequences \ {1} :
             Last(api_sequences[k].functions).func \in api_functions_visited
        /\ \A m, k \in DOMAIN api_sequences \ {1} :
             m # k => Last(api_sequences[m].functions).func # Last(api_sequences[k].functions).func
    BY <2>1 DEF Once
  <2> QED
    BY <1>3, <1>4, <2>1, <2>2
<1> QED
  BY <1>8, <1>9, <1>10, <1>11

\* One iteration of the two loops of a round.
LEMMA ExtendKeepsBfs ==
  ASSUME ListInv, BfsInv, Extend
  PROVE  BfsInv'
<1>1. pc = "extend" /\ UNCHANGED <<algorithm, pc, len>>
  BY DEF Extend
<1>2. ByBfs /\ Grows /\ Distinct /\ Complete /\ Once
  BY <1>1 DEF BfsInv
<1>3. PICK n \in DOMAIN api_sequences, f \in Funs :
        /\ <<n, f>> \in todo /\ todo' = todo \ {<<n, f>>}
        /\ \E new \in {IF Skip(f) THEN {} ELSE IsFunSatisfied(f, api_sequences[n])} :
             /\ api_sequences' = api_sequences \o SetToSeq(new)
             /\ api_functions_visited' =
                  api_functions_visited \cup (IF new = {} THEN {} ELSE {f})
  BY DEF Extend, ComesFirst
<1>4. PICK new \in {IF Skip(f) THEN {} ELSE IsFunSatisfied(f, api_sequences[n])} :
             /\ api_sequences' = api_sequences \o SetToSeq(new)
             /\ api_functions_visited' =
                  api_functions_visited \cup (IF new = {} THEN {} ELSE {f})
  BY <1>3
<1>5. Pushed(api_sequences, new, api_sequences')
  <2>1. Sound(api_sequences[n]) /\ api_sequences \in Seq(Sequence)
    BY DEF ListInv, Live
  <2> QED
    BY <1>4, <2>1, PushesAnswer
<1>6. Grows' /\ Distinct' /\ Complete' /\ Once'
  <2>1. CASE new = {}
    <3>1. UNCHANGED <<api_sequences, api_functions_visited>>
      BY <1>4, <1>5, <2>1 DEF Pushed
    <3>2. \/ IsFunSatisfied(f, api_sequences[n]) = {}
          \/ fast_mode /\ f \in api_functions_visited
      BY <1>4, <2>1 DEF Skip
    <3> QED
      BY <1>1, <1>2, <1>3, <3>1, <3>2, ExtendNothing
  <2>2. ASSUME NEW t, new = {t}, api_sequences' = Append(api_sequences, t)
        PROVE  Grows' /\ Distinct' /\ Complete' /\ Once'
    <3>1. /\ IsFunSatisfied(f, api_sequences[n]) = {t} /\ ~(fast_mode /\ f \in api_functions_visited)
          /\ api_functions_visited' = api_functions_visited \cup {f}
      BY <1>4, <2>2 DEF Skip
    <3> QED
      BY <1>1, <1>2, <1>3, <2>2, <3>1, ExtendSomething
  <2> QED
    BY <1>5, <2>1, <2>2 DEF Pushed
<1>7. ByBfs' /\ Exhaustive'
  BY <1>1, <1>2 DEF ByBfs, Exhaustive, AfterBfs
<1> QED
  BY <1>6, <1>7 DEF BfsInv

\* The list begins with the empty sequence.
LEMMA StartKeepsBfs ==
  ASSUME ListInv, BfsInv, Start, len = 0
  PROVE  BfsInv'
<1>1. api_sequences = <<>> /\ UNCHANGED <<algorithm, len, todo>> /\ ByBfs /\ len' = 0
  BY DEF Start, ListInv
<1>2. CASE MaxLen < 1
  <2>1. pc' \notin {"collect", "extend"} /\ ~(MaxLen > 0)
    BY <1>2, MaxLenAssumption DEF Start, AfterBfs
  <2> QED
    BY <2>1 DEF BfsInv, Exhaustive
<1>3. CASE ~(MaxLen < 1)
  <2>1. /\ pc' = "collect" /\ api_sequences' = <<NewSequence>> /\ MaxLen > 0
    BY <1>1, <1>3, MaxLenAssumption DEF Start
  <2>2. DOMAIN api_sequences' = {1} /\ api_sequences'[1] = NewSequence
    BY <2>1
  <2>3. Grows'
    BY <1>1, <2>1, <2>2 DEF Grows
  <2>4. Distinct' /\ Once'
    BY <2>2 DEF Distinct, Once
  <2>5. Complete'
    <3>1. \A f : ~Tried(1, f)'
      BY <1>1, <2>1, <2>2 DEF Tried, NewSequence
    <3> QED
      BY <2>2, <3>1 DEF Complete
  <2>6. ByBfs' /\ Exhaustive'
    BY <1>1, <2>1 DEF ByBfs, Exhaustive, AfterBfs
  <2> QED
    BY <2>3, <2>4, <2>5, <2>6 DEF BfsInv
<1> QED
  BY <1>2, <1>3

\* A round begins with the sequences of its length.
LEMMA CollectKeepsBfs ==
  ASSUME ListInv, BfsInv, Collect
  PROVE  BfsInv'
<1>1. /\ pc = "collect" /\ pc' = "extend" /\ len < MaxLen /\ todo' = Extensible \X Funs
      /\ UNCHANGED <<algorithm, len, api_sequences, api_functions_visited>>
  BY DEF Collect
<1>2. ByBfs /\ Grows /\ Distinct /\ Complete /\ Once
  BY <1>1 DEF BfsInv
<1>3. \A s : MayBeExtended(s)' <=> MayBeExtended(s)
  BY <1>1 DEF MayBeExtended, stop_at_end_function
<1>4. \A m, g : Tried(m, g) => Tried(m, g)'
  BY <1>1 DEF Tried
<1>5. ASSUME NEW m \in DOMAIN api_sequences, NEW g \in Funs,
             MayBeExtended(api_sequences[m]), Tried(m, g)'
      PROVE  Tried(m, g)
  <2>1. Len(api_sequences[m].functions) = len => <<m, g>> \in Extensible \X Funs
    BY <1>5 DEF Extensible, MayBeExtended
  <2> QED
    BY <1>1, <1>5, <2>1 DEF Tried
<1>6. Grows'
  <2>1. ASSUME NEW m, NEW g, <<m, g>> \in todo'
        PROVE  /\ m \in DOMAIN api_sequences /\ g \in Funs
               /\ MayBeExtended(api_sequences[m]) /\ Len(api_sequences[m].functions) = len
    BY <1>1, <2>1 DEF Extensible, MayBeExtended
  <2>2. \A k, m, g : ExtensionOf(k, m, g) => ExtensionOf(k, m, g)'
    BY <1>1, <1>3, <1>4 DEF ExtensionOf
  <2> QED
    BY <1>1, <1>2, <1>3, <2>1, <2>2 DEF Grows
<1>7. Distinct' /\ Once'
  BY <1>1, <1>2 DEF Distinct, Once, fast_mode
<1>8. Complete'
  BY <1>1, <1>2, <1>3, <1>5 DEF Complete, fast_mode
<1>9. ByBfs' /\ Exhaustive'
  BY <1>1, <1>2 DEF ByBfs, Exhaustive, AfterBfs
<1> QED
  BY <1>6, <1>7, <1>8, <1>9 DEF BfsInv

\* The next round extends sequences of one more call.
LEMMA NextLenKeepsBfs ==
  ASSUME ListInv, BfsInv, NextLen
  PROVE  BfsInv'
<1>1. /\ pc = "extend" /\ pc' = "collect" /\ todo = {} /\ len' = len + 1
      /\ UNCHANGED <<algorithm, todo, api_sequences, api_functions_visited>>
  BY DEF NextLen
<1>2. ByBfs /\ Grows /\ Distinct /\ Complete /\ Once
  BY <1>1 DEF BfsInv
<1>3. \A s : MayBeExtended(s)' <=> MayBeExtended(s)
  BY <1>1 DEF MayBeExtended, stop_at_end_function
<1>4. ASSUME NEW m \in DOMAIN api_sequences, NEW g
      PROVE  Tried(m, g)' <=> Tried(m, g)
  <2>1. api_sequences[m].functions \in Seq(Calls) /\ len \in Nat
    BY <1>2, SequenceLists DEF ListInv, Grows
  <2>2. Len(api_sequences[m].functions) \in Nat
    BY <2>1
  <2> QED
    BY <1>1, <2>1, <2>2 DEF Tried
<1>5. Grows'
  <2>1. \A k, g : \A m \in DOMAIN api_sequences : ExtensionOf(k, m, g) => ExtensionOf(k, m, g)'
    BY <1>1, <1>3, <1>4 DEF ExtensionOf
  <2> QED
    BY <1>1, <1>2, <2>1 DEF Grows
<1>6. Distinct' /\ Once'
  BY <1>1, <1>2 DEF Distinct, Once, fast_mode
<1>7. Complete'
  BY <1>1, <1>2, <1>3, <1>4 DEF Complete, fast_mode
<1>8. ByBfs' /\ Exhaustive'
  BY <1>1, <1>2 DEF ByBfs, Exhaustive, AfterBfs
<1> QED
  BY <1>5, <1>6, <1>7, <1>8 DEF BfsInv

\* A list without repetition is as long as it has elements.
LEMMA NoRepetition ==
  ASSUME NEW S, NEW list \in Seq(S), \A m, n \in DOMAIN list : m # n => list[m] # list[n]
  PROVE  Len(list) = Cardinality(Range(list))
<1> DEFINE n == Len(list)
<1>1. n \in Nat /\ DOMAIN list = 1..n /\ list = [i \in 1..n |-> list[i]]
  OBVIOUS
<1>2. IsFiniteSet(1..n) /\ Cardinality(1..n) = n
  <2> HIDE DEF n
  <2>1. 1 \in Int /\ n \in Int /\ (IF 1 > n THEN 0 ELSE n - 1 + 1) = n
    BY <1>1
  <2> QED
    BY <2>1, FS_Interval
<1>3. list \in [1..n -> Range(list)]
  BY <1>1 DEF Range
<1>4. \A y \in Range(list) : \E i \in 1..n : list[i] = y
  BY <1>1 DEF Range
<1> HIDE DEF n
<1>5. list \in Bijection(1..n, Range(list))
  BY <1>1, <1>3, <1>4 DEF Bijection, Injection, Surjection, IsInjective
<1>6. ExistsBijection(1..n, Range(list))
  BY <1>5 DEF ExistsBijection
<1> QED
  BY <1>2, <1>6, FS_Bijection DEF n

\* When the lengths are over, everything that may be extended has been.
LEMMA SearchIsExhaustive ==
  ASSUME ListInv, ByBfs, Grows, Distinct, Complete, Once, len >= MaxLen
  PROVE  /\ Len(api_sequences) = Cardinality(Range(api_sequences))
         /\ \E extensions \in {Extensions(Range(api_sequences))} :
              /\ Range(api_sequences) \subseteq {NewSequence} \cup extensions
              /\ \A s \in extensions \ Range(api_sequences) :
                   fast_mode /\ Last(s.functions).func \in api_functions_visited
         /\ \A m, n \in DOMAIN api_sequences :
              /\ fast_mode /\ m # n
              /\ api_sequences[m].functions # <<>> /\ api_sequences[n].functions # <<>>
              => Last(api_sequences[m].functions).func # Last(api_sequences[n].functions).func
<1>0. \A k \in DOMAIN api_sequences : Live(api_sequences[k])
  BY DEF ListInv
<1>1. Len(api_sequences) = Cardinality(Range(api_sequences))
  BY NoRepetition DEF ListInv, Distinct
<1>2. Range(api_sequences) \subseteq {NewSequence} \cup Extensions(Range(api_sequences))
  <2> SUFFICES ASSUME NEW n \in DOMAIN api_sequences, n # 1
               PROVE  api_sequences[n] \in Extensions(Range(api_sequences))
    BY DEF Range, Grows
  <2>1. PICK m \in DOMAIN api_sequences : \E f \in Funs : ExtensionOf(n, m, f)
    BY DEF Grows
  <2>2. PICK f \in Funs : ExtensionOf(n, m, f)
    BY <2>1
  <2> QED
    BY <2>2 DEF ExtensionOf, Extensions, Range
<1>3. ASSUME NEW s \in Extensions(Range(api_sequences)) \ Range(api_sequences)
      PROVE  fast_mode /\ Last(s.functions).func \in api_functions_visited
  <2>1. PICK f \in Funs, r \in {t \in Range(api_sequences) : MayBeExtended(t)} :
          s \in IsFunSatisfied(f, r)
    BY DEF Extensions
  <2>2. PICK n \in DOMAIN api_sequences : r = api_sequences[n]
    BY DEF Range
  <2>3. Tried(n, f)
    <3>1. api_sequences[n].functions \in Seq(Calls) /\ len \in Nat
      BY SequenceLists DEF ListInv, Grows
    <3>2. Len(api_sequences[n].functions) \in Nat
      BY <3>1
    <3>3. Len(api_sequences[n].functions) < MaxLen
      BY <2>1, <2>2 DEF MayBeExtended
    <3> QED
      BY <3>1, <3>2, <3>3, MaxLenAssumption DEF Tried
  <2>4. fast_mode /\ f \in api_functions_visited
    BY <2>1, <2>2, <2>3 DEF Complete
  <2>5. Last(s.functions).func = f
    BY <1>0, <2>1, <2>2, ExtensionCalls
  <2> QED
    BY <2>4, <2>5
<1>4. ASSUME NEW m \in DOMAIN api_sequences, NEW n \in DOMAIN api_sequences, fast_mode, m # n,
             api_sequences[m].functions # <<>>, api_sequences[n].functions # <<>>
      PROVE  Last(api_sequences[m].functions).func # Last(api_sequences[n].functions).func
  <2>1. m # 1 /\ n # 1
    BY <1>4 DEF Grows, NewSequence
  <2> QED
    BY <1>4, <2>1 DEF Once
<1> QED
  BY <1>1, <1>2, <1>3, <1>4

\* The search ends.
LEMMA FinishKeepsBfs ==
  ASSUME ListInv, BfsInv, Finish
  PROVE  BfsInv'
<1>1. /\ pc = "collect" /\ len >= MaxLen /\ pc' = AfterBfs
      /\ UNCHANGED <<algorithm, len, todo, api_sequences, api_functions_visited>>
  BY DEF Finish
<1>2. ByBfs /\ Grows /\ Distinct /\ Complete /\ Once
  BY <1>1 DEF BfsInv
<1> DEFINE Result ==
         /\ Len(api_sequences) = Cardinality(Range(api_sequences))
         /\ \E extensions \in {Extensions(Range(api_sequences))} :
              /\ Range(api_sequences) \subseteq {NewSequence} \cup extensions
              /\ \A s \in extensions \ Range(api_sequences) :
                   fast_mode /\ Last(s.functions).func \in api_functions_visited
         /\ \A m, n \in DOMAIN api_sequences :
              /\ fast_mode /\ m # n
              /\ api_sequences[m].functions # <<>> /\ api_sequences[n].functions # <<>>
              => Last(api_sequences[m].functions).func # Last(api_sequences[n].functions).func
<1>3. Result
  BY <1>1, <1>2, SearchIsExhaustive
<1>4. Result'
  <2>1. fast_mode' = fast_mode
    BY <1>1 DEF fast_mode
  <2>2. \A s : MayBeExtended(s)' <=> MayBeExtended(s)
    BY <1>1 DEF MayBeExtended, stop_at_end_function
  <2>3. \A S : Extensions(S)' = Extensions(S)
    BY <2>2 DEF Extensions
  <2>4. Extensions(Range(api_sequences))' = Extensions(Range(api_sequences))
    BY <1>1, <2>3
  <2> QED
    BY <1>1, <1>3, <2>1, <2>4
<1>5. pc' \notin {"collect", "extend"}
  BY <1>1 DEF AfterBfs
<1>6. Exhaustive'
  BY <1>4 DEF Exhaustive
<1> QED
  BY <1>5, <1>6 DEF BfsInv

\* Nothing changes.
LEMMA StutterKeepsBfs ==
  ASSUME BfsInv, UNCHANGED vars
  PROVE  BfsInv'
<1>1. UNCHANGED <<algorithm, pc, len, todo, api_sequences, api_functions_visited>>
  BY DEF vars, bfs_vars
<1>2. \A s : MayBeExtended(s)' <=> MayBeExtended(s)
  BY <1>1 DEF MayBeExtended, stop_at_end_function
<1>3. \A S : Extensions(S)' = Extensions(S)
  BY <1>2 DEF Extensions
<1>4. Extensions(Range(api_sequences))' = Extensions(Range(api_sequences))
  BY <1>1, <1>3
<1>5. \A n, f : Tried(n, f)' <=> Tried(n, f)
  BY <1>1 DEF Tried
<1>6. \A n, m, f : ExtensionOf(n, m, f)' <=> ExtensionOf(n, m, f)
  BY <1>1, <1>2, <1>5 DEF ExtensionOf
<1>7. (Grows' <=> Grows) /\ (Complete' <=> Complete)
  BY <1>1, <1>2, <1>5, <1>6 DEF Grows, Complete, fast_mode
<1>8. (Distinct' <=> Distinct) /\ (Once' <=> Once) /\ (ByBfs' <=> ByBfs)
  BY <1>1 DEF Distinct, Once, fast_mode, ByBfs
<1>9. Exhaustive' <=> Exhaustive
  BY <1>1, <1>4 DEF Exhaustive, AfterBfs, ByBfs, fast_mode
<1> QED
  BY <1>1, <1>7, <1>8, <1>9 DEF BfsInv

\* The breadth-first search finds every sequence, each of them once.
THEOREM SearchExhaustive == Spec => []Exhaustive
<1>1. GenerationInit => BfsInv
  BY DEF GenerationInit, Init, BfsInv, Exhaustive, AfterBfs
<1>2. ListInv /\ PcInv /\ BfsInv /\ [Next]_vars => BfsInv'
  <2> SUFFICES ASSUME ListInv, PcInv, BfsInv, [Next]_vars PROVE BfsInv'
    OBVIOUS
  <2>1. CASE BfsNext
    BY <2>1, StartKeepsBfs, CollectKeepsBfs, ExtendKeepsBfs, NextLenKeepsBfs, FinishKeepsBfs
    DEF BfsNext, Start, PcInv
  <2>2. ASSUME pc' \notin {"collect", "extend"}, ~(pc' = AfterBfs' /\ ByBfs') PROVE BfsInv'
    BY <2>2 DEF BfsInv, Exhaustive
  <2>3. CASE DeepNext
    BY <2>2, <2>3 DEF PcInv, AfterBfs, ByBfs, DeepNext, DeepStart, DeepCollect, DeepExtend,
                      DeepNextLen, DeepStop
  <2>4. CASE BackwardNext
    BY <2>2, <2>4 DEF PcInv, AfterBfs, ByBfs, BackwardNext, BackwardDirect, BackwardStart,
                      BackwardRound, CoverNode, EndRound, BackwardDone
  <2>5. CASE ChoiceNext
    BY <2>2, <2>5 DEF AfterBfs, ByBfs, ChoiceNext, ChoiceStart, Choose, Switch, ChoiceEnd
  <2> QED
    BY <2>1, <2>3, <2>4, <2>5, StutterKeepsBfs DEF Next, Terminating
<1>3. BfsInv => Exhaustive
  BY DEF BfsInv
<1> QED
  BY <1>1, <1>2, <1>3, ListAlways, PcAlways, PTL DEF Spec

-----------------------------------------------------------------------------
(***************************************************************************)
(* The deep search.                                                        *)
(***************************************************************************)

\* What the sequences of up to n calls cover.
NodesTo(list, n) == UNION {Contained(s) : s \in {t \in Range(list) : Len(t.functions) <= n}}
EdgesTo(list, n) ==
  UNION {s.covered_dependencies : s \in {t \in Range(list) : Len(t.functions) <= n}}

\* Length n covered something new.
NewAt(list, n) ==
  \/ NodesTo(list, n) # NodesTo(list, n - 1)
  \/ EdgesTo(list, n) # EdgesTo(list, n - 1)

\* All sequences of the list have at most n calls.
UpTo(list, n) == \A i \in DOMAIN list : Len(list[i].functions) <= n

\* The covered nodes and edges are those of the list, and every length so far
\* covered something new.
DeepInv ==
  /\ pc = "start" => len = 0 /\ deep_covered_nodes = {} /\ deep_covered_edges = {}
  /\ pc \in {"deep", "deepen"} =>
       /\ len \in Nat /\ \A n \in 1..len : NewAt(api_sequences, n)
  /\ pc = "deep" =>
       /\ UpTo(api_sequences, len)
       /\ deep_covered_nodes = NodesTo(api_sequences, len)
       /\ deep_covered_edges = EdgesTo(api_sequences, len)
  /\ pc = "deepen" =>
       /\ UpTo(api_sequences, len + 1)
       /\ \A n, f : <<n, f>> \in todo =>
            n \in DOMAIN api_sequences /\ Len(api_sequences[n].functions) = len
       /\ deep_covered_nodes = NodesTo(api_sequences, len + 1)
       /\ deep_covered_edges = EdgesTo(api_sequences, len + 1)
       /\ has_new_coverage_flag <=> NewAt(api_sequences, len + 1)
  /\ DeepRoundsEarnTheirKeep

\* Two lengths cover the same or something new.
LEMMA CoverageDiffers ==
  ASSUME NEW n \in Int
  PROVE  CoverageUpTo(n) # CoverageUpTo(n - 1) <=> NewAt(api_sequences, n)
<1>1. ASSUME NEW m
      PROVE  CoverageUpTo(m) = <<NodesTo(api_sequences, m), EdgesTo(api_sequences, m)>>
  BY DEF CoverageUpTo, NodesTo, EdgesTo
<1>2. ASSUME NEW a, NEW b, NEW c, NEW d PROVE <<a, b>> = <<c, d>> <=> a = c /\ b = d
  OBVIOUS
<1> QED
  BY <1>1, <1>2 DEF NewAt

\* Up to length n, more covers what list and t do, if t has no more than n calls.
CoversMore(list, t, more, n) ==
  /\ n < Len(t.functions) =>
       NodesTo(more, n) = NodesTo(list, n) /\ EdgesTo(more, n) = EdgesTo(list, n)
  /\ n >= Len(t.functions) =>
       /\ NodesTo(more, n) = NodesTo(list, n) \cup Contained(t)
       /\ EdgesTo(more, n) = EdgesTo(list, n) \cup t.covered_dependencies

\* One more sequence, of k calls, adds to the lengths from k on.
LEMMA PushCovers ==
  ASSUME NEW list \in Seq(Sequence), NEW t \in Sequence, NEW n \in Int,
         NEW more, more = Append(list, t)
  PROVE  CoversMore(list, t, more, n)
<1> DEFINE k == Len(t.functions)
<1>0. k \in Nat
  <2>1. t.functions \in Seq(Calls)
    BY SequenceLists
  <2> QED
    BY <2>1
<1> HIDE DEF k
<1>1. Range(more) = Range(list) \cup {t}
  <2>1. /\ DOMAIN more = DOMAIN list \cup {Len(list) + 1} /\ more[Len(list) + 1] = t
        /\ \A i \in DOMAIN list : more[i] = list[i]
    OBVIOUS
  <2> QED
    BY <2>1 DEF Range
<1> DEFINE Short(l) == {s \in Range(l) : Len(s.functions) <= n}
<1>2. CASE n < k
  <2>1. Short(more) = Short(list)
    BY <1>0, <1>1, <1>2 DEF k
  <2>2. NodesTo(more, n) = NodesTo(list, n) /\ EdgesTo(more, n) = EdgesTo(list, n)
    BY <2>1 DEF NodesTo, EdgesTo
  <2> QED
    BY <1>0, <1>2, <2>2 DEF CoversMore, k
<1>3. CASE n >= k
  <2>1. Short(more) = Short(list) \cup {t}
    BY <1>0, <1>1, <1>3 DEF k
  <2>2. ASSUME NEW S PROVE
          /\ UNION {Contained(s) : s \in S \cup {t}} =
               (UNION {Contained(s) : s \in S}) \cup Contained(t)
          /\ UNION {s.covered_dependencies : s \in S \cup {t}} =
               (UNION {s.covered_dependencies : s \in S}) \cup t.covered_dependencies
    OBVIOUS
  <2> HIDE DEF Short
  <2>3. /\ NodesTo(more, n) = UNION {Contained(s) : s \in Short(more)}
        /\ NodesTo(list, n) = UNION {Contained(s) : s \in Short(list)}
        /\ EdgesTo(more, n) = UNION {s.covered_dependencies : s \in Short(more)}
        /\ EdgesTo(list, n) = UNION {s.covered_dependencies : s \in Short(list)}
    BY DEF NodesTo, EdgesTo, Short
  <2>4. /\ NodesTo(more, n) = NodesTo(list, n) \cup Contained(t)
        /\ EdgesTo(more, n) = EdgesTo(list, n) \cup t.covered_dependencies
    BY <2>1, <2>2, <2>3
  <2> QED
    BY <1>0, <1>3, <2>4 DEF CoversMore, k
<1> QED
  BY <1>0, <1>2, <1>3

\* Longer sequences only add.
LEMMA CoverageGrows ==
  ASSUME NEW list \in Seq(Sequence), NEW n \in Nat
  PROVE  /\ NodesTo(list, n) \subseteq NodesTo(list, n + 1)
         /\ EdgesTo(list, n) \subseteq EdgesTo(list, n + 1)
<1>1. ASSUME NEW s \in Range(list), Len(s.functions) <= n PROVE Len(s.functions) <= n + 1
  <2>1. s \in Sequence
    BY DEF Range
  <2>2. s.functions \in Seq(Calls)
    BY <2>1, SequenceLists
  <2>3. Len(s.functions) \in Nat
    BY <2>2
  <2> QED
    BY <1>1, <2>3
<1> QED
  BY <1>1 DEF NodesTo, EdgesTo

\* Nothing is longer than the longest sequence.
LEMMA CoverageStops ==
  ASSUME NEW list \in Seq(Sequence), NEW n \in Nat, UpTo(list, n)
  PROVE  /\ NodesTo(list, n + 1) = NodesTo(list, n) /\ EdgesTo(list, n + 1) = EdgesTo(list, n)
         /\ UpTo(list, n + 1)
<1>1. ASSUME NEW s \in Range(list) PROVE Len(s.functions) <= n /\ Len(s.functions) <= n + 1
  <2>1. PICK i \in DOMAIN list : s = list[i]
    BY DEF Range
  <2>2. s \in Sequence /\ Len(s.functions) <= n
    BY <2>1 DEF UpTo
  <2>3. s.functions \in Seq(Calls)
    BY <2>2, SequenceLists
  <2>4. Len(s.functions) \in Nat
    BY <2>3
  <2> QED
    BY <2>2, <2>4
<1>2. UpTo(list, n + 1)
  BY <1>1 DEF UpTo, Range
<1> QED
  BY <1>1, <1>2 DEF NodesTo, EdgesTo

\* The search begins.
LEMMA DeepStartKeeps ==
  ASSUME DeepInv, DeepStart
  PROVE  DeepInv'
<1>1. /\ pc = "start" /\ len' = 0 /\ deep_covered_nodes' = {} /\ deep_covered_edges' = {}
  BY DEF DeepInv, DeepStart
<1>2. CASE Funs = {}
  <2>1. pc' = "done" /\ len' >= Cardinality(Funs)
    BY <1>1, <1>2, FS_EmptySet DEF DeepStart
  <2> QED
    BY <1>1, <2>1 DEF DeepInv, DeepRoundsEarnTheirKeep, DeepEnough
<1>3. CASE Funs # {}
  <2>1. pc' = "deep" /\ api_sequences' = <<NewSequence>>
    BY <1>3 DEF DeepStart
  <2>2. DOMAIN api_sequences' = {1} /\ api_sequences'[1] = NewSequence
    BY <2>1
  <2>3. Len(NewSequence.functions) = 0 /\ Contained(NewSequence) = {}
        /\ NewSequence.covered_dependencies = {}
    BY DEF NewSequence, Contained
  <2>4. UpTo(api_sequences', 0)
    BY <2>2, <2>3 DEF UpTo
  <2>5. Range(api_sequences') = {NewSequence}
    BY <2>2 DEF Range
  <2>6. NodesTo(api_sequences', 0) = {} /\ EdgesTo(api_sequences', 0) = {}
    BY <2>3, <2>5 DEF NodesTo, EdgesTo
  <2> QED
    BY <1>1, <2>1, <2>4, <2>6 DEF DeepInv, DeepRoundsEarnTheirKeep
<1> QED
  BY <1>2, <1>3

\* A round begins, and nothing is new yet.
LEMMA DeepCollectKeeps ==
  ASSUME ListInv, DeepInv, DeepCollect
  PROVE  DeepInv'
<1>1. /\ pc = "deep" /\ pc' = "deepen" /\ has_new_coverage_flag' = FALSE
      /\ UNCHANGED <<len, api_sequences, deep_covered_nodes, deep_covered_edges>>
  BY DEF DeepCollect
<1>2. /\ len \in Nat /\ \A n \in 1..len : NewAt(api_sequences, n)
      /\ UpTo(api_sequences, len)
      /\ deep_covered_nodes = NodesTo(api_sequences, len)
      /\ deep_covered_edges = EdgesTo(api_sequences, len)
      /\ api_sequences \in Seq(Sequence)
  BY <1>1 DEF DeepInv, ListInv
<1>3. /\ NodesTo(api_sequences, len + 1) = NodesTo(api_sequences, len)
      /\ EdgesTo(api_sequences, len + 1) = EdgesTo(api_sequences, len)
      /\ UpTo(api_sequences, len + 1) /\ (len + 1) - 1 = len
  BY <1>2, CoverageStops
<1>4. ~NewAt(api_sequences, len + 1)
  BY <1>3 DEF NewAt
<1>5. \A n, f : <<n, f>> \in todo' =>
        n \in DOMAIN api_sequences /\ Len(api_sequences[n].functions) = len
  BY DEF DeepCollect
<1> QED
  BY <1>1, <1>2, <1>3, <1>4, <1>5 DEF DeepInv, DeepRoundsEarnTheirKeep

\* A function is tried on a sequence of the round.
LEMMA DeepExtendKeeps ==
  ASSUME ListInv, DeepInv, DeepExtend
  PROVE  DeepInv'
<1>1. pc = "deepen" /\ pc' = "deepen" /\ len' = len
  BY DEF DeepExtend
<1>2. PICK n \in DOMAIN api_sequences, f \in Funs :
        /\ <<n, f>> \in todo /\ todo' = todo \ {<<n, f>>}
        /\ \E new \in {IsFunSatisfied(f, api_sequences[n])} :
             /\ api_sequences' = api_sequences \o SetToSeq(new)
             /\ deep_covered_nodes' = deep_covered_nodes \cup UNION {Contained(s) : s \in new}
             /\ deep_covered_edges' =
                  deep_covered_edges \cup UNION {s.covered_dependencies : s \in new}
             /\ has_new_coverage_flag' =
                  \/ has_new_coverage_flag
                  \/ ~(UNION {Contained(s) : s \in new} \subseteq deep_covered_nodes)
                  \/ ~(UNION {s.covered_dependencies : s \in new} \subseteq deep_covered_edges)
  BY DEF DeepExtend, ComesFirst
<1>3. PICK new : /\ new = IsFunSatisfied(f, api_sequences[n])
             /\ api_sequences' = api_sequences \o SetToSeq(new)
             /\ deep_covered_nodes' = deep_covered_nodes \cup UNION {Contained(s) : s \in new}
             /\ deep_covered_edges' =
                  deep_covered_edges \cup UNION {s.covered_dependencies : s \in new}
             /\ has_new_coverage_flag' =
                  \/ has_new_coverage_flag
                  \/ ~(UNION {Contained(s) : s \in new} \subseteq deep_covered_nodes)
                  \/ ~(UNION {s.covered_dependencies : s \in new} \subseteq deep_covered_edges)
  BY <1>2
<1>4. /\ len \in Nat /\ \A m \in 1..len : NewAt(api_sequences, m)
      /\ UpTo(api_sequences, len + 1)
      /\ \A m, g : <<m, g>> \in todo =>
           m \in DOMAIN api_sequences /\ Len(api_sequences[m].functions) = len
      /\ deep_covered_nodes = NodesTo(api_sequences, len + 1)
      /\ deep_covered_edges = EdgesTo(api_sequences, len + 1)
      /\ has_new_coverage_flag <=> NewAt(api_sequences, len + 1)
      /\ api_sequences \in Seq(Sequence) /\ Live(api_sequences[n])
  BY <1>1 DEF DeepInv, ListInv
<1>5. Pushed(api_sequences, new, api_sequences')
  BY <1>3, <1>4, PushesAnswer DEF Live
<1>6. DeepRoundsEarnTheirKeep'
  BY <1>1 DEF DeepRoundsEarnTheirKeep
<1>7. CASE new = {}
  <2>1. /\ UNION {Contained(s) : s \in new} = {}
        /\ UNION {s.covered_dependencies : s \in new} = {}
    BY <1>7
  <2>2. /\ UNCHANGED <<api_sequences, deep_covered_nodes, deep_covered_edges>>
        /\ has_new_coverage_flag' <=> has_new_coverage_flag
    BY <1>3, <1>5, <1>7, <2>1 DEF Pushed
  <2> QED
    BY <1>1, <1>2, <1>4, <1>6, <2>2 DEF DeepInv
<1>8. ASSUME NEW t, new = {t}, api_sequences' = Append(api_sequences, t)
      PROVE  DeepInv'
  <2>1. Live(t) /\ Len(t.functions) = len + 1 /\ t \in Sequence
    <3>1. t \in IsFunSatisfied(f, api_sequences[n])
      BY <1>3, <1>8
    <3>2. Len(api_sequences[n].functions) = len
      BY <1>2, <1>4
    <3>3. Live(api_sequences[n])
      BY <1>4
    <3>4. Live(t) /\ Len(t.functions) = Len(api_sequences[n].functions) + 1
      BY <3>1, <3>3, ExtensionCalls
    <3>5. t \in Sequence
      BY <3>4 DEF Live, Sound
    <3> QED
      BY <3>2, <3>4, <3>5
  <2>2. /\ UNION {Contained(s) : s \in new} = Contained(t)
        /\ UNION {s.covered_dependencies : s \in new} = t.covered_dependencies
    BY <1>8
  <2>3. /\ deep_covered_nodes' = deep_covered_nodes \cup Contained(t)
        /\ deep_covered_edges' = deep_covered_edges \cup t.covered_dependencies
        /\ has_new_coverage_flag' <=>
             \/ has_new_coverage_flag
             \/ ~(Contained(t) \subseteq deep_covered_nodes)
             \/ ~(t.covered_dependencies \subseteq deep_covered_edges)
    BY <1>3, <2>2
  <2>4. len + 1 \in Nat /\ len < len + 1 /\ len + 1 >= len + 1 /\ (len + 1) - 1 = len
        /\ \A m \in 1..len : m < len + 1 /\ m - 1 < len + 1 /\ m \in Int /\ m - 1 \in Int
    BY <1>4
  <2>5. /\ NodesTo(api_sequences', len + 1) = NodesTo(api_sequences, len + 1) \cup Contained(t)
        /\ EdgesTo(api_sequences', len + 1) =
             EdgesTo(api_sequences, len + 1) \cup t.covered_dependencies
    <3>1. api_sequences \in Seq(Sequence)
      BY <1>4
    <3>2. t \in Sequence /\ Len(t.functions) = len + 1 /\ len + 1 \in Nat /\ len + 1 \in Int
          /\ len + 1 >= len + 1
      BY <2>1, <2>4
    <3>3. CoversMore(api_sequences, t, api_sequences', len + 1)
      BY <1>8, <3>1, <3>2, PushCovers
    <3> QED
      BY <3>2, <3>3 DEF CoversMore
  <2>6. ASSUME NEW m \in Int, m < len + 1
        PROVE  /\ NodesTo(api_sequences', m) = NodesTo(api_sequences, m)
               /\ EdgesTo(api_sequences', m) = EdgesTo(api_sequences, m)
    <3>1. api_sequences \in Seq(Sequence)
      BY <1>4
    <3>2. t \in Sequence /\ Len(t.functions) = len + 1 /\ len + 1 \in Nat
      BY <2>1, <2>4
    <3>3. CoversMore(api_sequences, t, api_sequences', m)
      BY <1>8, <3>1, <3>2, PushCovers
    <3> QED
      BY <2>6, <3>2, <3>3 DEF CoversMore
  <2>7. \A m \in 1..len : NewAt(api_sequences', m)
    BY <1>4, <2>4, <2>6 DEF NewAt
  <2>8. /\ NodesTo(api_sequences, len) \subseteq NodesTo(api_sequences, len + 1)
        /\ EdgesTo(api_sequences, len) \subseteq EdgesTo(api_sequences, len + 1)
    BY <1>4, CoverageGrows
  <2>9. has_new_coverage_flag' <=> NewAt(api_sequences', len + 1)
    <3> DEFINE A == NodesTo(api_sequences, len)
               B == NodesTo(api_sequences, len + 1)
               C == EdgesTo(api_sequences, len)
               D == EdgesTo(api_sequences, len + 1)
               N == Contained(t)
               E == t.covered_dependencies
    <3>0. NodesTo(api_sequences', len) = A /\ EdgesTo(api_sequences', len) = C
      <4>1. len \in Int /\ len < len + 1
        BY <1>4
      <4> QED
        BY <2>6, <4>1
    <3>1. NewAt(api_sequences', len + 1) <=> B \cup N # A \/ D \cup E # C
      BY <2>4, <2>5, <3>0 DEF NewAt
    <3>2. has_new_coverage_flag' <=> (B # A \/ D # C) \/ ~(N \subseteq B) \/ ~(E \subseteq D)
      BY <1>4, <2>3, <2>4 DEF NewAt
    <3>3. A \subseteq B /\ C \subseteq D
      BY <2>8
    <3> HIDE DEF A, B, C, D, N, E
    <3> QED
      BY <3>1, <3>2, <3>3
  <2>10. /\ UpTo(api_sequences', len + 1)
         /\ \A m, g : <<m, g>> \in todo' =>
              m \in DOMAIN api_sequences' /\ Len(api_sequences'[m].functions) = len
    <3>1. /\ DOMAIN api_sequences' = DOMAIN api_sequences \cup {Len(api_sequences) + 1}
          /\ api_sequences'[Len(api_sequences) + 1] = t
          /\ \A i \in DOMAIN api_sequences : api_sequences'[i] = api_sequences[i]
      BY <1>4, <1>8, <2>1
    <3> QED
      BY <1>2, <1>4, <2>1, <2>4, <3>1 DEF UpTo
  <2> QED
    BY <1>1, <1>4, <1>6, <2>3, <2>5, <2>7, <2>9, <2>10 DEF DeepInv
<1> QED
  BY <1>5, <1>7, <1>8 DEF Pushed

\* A round ends, and the search does unless the round covered something new.
LEMMA DeepNextLenKeeps ==
  ASSUME DeepInv, DeepNextLen
  PROVE  DeepInv'
<1>1. /\ pc = "deepen"
      /\ UNCHANGED <<algorithm, api_sequences, deep_covered_nodes, deep_covered_edges>>
  BY DEF DeepNextLen, deep_vars
<1>2. /\ len \in Nat /\ \A n \in 1..len : NewAt(api_sequences, n)
      /\ UpTo(api_sequences, len + 1)
      /\ deep_covered_nodes = NodesTo(api_sequences, len + 1)
      /\ deep_covered_edges = EdgesTo(api_sequences, len + 1)
      /\ has_new_coverage_flag <=> NewAt(api_sequences, len + 1)
  BY <1>1 DEF DeepInv
<1>3. CASE has_new_coverage_flag
  <2>1. pc' = "deep" /\ len' = len + 1
    BY <1>3 DEF DeepNextLen
  <2>2. ASSUME NEW n \in 1..(len + 1) PROVE NewAt(api_sequences, n)
    <3>1. n \in 1..len \/ n = len + 1
      BY <1>2
    <3> QED
      BY <1>2, <1>3, <3>1
  <2> QED
    BY <1>1, <1>2, <2>1, <2>2 DEF DeepInv, DeepRoundsEarnTheirKeep
<1>4. CASE ~has_new_coverage_flag
  <2>1. pc' = "done" /\ len' = len
    BY <1>4 DEF DeepNextLen
  <2>2. (len + 1) - 1 = len /\ len + 1 \in Int
    BY <1>2
  <2>3. CoverageUpTo(len + 1) = CoverageUpTo(len)
    BY <1>2, <1>4, <2>2, CoverageDiffers
  <2>4. ASSUME NEW n \in 1..len PROVE CoverageUpTo(n) # CoverageUpTo(n - 1)
    BY <1>2, CoverageDiffers
  <2>5. \A n : CoverageUpTo(n)' = CoverageUpTo(n)
    BY <1>1 DEF CoverageUpTo
  <2>6. DeepRoundsEarnTheirKeep'
    <3>1. ASSUME NEW n \in 1..len' PROVE CoverageUpTo(n)' # CoverageUpTo(n - 1)'
      BY <2>1, <2>4, <2>5
    <3>2. CoverageUpTo(len + 1)' = CoverageUpTo(len)'
      BY <1>1, <2>1, <2>3 DEF CoverageUpTo
    <3> QED
      BY <3>1, <3>2 DEF DeepRoundsEarnTheirKeep
  <2> QED
    BY <2>1, <2>6 DEF DeepInv
<1> QED
  BY <1>3, <1>4

\* One of the bounds ends the search.
LEMMA DeepStopKeeps ==
  ASSUME DeepInv, DeepStop
  PROVE  DeepInv'
<1>1. /\ pc = "deep" /\ pc' = "done" /\ DeepEnough
      /\ UNCHANGED <<len, api_sequences, api_functions_visited, max_sequence_number>>
  BY DEF DeepStop, deep_vars
<1>2. \A n \in 1..len : CoverageUpTo(n) # CoverageUpTo(n - 1)
  BY <1>1, CoverageDiffers DEF DeepInv
<1>3. \A n : CoverageUpTo(n)' = CoverageUpTo(n)
  BY <1>1 DEF CoverageUpTo
<1>4. DeepEnough'
  BY <1>1 DEF DeepEnough
<1>5. \A n \in 1..len' : CoverageUpTo(n)' # CoverageUpTo(n - 1)'
  BY <1>1, <1>2, <1>3
<1> QED
  BY <1>1, <1>4, <1>5 DEF DeepInv, DeepRoundsEarnTheirKeep

\* The deep search pays for no round in vain.
THEOREM DeepRoundsPay == Spec => []DeepRoundsEarnTheirKeep
<1>1. GenerationInit => DeepInv
  BY DEF GenerationInit, Init, DeepInit, DeepInv, DeepRoundsEarnTheirKeep
<1>2. ListInv /\ PcInv /\ DeepInv /\ [Next]_vars => DeepInv'
  <2> SUFFICES ASSUME ListInv, PcInv, DeepInv, [Next]_vars PROVE DeepInv'
    OBVIOUS
  <2>1. CASE DeepNext
    BY <2>1, DeepStartKeeps, DeepCollectKeeps, DeepExtendKeeps, DeepNextLenKeeps, DeepStopKeeps
    DEF DeepNext
  <2>2. ASSUME pc' \notin {"start", "deep", "deepen"}, ~(pc' = "done" /\ algorithm' = "_TryDeepBfs")
        PROVE  DeepInv'
    BY <2>2 DEF DeepInv, DeepRoundsEarnTheirKeep
  <2>3. CASE BfsNext
    BY <2>2, <2>3 DEF PcInv, ByBfs, AfterBfs, BfsNext, Start, Collect, Extend, NextLen, Finish
  <2>4. CASE BackwardNext
    BY <2>2, <2>4 DEF PcInv, BackwardNext, BackwardDirect, BackwardStart, BackwardRound,
                      CoverNode, EndRound, BackwardDone
  <2>5. CASE ChoiceNext
    BY <2>2, <2>5 DEF ChoiceNext, ChoiceStart, Choose, Switch, ChoiceEnd
  <2>6. CASE UNCHANGED vars
    <3>1. UNCHANGED <<algorithm, pc, len, todo, api_sequences, api_functions_visited, deep_vars>>
      BY <2>6 DEF vars, bfs_vars
    <3>2. UNCHANGED <<max_sequence_number, deep_covered_nodes, deep_covered_edges,
                      has_new_coverage_flag>>
      BY <3>1 DEF deep_vars
    <3>3. DeepRoundsEarnTheirKeep' <=> DeepRoundsEarnTheirKeep
      BY <3>1, <3>2 DEF DeepRoundsEarnTheirKeep, DeepEnough, CoverageUpTo
    <3> QED
      BY <3>1, <3>2, <3>3 DEF DeepInv
  <2> QED
    BY <2>1, <2>3, <2>4, <2>5, <2>6 DEF Next, Terminating
<1>3. DeepInv => DeepRoundsEarnTheirKeep
  BY DEF DeepInv
<1> QED
  BY <1>1, <1>2, <1>3, ListAlways, PcAlways, PTL DEF Spec

-----------------------------------------------------------------------------
(***************************************************************************)
(* The choice.                                                             *)
(***************************************************************************)

\* What has been chosen is valid; once the pass over the sequences of dynamic
\* length is over, none of them calls a function that is not covered.
ChoiceInv ==
  /\ sorted_chosen_sequences \in Seq(Nat) /\ try_to_find_dynamic_length_flag \in BOOLEAN
  /\ pc \notin {"choosing", "chosen"} =>
       sorted_chosen_sequences = <<>> /\ try_to_find_dynamic_length_flag
  /\ pc \in {"choosing", "chosen"} => already_chosen_sequences \subseteq Valid
  /\ pc = "choosing" /\ ~try_to_find_dynamic_length_flag =>
       \A j \in Valid : ~IsFuzzablesFixedLength(api_sequences[j]) =>
         Contained(api_sequences[j]) \subseteq already_covered_nodes
  /\ ChoiceCoversFunctions

\* Index j is the first of the best of E: most nodes, then most edges, then
\* shortest.
FirstOfBest(E, nodes, edges, size, j) ==
  \A k \in E :
    /\ nodes[k] <= nodes[j]
    /\ nodes[k] = nodes[j] => edges[k] <= edges[j]
    /\ nodes[k] = nodes[j] /\ edges[k] = edges[j] => size[k] >= size[j]
    /\ nodes[k] = nodes[j] /\ edges[k] = edges[j] /\ size[k] = size[j] => k >= j

\* Some index is the first of the best.
LEMMA FirstOfBestExists ==
  ASSUME NEW E \in SUBSET Nat, E # {}, NEW n \in Nat, NEW m \in Nat,
         NEW nodes \in [E -> 0..n], NEW edges \in [E -> 0..m], NEW size \in [E -> Nat]
  PROVE  \E j \in E : FirstOfBest(E, nodes, edges, size, j)
<1> DEFINE N == {nodes[k] : k \in E}
           E1 == {k \in E : nodes[k] = Max(N)}
           M == {edges[k] : k \in E1}
           E2 == {k \in E1 : edges[k] = Max(M)}
           S == {size[k] : k \in E2}
           E3 == {k \in E2 : size[k] = Min(S)}
<1>1. N \in SUBSET (0..n) /\ N # {}
  OBVIOUS
<1>2. Max(N) \in N /\ \A y \in N : y <= Max(N)
  BY <1>1, MaxIsGreatest
<1>3. E1 # {} /\ E1 \subseteq E
  BY <1>2
<1>4. M \in SUBSET (0..m) /\ M # {}
  BY <1>3
<1>5. Max(M) \in M /\ \A y \in M : y <= Max(M)
  BY <1>4, MaxIsGreatest
<1>6. E2 # {} /\ E2 \subseteq E1
  BY <1>5
<1>7. S \in SUBSET Nat /\ S # {}
  BY <1>3, <1>6
<1>8. Min(S) \in S /\ \A y \in S : Min(S) <= y
  BY <1>7, MinIsLeast
<1>9. E3 # {} /\ E3 \subseteq E2
  BY <1>8
<1>10. E3 \in SUBSET Nat
  BY <1>3, <1>6, <1>9
<1>11. Min(E3) \in E3 /\ \A y \in E3 : Min(E3) <= y
  BY <1>9, <1>10, MinIsLeast
<1> DEFINE j == Min(E3)
<1>12. j \in E /\ nodes[j] = Max(N) /\ edges[j] = Max(M) /\ size[j] = Min(S)
  BY <1>11
<1>13. ASSUME NEW k \in E
       PROVE  /\ nodes[k] <= nodes[j]
              /\ nodes[k] = nodes[j] => edges[k] <= edges[j]
              /\ nodes[k] = nodes[j] /\ edges[k] = edges[j] => size[k] >= size[j]
              /\ nodes[k] = nodes[j] /\ edges[k] = edges[j] /\ size[k] = size[j] => k >= j
  <2>1. nodes[k] \in N
    OBVIOUS
  <2>2. nodes[k] = Max(N) => k \in E1 /\ edges[k] \in M
    OBVIOUS
  <2>3. nodes[k] = Max(N) /\ edges[k] = Max(M) => k \in E2 /\ size[k] \in S
    BY <2>2
  <2>4. nodes[k] = Max(N) /\ edges[k] = Max(M) /\ size[k] = Min(S) => k \in E3
    BY <2>3
  <2> HIDE DEF N, E1, M, E2, S, E3, j
  <2>5. size[k] \in Nat /\ size[j] \in Nat /\ k \in Nat /\ j \in Nat
    BY <1>12
  <2>6. nodes[k] <= nodes[j]
    BY <1>2, <1>12, <2>1
  <2>7. nodes[k] = nodes[j] => edges[k] <= edges[j]
    BY <1>5, <1>12, <2>2
  <2>8. nodes[k] = nodes[j] /\ edges[k] = edges[j] => size[k] >= size[j]
    <3>1. ASSUME nodes[k] = nodes[j], edges[k] = edges[j] PROVE size[j] <= size[k]
      BY <1>8, <1>12, <2>3, <3>1
    <3> QED
      BY <2>5, <3>1
  <2>9. nodes[k] = nodes[j] /\ edges[k] = edges[j] /\ size[k] = size[j] => k >= j
    <3>1. ASSUME nodes[k] = nodes[j], edges[k] = edges[j], size[k] = size[j] PROVE j <= k
      BY <1>11, <1>12, <2>4, <3>1 DEF j
    <3> QED
      BY <2>5, <3>1
  <2> QED
    BY <2>6, <2>7, <2>8, <2>9
<1> HIDE DEF j
<1>14. FirstOfBest(E, nodes, edges, size, j)
  BY <1>13 DEF FirstOfBest
<1> QED
  BY <1>12, <1>14

\* The sizes that the choice compares.
LEMMA ChoiceSizes ==
  ASSUME ListInv, NEW j \in DOMAIN api_sequences
  PROVE  /\ NewNodes(j) \in 0..Cardinality(Funs)
         /\ NewEdges(j) \in 0..Cardinality(DOMAIN api_dependencies)
         /\ Len(api_sequences[j].functions) \in Nat
         /\ Contained(api_sequences[j]) \subseteq Funs
         /\ Nodes({j}) = Contained(api_sequences[j])
<1>1. api_sequences[j] \in Sequence
  BY DEF ListInv
<1>2. api_sequences[j].functions \in Seq(Calls)
  BY <1>1, SequenceLists
<1>3. api_sequences[j].covered_dependencies \subseteq DOMAIN api_dependencies
  BY <1>1 DEF Sequence
<1>4. ASSUME NEW c \in Calls PROVE c.func \in Funs
  BY DEF Calls
<1>5. Contained(api_sequences[j]) \subseteq Funs
  BY <1>2, <1>4 DEF Contained
<1>6. /\ Nodes({j}) = Contained(api_sequences[j])
      /\ Edges({j}) = api_sequences[j].covered_dependencies
  BY DEF Nodes, Edges
<1>7. IsFiniteSet(Funs) /\ IsFiniteSet(DOMAIN api_dependencies)
  BY FunctionsAssumption, DependenciesAssumption, FS_Interval
<1>8. ASSUME NEW A, NEW B, IsFiniteSet(B), A \subseteq B
      PROVE  Cardinality(A) \in 0..Cardinality(B)
  <2>1. IsFiniteSet(A) /\ Cardinality(A) <= Cardinality(B)
    BY <1>8, FS_Subset
  <2>2. Cardinality(A) \in Nat /\ Cardinality(B) \in Nat
    BY <1>8, <2>1, FS_CardinalityType
  <2> QED
    BY <2>1, <2>2
<1>9. NewNodes(j) \in 0..Cardinality(Funs)
  <2>1. Nodes({j}) \ already_covered_nodes \subseteq Funs
    BY <1>5, <1>6
  <2> QED
    BY <1>7, <1>8, <2>1 DEF NewNodes
<1>10. NewEdges(j) \in 0..Cardinality(DOMAIN api_dependencies)
  <2>1. Edges({j}) \ already_covered_edges \subseteq DOMAIN api_dependencies
    BY <1>3, <1>6
  <2> QED
    BY <1>7, <1>8, <2>1 DEF NewEdges
<1>11. Len(api_sequences[j].functions) \in Nat
  BY <1>2
<1> QED
  BY <1>5, <1>6, <1>9, <1>10, <1>11

\* An iteration that finds no sequence with a new function has none to find.
LEMMA NothingNewLeft ==
  ASSUME ListInv, \A j \in Best : NewNodes(j) = 0, NEW e \in Eligible
  PROVE  Contained(api_sequences[e]) \subseteq already_covered_nodes
<1> DEFINE E == Eligible
           nodes == [k \in E |-> NewNodes(k)]
           edges == [k \in E |-> NewEdges(k)]
           size == [k \in E |-> Len(api_sequences[k].functions)]
<1>1. E \subseteq DOMAIN api_sequences
  BY DEF Eligible, Valid
<1>2. DOMAIN api_sequences \subseteq Nat
  <2>1. api_sequences \in Seq(Sequence)
    BY DEF ListInv
  <2> QED
    BY <2>1
<1>3. Cardinality(Funs) \in Nat /\ Cardinality(DOMAIN api_dependencies) \in Nat
  BY FunctionsAssumption, DependenciesAssumption, FS_Interval, FS_CardinalityType
<1>4. /\ nodes \in [E -> 0..Cardinality(Funs)]
      /\ edges \in [E -> 0..Cardinality(DOMAIN api_dependencies)]
      /\ size \in [E -> Nat]
  BY <1>1, ChoiceSizes
<1>5. E \in SUBSET Nat /\ E # {}
  BY <1>1, <1>2
<1> HIDE DEF E, nodes, edges, size
<1>6. PICK j \in E : FirstOfBest(E, nodes, edges, size, j)
  BY <1>3, <1>4, <1>5, FirstOfBestExists
<1>7. ASSUME NEW k \in E
      PROVE  /\ nodes[k] = NewNodes(k) /\ NewNodes(k) \in Nat
             /\ edges[k] = NewEdges(k) /\ NewEdges(k) \in Nat
             /\ size[k] = Len(api_sequences[k].functions)
             /\ Len(api_sequences[k].functions) \in Nat /\ k \in Nat
  <2>1. /\ nodes[k] = NewNodes(k) /\ edges[k] = NewEdges(k)
        /\ size[k] = Len(api_sequences[k].functions)
    BY DEF nodes, edges, size
  <2>2. nodes[k] \in Nat /\ edges[k] \in Nat /\ size[k] \in Nat /\ k \in Nat
    BY <1>3, <1>4, <1>5
  <2> QED
    BY <2>1, <2>2
<1>8. NewNodes(j) = 0
  <2> SUFFICES ASSUME NewNodes(j) # 0 PROVE FALSE
    OBVIOUS
  <2>1. NewNodes(j) > 0
    BY <1>7
  <2>2. ASSUME NEW k \in E PROVE ~Better(k, j) /\ (k < j => Better(j, k))
    <3>1. /\ nodes[k] <= nodes[j]
          /\ nodes[k] = nodes[j] => edges[k] <= edges[j]
          /\ nodes[k] = nodes[j] /\ edges[k] = edges[j] => size[k] >= size[j]
          /\ nodes[k] = nodes[j] /\ edges[k] = edges[j] /\ size[k] = size[j] => k >= j
      BY <1>6 DEF FirstOfBest
    <3> QED
      BY <1>7, <3>1 DEF Better
  <2>3. j \in Best
    BY <2>1, <2>2 DEF Best, E
  <2> QED
    BY <2>1, <2>3
<1>9. nodes[e] <= nodes[j] /\ e \in E
  BY <1>6 DEF FirstOfBest, E
<1>10. NewNodes(e) = 0
  BY <1>7, <1>8, <1>9
<1>11. /\ Contained(api_sequences[e]) \subseteq Funs /\ Nodes({e}) = Contained(api_sequences[e])
  BY <1>1, <1>9, ChoiceSizes
<1>12. IsFiniteSet(Nodes({e}) \ already_covered_nodes)
  BY <1>11, FunsFinite
<1>13. Nodes({e}) \ already_covered_nodes = {}
  BY <1>10, <1>12, FS_EmptySet DEF NewNodes
<1> QED
  BY <1>11, <1>13

\* Chosen sequences cover no more than the valid ones, and if their numbers are
\* equal the same.
LEMMA ChosenAmongValid ==
  ASSUME ListInv, NEW chosen \in SUBSET Valid
  PROVE  /\ Nodes(chosen) \subseteq Nodes(Valid)
         /\ Cardinality(chosen) = Cardinality(Valid) => Nodes(chosen) = Nodes(Valid)
         /\ Cardinality(Nodes(chosen)) = Cardinality(Nodes(Valid)) =>
              Nodes(chosen) = Nodes(Valid)
<1>1. Valid \subseteq DOMAIN api_sequences
  BY DEF Valid
<1>2. Nodes(chosen) \subseteq Nodes(Valid)
  BY DEF Nodes
<1>3. IsFiniteSet(Valid)
  <2>1. api_sequences \in Seq(Sequence)
    BY DEF ListInv
  <2>2. DOMAIN api_sequences = 1..Len(api_sequences) /\ Len(api_sequences) \in Nat
    BY <2>1
  <2>3. IsFiniteSet(DOMAIN api_sequences)
    BY <2>2, FS_Interval
  <2> QED
    BY <1>1, <2>3, FS_Subset
<1>4. Nodes(Valid) \subseteq Funs
  <2>1. ASSUME NEW j \in Valid PROVE Contained(api_sequences[j]) \subseteq Funs
    BY <1>1, ChoiceSizes
  <2> QED
    BY <2>1 DEF Nodes
<1>5. IsFiniteSet(Nodes(Valid))
  BY <1>4, FunsFinite
<1>6. Cardinality(chosen) = Cardinality(Valid) => chosen = Valid
  BY <1>3, FS_Subset
<1>7. Cardinality(Nodes(chosen)) = Cardinality(Nodes(Valid)) => Nodes(chosen) = Nodes(Valid)
  BY <1>2, <1>5, FS_Subset
<1> QED
  BY <1>2, <1>6, <1>7

\* The choice begins.
LEMMA ChoiceStartKeeps ==
  ASSUME ChoiceInv, ChoiceStart
  PROVE  ChoiceInv'
<1>1. /\ pc = "done" /\ pc' = IF Valid = {} THEN "chosen" ELSE "choosing"
      /\ UNCHANGED <<api_sequences, try_to_find_dynamic_length_flag, sorted_chosen_sequences>>
  BY DEF ChoiceStart
<1>2. /\ sorted_chosen_sequences = <<>> /\ try_to_find_dynamic_length_flag
      /\ sorted_chosen_sequences \in Seq(Nat) /\ try_to_find_dynamic_length_flag \in BOOLEAN
  BY <1>1 DEF ChoiceInv
<1>3. already_chosen_sequences' = {}
  BY <1>1, <1>2 DEF already_chosen_sequences, Range
<1>4. Valid' = Valid
  BY <1>1 DEF Valid
<1>5. ChoiceCoversFunctions'
  <2> SUFFICES ASSUME pc' = "chosen" PROVE already_covered_nodes' = Nodes(Valid)'
    BY DEF ChoiceCoversFunctions
  <2>1. Valid = {}
    BY <1>1
  <2> QED
    BY <1>3, <1>4, <2>1 DEF already_covered_nodes, Nodes
<1> QED
  BY <1>1, <1>2, <1>3, <1>5 DEF ChoiceInv

\* A sequence is chosen.
LEMMA ChooseKeeps ==
  ASSUME ListInv, ChoiceInv, Choose
  PROVE  ChoiceInv'
<1>1. PICK j \in Best :
        /\ sorted_chosen_sequences' = Append(sorted_chosen_sequences, j)
        /\ pc' = IF Enough(already_chosen_sequences \cup {j}) THEN "chosen" ELSE pc
  BY DEF Choose
<1>2. /\ pc = "choosing"
      /\ UNCHANGED <<api_sequences, stop_at_visit_all_nodes, try_to_find_dynamic_length_flag>>
  BY DEF Choose
<1>3. /\ sorted_chosen_sequences \in Seq(Nat) /\ try_to_find_dynamic_length_flag \in BOOLEAN
      /\ already_chosen_sequences \subseteq Valid
  BY <1>2 DEF ChoiceInv
<1>4. j \in Valid
  BY DEF Best, Eligible
<1>5. j \in Nat
  <2>1. api_sequences \in Seq(Sequence)
    BY DEF ListInv
  <2> QED
    BY <1>4, <2>1 DEF Valid
<1>6. already_chosen_sequences' = already_chosen_sequences \cup {j}
  <2>1. /\ DOMAIN sorted_chosen_sequences' =
             DOMAIN sorted_chosen_sequences \cup {Len(sorted_chosen_sequences) + 1}
        /\ sorted_chosen_sequences'[Len(sorted_chosen_sequences) + 1] = j
        /\ \A i \in DOMAIN sorted_chosen_sequences :
             sorted_chosen_sequences'[i] = sorted_chosen_sequences[i]
    BY <1>1, <1>3, <1>5
  <2> QED
    BY <2>1 DEF already_chosen_sequences, Range
<1>7. sorted_chosen_sequences' \in Seq(Nat)
  BY <1>1, <1>3, <1>5
<1>8. Valid' = Valid /\ \A S : Nodes(S)' = Nodes(S) /\ Edges(S)' = Edges(S)
  BY <1>2 DEF Valid, Nodes, Edges
<1> DEFINE chosen == already_chosen_sequences \cup {j}
<1>9. chosen \in SUBSET Valid
  BY <1>3, <1>4
<1>10. /\ already_covered_nodes' = Nodes(chosen) /\ already_covered_edges' = Edges(chosen)
       /\ Nodes(Valid)' = Nodes(Valid)
  BY <1>2, <1>6, <1>8 DEF already_covered_nodes, already_covered_edges, Nodes, Edges
<1>11. already_covered_nodes \subseteq Nodes(chosen)
  BY DEF already_covered_nodes, Nodes
<1> HIDE DEF chosen
<1>12. ChoiceCoversFunctions'
  <2> SUFFICES ASSUME pc' = "chosen"
               PROVE  \/ /\ api_dependencies # <<>>
                         /\ Cardinality(already_covered_edges') = Len(api_dependencies)
                      \/ already_covered_nodes' = Nodes(Valid)'
    BY DEF ChoiceCoversFunctions
  <2>1. Enough(chosen)
    BY <1>1, <1>2 DEF chosen
  <2>2. CASE Cardinality(chosen) = Cardinality(Valid)
    BY <1>9, <1>10, <2>2, ChosenAmongValid
  <2>3. CASE api_dependencies # <<>> /\ Cardinality(Edges(chosen)) = Len(api_dependencies)
    BY <1>10, <2>3
  <2>4. CASE Cardinality(Nodes(chosen)) = Cardinality(Nodes(Valid))
    BY <1>9, <1>10, <2>4, ChosenAmongValid
  <2> QED
    BY <2>1, <2>2, <2>3, <2>4 DEF Enough
<1>13. ASSUME pc' = "choosing", ~try_to_find_dynamic_length_flag', NEW k \in Valid',
              ~IsFuzzablesFixedLength(api_sequences[k])'
       PROVE  Contained(api_sequences[k])' \subseteq already_covered_nodes'
  <2>1. /\ k \in Valid /\ ~IsFuzzablesFixedLength(api_sequences[k])
        /\ ~try_to_find_dynamic_length_flag
    BY <1>2, <1>8, <1>13 DEF IsFuzzablesFixedLength
  <2>2. Contained(api_sequences[k]) \subseteq already_covered_nodes
    BY <1>2, <2>1 DEF ChoiceInv
  <2>3. Contained(api_sequences[k])' = Contained(api_sequences[k])
    BY <1>2
  <2> QED
    BY <1>10, <1>11, <2>2, <2>3
<1>14. pc' \in {"choosing", "chosen"} /\ already_chosen_sequences' \subseteq Valid'
  BY <1>1, <1>2, <1>6, <1>8, <1>9 DEF chosen
<1> QED
  BY <1>2, <1>3, <1>7, <1>12, <1>13, <1>14 DEF ChoiceInv

\* The pass over the sequences of dynamic length is over.
LEMMA SwitchKeeps ==
  ASSUME ListInv, ChoiceInv, Switch
  PROVE  ChoiceInv'
<1>1. /\ pc = "choosing" /\ pc' = "choosing" /\ try_to_find_dynamic_length_flag
      /\ try_to_find_dynamic_length_flag' = FALSE /\ \A j \in Best : NewNodes(j) = 0
      /\ UNCHANGED <<api_sequences, sorted_chosen_sequences>>
  BY DEF Switch
<1>2. sorted_chosen_sequences \in Seq(Nat) /\ already_chosen_sequences \subseteq Valid
  BY <1>1 DEF ChoiceInv
<1>3. /\ Valid' = Valid /\ already_chosen_sequences' = already_chosen_sequences
      /\ already_covered_nodes' = already_covered_nodes
  BY <1>1 DEF Valid, already_chosen_sequences, already_covered_nodes, Nodes
<1>4. ASSUME NEW k \in Valid, ~IsFuzzablesFixedLength(api_sequences[k])
      PROVE  Contained(api_sequences[k]) \subseteq already_covered_nodes
  <2>1. CASE k \in already_chosen_sequences
    BY <2>1 DEF already_covered_nodes, Nodes
  <2>2. CASE k \notin already_chosen_sequences
    <3>1. k \in Eligible
      BY <1>1, <1>4, <2>2 DEF Eligible, IsFuzzablesFixedLength
    <3> QED
      BY <1>1, <3>1, NothingNewLeft
  <2> QED
    BY <2>1, <2>2
<1>5. ASSUME NEW k \in Valid', ~IsFuzzablesFixedLength(api_sequences[k])'
      PROVE  Contained(api_sequences[k])' \subseteq already_covered_nodes'
  <2>1. k \in Valid /\ ~IsFuzzablesFixedLength(api_sequences[k])
    BY <1>1, <1>3, <1>5
  <2>2. Contained(api_sequences[k])' = Contained(api_sequences[k])
    BY <1>1
  <2> QED
    BY <1>3, <1>4, <2>1, <2>2
<1>6. ChoiceCoversFunctions'
  BY <1>1 DEF ChoiceCoversFunctions
<1> QED
  BY <1>1, <1>2, <1>3, <1>5, <1>6 DEF ChoiceInv

\* The choice ends.
LEMMA ChoiceEndKeeps ==
  ASSUME ListInv, ChoiceInv, ChoiceEnd
  PROVE  ChoiceInv'
<1>1. /\ pc = "choosing" /\ pc' = "chosen"
      /\ UNCHANGED <<api_sequences, max_size, iterations, sorted_chosen_sequences,
                     try_to_find_dynamic_length_flag>>
  BY DEF ChoiceEnd, choice_vars
<1>2. /\ sorted_chosen_sequences \in Seq(Nat) /\ try_to_find_dynamic_length_flag \in BOOLEAN
      /\ already_chosen_sequences \subseteq Valid
  BY <1>1 DEF ChoiceInv
<1>3. /\ Valid' = Valid /\ already_chosen_sequences' = already_chosen_sequences
      /\ already_covered_nodes' = already_covered_nodes /\ Nodes(Valid)' = Nodes(Valid)
  BY <1>1 DEF Valid, already_chosen_sequences, already_covered_nodes, Nodes
<1>4. ASSUME ~try_to_find_dynamic_length_flag, Best = {}
      PROVE  already_covered_nodes = Nodes(Valid)
  <2>1. ASSUME NEW k \in Valid PROVE Contained(api_sequences[k]) \subseteq already_covered_nodes
    <3>1. CASE ~IsFuzzablesFixedLength(api_sequences[k])
      BY <1>1, <1>4, <3>1 DEF ChoiceInv
    <3>2. CASE k \in already_chosen_sequences
      BY <3>2 DEF already_covered_nodes, Nodes
    <3>3. CASE IsFuzzablesFixedLength(api_sequences[k]) /\ k \notin already_chosen_sequences
      <4>1. k \in Eligible
        BY <1>2, <1>4, <3>3 DEF Eligible
      <4>2. \A j \in Best : NewNodes(j) = 0
        BY <1>4
      <4> QED
        BY <4>1, <4>2, NothingNewLeft
    <3> QED
      BY <3>1, <3>2, <3>3
  <2>2. Nodes(Valid) \subseteq already_covered_nodes
    BY <2>1 DEF Nodes
  <2>3. already_covered_nodes \subseteq Nodes(Valid)
    BY <1>2, ChosenAmongValid DEF already_covered_nodes
  <2> QED
    BY <2>2, <2>3
<1>5. iterations = max_size + 1 \/ already_covered_nodes = Nodes(Valid)
  BY <1>4 DEF ChoiceEnd
<1>6. ChoiceCoversFunctions'
  BY <1>1, <1>3, <1>5 DEF ChoiceCoversFunctions
<1> QED
  BY <1>1, <1>2, <1>3, <1>6 DEF ChoiceInv

\* A choice that was not cut short leaves no function out that some valid
\* sequence calls, whatever the searches have found.
THEOREM ChoiceLeavesNothingOut == Spec => []ChoiceCoversFunctions
<1>1. GenerationInit => ChoiceInv
  BY DEF GenerationInit, Init, ChoiceInit, ChoiceInv, ChoiceCoversFunctions
<1>2. ListInv /\ ChoiceInv /\ [Next]_vars => ChoiceInv'
  <2> SUFFICES ASSUME ListInv, ChoiceInv, [Next]_vars PROVE ChoiceInv'
    OBVIOUS
  <2>1. CASE ChoiceNext
    BY <2>1, ChoiceStartKeeps, ChooseKeeps, SwitchKeeps, ChoiceEndKeeps DEF ChoiceNext
  <2>2. ASSUME pc \notin {"choosing", "chosen"}, pc' \notin {"choosing", "chosen"},
               UNCHANGED choice_vars
        PROVE  ChoiceInv'
    <3>1. UNCHANGED <<try_to_find_dynamic_length_flag, sorted_chosen_sequences>>
      BY <2>2 DEF choice_vars
    <3> QED
      BY <2>2, <3>1 DEF ChoiceInv, ChoiceCoversFunctions
  <2>3. CASE BfsNext /\ UNCHANGED choice_vars
    BY <2>2, <2>3 DEF AfterBfs, BfsNext, Start, Collect, Extend, NextLen, Finish
  <2>4. CASE DeepNext /\ UNCHANGED choice_vars
    BY <2>2, <2>4 DEF DeepNext, DeepStart, DeepCollect, DeepExtend, DeepNextLen, DeepStop
  <2>5. CASE BackwardNext /\ UNCHANGED choice_vars
    BY <2>2, <2>5 DEF BackwardNext, BackwardDirect, BackwardStart, BackwardRound,
                      CoverNode, EndRound, BackwardDone
  <2>6. CASE UNCHANGED vars
    <3>1. UNCHANGED <<pc, api_sequences, max_size, iterations, sorted_chosen_sequences,
                      try_to_find_dynamic_length_flag>>
      BY <2>6 DEF vars, bfs_vars, choice_vars
    <3>2. /\ Valid' = Valid /\ already_chosen_sequences' = already_chosen_sequences
          /\ already_covered_nodes' = already_covered_nodes
          /\ already_covered_edges' = already_covered_edges /\ Nodes(Valid)' = Nodes(Valid)
      BY <3>1 DEF Valid, already_chosen_sequences, already_covered_nodes,
                  already_covered_edges, Nodes, Edges
    <3>3. ChoiceCoversFunctions' <=> ChoiceCoversFunctions
      BY <3>1, <3>2 DEF ChoiceCoversFunctions
    <3> QED
      BY <3>1, <3>2, <3>3 DEF ChoiceInv
  <2> QED
    BY <2>1, <2>3, <2>4, <2>5, <2>6 DEF Next, Terminating
<1>3. ChoiceInv => ChoiceCoversFunctions
  BY DEF ChoiceInv
<1> QED
  BY <1>1, <1>2, <1>3, ListAlways, PTL DEF Spec

=============================================================================
