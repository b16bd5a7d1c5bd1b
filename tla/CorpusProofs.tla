------------------------------ MODULE CorpusProofs ------------------------------
(***************************************************************************)
(* The propagation of dependencies computes their closure, for bodies of   *)
(* any size; and what is learnt from them, the sequences, the counts and   *)
(* the pairs of functions, is what is in the program.                      *)
(***************************************************************************)
EXTENDS Corpus, FiniteSetTheorems, WellFoundedInduction, TLAPS

Active == pc \in {"propagate", "origins"}

TypeInv ==
  /\ corpus \in Corpora /\ caller \in DOMAIN corpus
  /\ to_compute \subseteq DOMAIN corpus
  /\ Active => dependencies \in [Locals(Body) -> SUBSET Ids(Body)]
  /\ pc = "propagate" => index \in Locals(Body) /\ idx \in 0..Body.locals

\* The rows have the direct dependencies,
HasDirect ==
  Active => \A l \in Locals(Body) :
    /\ l \in dependencies[l]
    /\ \A d \in Ids(Body) : <<l, d>> \in Body.assigns => d \in dependencies[l]

\* and nothing that is not a dependency.
HasNoOther ==
  Active => \A S \in SUBSET Ids(Body) : Closed(S) =>
    \A l \in S \cap Locals(Body) : dependencies[l] \subseteq S

\* A row that is done holds the rows of what it depends on, and they grow only
\* by what it holds already.
RowsDone ==
  Active => \A i \in Locals(Body) : (pc = "origins" \/ i < index) =>
    \A k \in dependencies[i] \cap Locals(Body) : dependencies[k] \subseteq dependencies[i]

\* The row that is propagated holds what it held before the pass, and the rows
\* looked at of what it depended on then.
PassInv ==
  pc = "propagate" =>
    /\ previous_iteration \subseteq dependencies[index]
    /\ \A k \in previous_iteration \cap Locals(Body) :
         k < idx => dependencies[k] \subseteq dependencies[index]

IInv == TypeInv /\ HasDirect /\ HasNoOther /\ RowsDone /\ PassInv

-----------------------------------------------------------------------------
\* The locals of a body, and its constants, are numbers.
LEMMA BodyType ==
  ASSUME NEW c \in Corpora, NEW f \in DOMAIN c
  PROVE  /\ c[f].locals \in Nat /\ c[f].locals > 0 /\ c[f].constants \in Nat
         /\ 0 \in Locals(c[f])
         /\ Locals(c[f]) \subseteq Nat
         /\ Locals(c[f]) \subseteq Ids(c[f])
         /\ \A l \in Locals(c[f]) : l < c[f].locals
         /\ \A n \in Nat : n < c[f].locals => n \in Locals(c[f])
<1>1. c[f].locals \in Nat \ {0} /\ c[f].constants \in Nat
  BY CorporaAssumption
<1> QED
  BY <1>1 DEF Locals, Ids

\* At first no body is looked at.
LEMMA Initially == Init => IInv
  BY DEF Init, IInv, TypeInv, HasDirect, HasNoOther, RowsDone, PassInv, Active

\* What is closed and holds a local holds its direct dependencies.
LEMMA DirectStep ==
  ASSUME IInv, NEW f \in DOMAIN corpus, DirectDependencies(f)
  PROVE  IInv'
<1> DEFINE body == corpus[f]
<1>1. /\ pc' = "propagate" /\ corpus' = corpus /\ caller' = f /\ f \in to_compute
      /\ to_compute' = to_compute \ {f} /\ index' = 0 /\ idx' = 0
      /\ previous_iteration' = dependencies'[0]
      /\ dependencies' = [l \in Locals(body) |->
                            {l} \cup {d \in Ids(body) : <<l, d>> \in body.assigns}]
  BY DEF DirectDependencies
<1>2. corpus \in Corpora
  BY DEF IInv, TypeInv
<1>3. /\ body.locals \in Nat /\ 0 \in Locals(body) /\ Locals(body) \subseteq Nat
      /\ Locals(body) \subseteq Ids(body)
  BY <1>2, BodyType
<1>4. Body' = body
  BY <1>1 DEF Body
<1> HIDE DEF body
<1>5. dependencies' \in [Locals(body) -> SUBSET Ids(body)]
  BY <1>1, <1>3
<1>6. TypeInv'
  BY <1>1, <1>2, <1>3, <1>4, <1>5 DEF TypeInv, IInv, Active
<1>7. HasDirect'
  BY <1>1, <1>3, <1>4 DEF HasDirect
<1>8. HasNoOther'
  <2> SUFFICES ASSUME NEW S \in SUBSET Ids(body), Closed(S)',
                      NEW l \in S \cap Locals(body)
               PROVE  dependencies'[l] \subseteq S
    BY <1>4 DEF HasNoOther
  <2>1. \A d \in Ids(body) : <<l, d>> \in body.assigns => d \in S
    BY <1>4 DEF Closed
  <2> QED
    BY <1>1, <2>1
<1>9. RowsDone'
  BY <1>1, <1>3, <1>4 DEF RowsDone
<1>10. PassInv'
  BY <1>1, <1>3, <1>4 DEF PassInv
<1> QED
  BY <1>6, <1>7, <1>8, <1>9, <1>10 DEF IInv

\* The row grows by that of a local it depends on.
LEMMA OrRowStep == IInv /\ OrRow => IInv'
<1> SUFFICES ASSUME IInv, OrRow PROVE IInv'
  OBVIOUS
<1>1. /\ pc = "propagate" /\ pc' = pc /\ corpus' = corpus /\ caller' = caller
      /\ to_compute' = to_compute
      /\ index' = index /\ previous_iteration' = previous_iteration
      /\ idx < Body.locals /\ idx' = idx + 1
  BY DEF OrRow
<1>2. Body' = Body
  BY <1>1 DEF Body
<1>3. Active
  BY <1>1 DEF Active
<1>4. /\ corpus \in Corpora /\ caller \in DOMAIN corpus /\ to_compute \subseteq DOMAIN corpus
      /\ dependencies \in [Locals(Body) -> SUBSET Ids(Body)]
      /\ index \in Locals(Body) /\ idx \in 0..Body.locals
  BY <1>1, <1>3 DEF IInv, TypeInv
<1>5. Body.locals \in Nat /\ Locals(Body) \subseteq Nat /\ idx \in Locals(Body)
  BY <1>1, <1>4, BodyType DEF Body
<1>6. \/ dependencies' = dependencies /\ (idx = index \/ idx \notin dependencies[index])
      \/ /\ idx # index /\ idx \in dependencies[index]
         /\ dependencies' = [dependencies EXCEPT ![index] = @ \cup dependencies[idx]]
  BY DEF OrRow
<1>7. \A l \in Locals(Body) :
        /\ l # index => dependencies'[l] = dependencies[l]
        /\ dependencies[l] \subseteq dependencies'[l]
  BY <1>4, <1>6
<1>8. \/ dependencies'[index] = dependencies[index]
      \/ /\ idx \in dependencies[index]
         /\ dependencies'[index] = dependencies[index] \cup dependencies[idx]
  BY <1>4, <1>6
<1>9. TypeInv'
  <2>1. dependencies' \in [Locals(Body) -> SUBSET Ids(Body)]
    BY <1>4, <1>5, <1>6
  <2> QED
    BY <1>1, <1>2, <1>4, <1>5, <2>1 DEF TypeInv
<1>10. HasDirect'
  BY <1>1, <1>2, <1>3, <1>7 DEF HasDirect, IInv
<1>11. HasNoOther'
  <2> SUFFICES ASSUME NEW S \in SUBSET Ids(Body), Closed(S),
                      NEW l \in S \cap Locals(Body)
               PROVE  dependencies'[l] \subseteq S
    BY <1>2, <1>1 DEF HasNoOther, Closed
  <2>1. \A m \in S \cap Locals(Body) : dependencies[m] \subseteq S
    BY <1>3 DEF IInv, HasNoOther
  <2> QED
    BY <1>5, <1>7, <1>8, <2>1
<1>12. RowsDone'
  <2> SUFFICES ASSUME NEW i \in Locals(Body), i < index,
                      NEW k \in dependencies'[i] \cap Locals(Body)
               PROVE  dependencies'[k] \subseteq dependencies'[i]
    BY <1>1, <1>2 DEF RowsDone
  <2>1. i # index /\ dependencies'[i] = dependencies[i]
    BY <1>4, <1>5, <1>7
  <2>2. \A m \in dependencies[i] \cap Locals(Body) : dependencies[m] \subseteq dependencies[i]
    BY <1>3 DEF IInv, RowsDone
  <2> QED
    BY <1>5, <1>7, <1>8, <2>1, <2>2
<1>13. PassInv'
  <2>1. previous_iteration \subseteq dependencies'[index]
    BY <1>1, <1>4, <1>7 DEF IInv, PassInv
  <2>2. ASSUME NEW k \in previous_iteration \cap Locals(Body), k < idx + 1
        PROVE  dependencies'[k] \subseteq dependencies'[index]
    <3>1. CASE k = index
      BY <3>1
    <3>2. CASE k # index /\ k < idx
      <4>1. dependencies[k] \subseteq dependencies[index]
        BY <1>1, <3>2 DEF IInv, PassInv
      <4> QED
        BY <1>4, <1>7, <3>2, <4>1
    <3>3. CASE k # index /\ k = idx
      <4>1. idx \in dependencies[index]
        BY <1>1, <2>2, <3>3 DEF IInv, PassInv
      <4>2. dependencies'[index] = dependencies[index] \cup dependencies[idx]
        BY <1>4, <1>6, <3>3, <4>1
      <4> QED
        BY <1>7, <3>3, <4>2
    <3>4. k < idx \/ k = idx
      BY <1>4, <1>5, <2>2
    <3> QED
      BY <3>1, <3>2, <3>3, <3>4
  <2> QED
    BY <1>1, <1>2, <2>1, <2>2 DEF PassInv
<1> QED
  BY <1>9, <1>10, <1>11, <1>12, <1>13 DEF IInv

\* Another pass begins with the row as it is.
LEMMA PassAgainStep == IInv /\ PassAgain => IInv'
<1> SUFFICES ASSUME IInv, PassAgain PROVE IInv'
  OBVIOUS
<1>1. /\ pc = "propagate" /\ idx' = 0 /\ previous_iteration' = dependencies[index]
      /\ UNCHANGED <<pc, corpus, to_compute, caller, dependencies, index>>
  BY DEF PassAgain
<1>2. Body' = Body
  BY <1>1 DEF Body
<1>3. /\ corpus \in Corpora /\ caller \in DOMAIN corpus
  BY DEF IInv, TypeInv
<1>4. Body.locals \in Nat /\ Locals(Body) \subseteq Nat
  BY <1>3, BodyType DEF Body
<1>5. TypeInv'
  BY <1>1, <1>2, <1>4 DEF IInv, TypeInv, Active
<1>6. HasDirect' /\ RowsDone'
  BY <1>1, <1>2 DEF IInv, HasDirect, RowsDone, Active
<1>7. HasNoOther'
  BY <1>1, <1>2 DEF IInv, HasNoOther, Active, Closed
<1>8. PassInv'
  BY <1>1, <1>2, <1>4 DEF PassInv
<1> QED
  BY <1>5, <1>6, <1>7, <1>8 DEF IInv

\* A pass that changes nothing has gone through all rows the row depends on.
LEMMA NextRowStep == IInv /\ NextRow => IInv'
<1> SUFFICES ASSUME IInv, NextRow PROVE IInv'
  OBVIOUS
<1>1. /\ pc = "propagate" /\ idx = Body.locals /\ dependencies[index] = previous_iteration
      /\ UNCHANGED <<corpus, to_compute, caller, dependencies>>
  BY DEF NextRow, Stable
<1>2. \/ /\ index + 1 < Body.locals /\ pc' = "propagate" /\ index' = index + 1 /\ idx' = 0
         /\ previous_iteration' = dependencies[index + 1]
      \/ index + 1 >= Body.locals /\ pc' = "origins"
  <2>1. index + 1 \in Nat /\ Body.locals \in Nat
    BY <1>1, BodyType DEF IInv, TypeInv, Body
  <2> QED
    BY <2>1 DEF NextRow
<1>3. Body' = Body
  BY <1>1 DEF Body
<1>4. Active /\ Active'
  BY <1>1, <1>2 DEF Active
<1>5. /\ corpus \in Corpora /\ caller \in DOMAIN corpus /\ to_compute \subseteq DOMAIN corpus
      /\ dependencies \in [Locals(Body) -> SUBSET Ids(Body)] /\ index \in Locals(Body)
  BY <1>1, <1>4 DEF IInv, TypeInv
<1>6. /\ Body.locals \in Nat /\ Locals(Body) \subseteq Nat
      /\ \A l \in Locals(Body) : l < Body.locals
      /\ \A n \in Nat : n < Body.locals => n \in Locals(Body)
  BY <1>5, BodyType DEF Body
<1>7. index \in Nat /\ (index + 1 < Body.locals => index + 1 \in Locals(Body))
  BY <1>5, <1>6
<1>8. TypeInv'
  BY <1>1, <1>2, <1>3, <1>4, <1>5, <1>6, <1>7 DEF TypeInv
<1>9. HasDirect'
  BY <1>1, <1>3, <1>4 DEF IInv, HasDirect
<1>10. HasNoOther'
  BY <1>1, <1>3, <1>4 DEF IInv, HasNoOther, Closed
<1>11. \A k \in dependencies[index] \cap Locals(Body) : dependencies[k] \subseteq dependencies[index]
  BY <1>1, <1>6 DEF IInv, PassInv
<1>12. RowsDone'
  <2> SUFFICES ASSUME NEW i \in Locals(Body), pc' = "origins" \/ i < index'
               PROVE  \A k \in dependencies[i] \cap Locals(Body) :
                        dependencies[k] \subseteq dependencies[i]
    BY <1>1, <1>3 DEF RowsDone
  <2>1. i < index \/ i = index
    BY <1>2, <1>6, <1>7
  <2>2. CASE i < index
    BY <1>4, <2>2 DEF IInv, RowsDone
  <2>3. CASE i = index
    BY <1>11, <2>3
  <2> QED
    BY <2>1, <2>2, <2>3
<1>13. PassInv'
  BY <1>1, <1>2, <1>3, <1>6 DEF PassInv
<1> QED
  BY <1>8, <1>9, <1>10, <1>12, <1>13 DEF IInv

\* The steps of the other phases leave the propagation alone.
LEMMA OtherStep ==
  ASSUME IInv, UNCHANGED <<corpus, propagateVars>>, to_compute' \subseteq to_compute,
         pc' # "propagate",
         pc' = "origins" => pc = "origins"
  PROVE  IInv'
<1>1. UNCHANGED <<caller, dependencies, index, idx, previous_iteration>>
  BY DEF propagateVars
<1>2. Body' = Body
  BY <1>1 DEF Body
<1>3. Active' => pc = "origins" /\ pc' = "origins"
  BY DEF Active
<1> QED
  BY <1>1, <1>2, <1>3
  DEF IInv, TypeInv, HasDirect, HasNoOther, RowsDone, PassInv, Active, Closed

\* Each step keeps the propagation right.
LEMMA Step == IInv /\ [Next]_vars => IInv'
<1> SUFFICES ASSUME IInv, [Next]_vars PROVE IInv'
  OBVIOUS
<1>1. ASSUME NEW f \in DOMAIN corpus, DirectDependencies(f) PROVE IInv'
  BY <1>1, DirectStep
<1>2. CASE OrRow
  BY <1>2, OrRowStep
<1>3. CASE PassAgain
  BY <1>3, PassAgainStep
<1>4. CASE NextRow
  BY <1>4, NextRowStep
<1>5. CASE CalleeDependencies
  BY <1>5, OtherStep DEF CalleeDependencies
<1>6. ASSUME NEW f \in DOMAIN corpus, StartFrom(f) PROVE IInv'
  BY <1>6, OtherStep DEF StartFrom
<1>7. CASE Pop
  BY <1>7, OtherStep DEF Pop
<1>8. CASE EndSearch
  BY <1>8, OtherStep DEF EndSearch
<1>9. CASE SequencesDone
  BY <1>9, OtherStep DEF SequencesDone
<1>10. ASSUME NEW f \in DOMAIN corpus, LookAt(f) PROVE IInv'
  BY <1>10, OtherStep DEF LookAt
<1>11. CASE InfoDone
  BY <1>11, OtherStep DEF InfoDone
<1>12. CASE PrintFile
  BY <1>12, OtherStep DEF PrintFile
<1>13. CASE PrintPanics
  BY <1>13, OtherStep DEF PrintPanics
<1>14. CASE Terminating \/ UNCHANGED vars
  <2>1. UNCHANGED <<pc, corpus, to_compute, propagateVars>>
    BY <1>14 DEF Terminating, vars
  <2>2. UNCHANGED <<caller, dependencies, index, idx, previous_iteration>>
    BY <2>1 DEF propagateVars
  <2>3. Body' = Body
    BY <2>1, <2>2 DEF Body
  <2> QED
    BY <2>1, <2>2, <2>3
    DEF IInv, TypeInv, HasDirect, HasNoOther, RowsDone, PassInv, Active, Closed
<1> QED
  BY <1>1, <1>2, <1>3, <1>4, <1>5, <1>6, <1>7, <1>8, <1>9, <1>10, <1>11, <1>12, <1>13, <1>14
  DEF Next, Work

\* At the end of the propagation the rows are closed, and nothing smaller is.
LEMMA Closure == IInv => PropagatedIsClosure
<1> SUFFICES ASSUME IInv, pc = "origins", NEW l \in Locals(Body)
             PROVE  /\ l \in dependencies[l] /\ Closed(dependencies[l])
                    /\ \A S \in SUBSET Ids(Body) :
                         l \in S /\ Closed(S) => dependencies[l] \subseteq S
  BY DEF PropagatedIsClosure
<1>1. Active
  BY DEF Active
<1>2. Closed(dependencies[l])
  BY <1>1 DEF Closed, IInv, HasDirect, RowsDone
<1>3. l \in dependencies[l]
  BY <1>1 DEF IInv, HasDirect
<1>4. \A S \in SUBSET Ids(Body) : l \in S /\ Closed(S) => dependencies[l] \subseteq S
  BY <1>1 DEF IInv, HasNoOther
<1> QED
  BY <1>2, <1>3, <1>4

\* Whatever the body, propagate ends with all direct and indirect dependencies
\* of every local, and with no others.
THEOREM PropagateComputesClosure == Spec => []PropagatedIsClosure
  BY Initially, Step, Closure, PTL DEF Spec

-----------------------------------------------------------------------------
(* The sequences.                                                            *)

\* Min of FiniteSetsExt is the least number of a set.
LEMMA LeastNumber ==
  ASSUME NEW S \in SUBSET Nat, S # {}
  PROVE  Min(S) \in S /\ \A y \in S : Min(S) <= y
<1>1. PICK x \in S : \A y \in S : ~(<<y, x>> \in OpToRel(<, Nat))
  BY NatLessThanWellFounded, WFMin
<1>2. ASSUME NEW y \in S PROVE x <= y
  <2>1. ~(y < x)
    BY <1>1 DEF OpToRel
  <2>2. x \in Nat /\ y \in Nat
    OBVIOUS
  <2> QED
    BY <2>1, <2>2
<1> QED
  BY <1>2 DEF Min

\* What holds of 0 and is kept by every iteration of a loop holds always.
LEMMA LoopInduction ==
  ASSUME NEW T \in SUBSET Nat, 0 \in T, \A n \in T : n + 1 \in T
  PROVE  T = Nat
<1> SUFFICES ASSUME Nat \ T # {} PROVE FALSE
  OBVIOUS
<1>1. PICK x \in Nat \ T : \A y \in Nat \ T : x <= y
  BY LeastNumber
<1>2. x # 0 /\ x - 1 \in Nat
  BY <1>1
<1>3. x - 1 \in T
  BY <1>1, <1>2
<1>4. (x - 1) + 1 \in T
  BY <1>3
<1> QED
  BY <1>1, <1>4

\* The loop over the calls of a function, call by call.
LEMMA AddCallsUnfold ==
  ASSUME NEW st, NEW calls, NEW visited, Len(calls) \in Nat
  PROVE  /\ AddCalls(st, calls, visited)[0] = st
         /\ \A n \in 1..Len(calls) :
              AddCalls(st, calls, visited)[n] =
                AddCall(AddCalls(st, calls, visited)[n - 1], calls[n], visited)
<1> DEFINE Turn(n, x) == AddCall(x, calls[n], visited)
           Loop == AddCalls(st, calls, visited)
           IsLoop(g, m) == g = [n \in 0..m |-> IF n = 0 THEN st ELSE Turn(n, g[n - 1])]
           T == {m \in Nat : \E g : IsLoop(g, m)}
<1>1. Loop = CHOOSE g : IsLoop(g, Len(calls))
  BY DEF AddCalls
<1> HIDE DEF Turn, Loop
<1>2. 0 \in T
  <2> DEFINE g == [n \in 0..0 |-> st]
  <2>1. g = [n \in 0..0 |-> IF n = 0 THEN st ELSE Turn(n, g[n - 1])]
    OBVIOUS
  <2>2. IsLoop(g, 0)
    BY <2>1
  <2> QED
    BY <2>2
<1>3. ASSUME NEW m \in T PROVE m + 1 \in T
  <2>1. PICK g : IsLoop(g, m)
    OBVIOUS
  <2>2. m \in Nat /\ g = [n \in 0..m |-> IF n = 0 THEN st ELSE Turn(n, g[n - 1])]
    BY <2>1
  <2> DEFINE h == [n \in 0..(m + 1) |-> IF n = m + 1 THEN Turn(n, g[m]) ELSE g[n]]
             k == [n \in 0..(m + 1) |-> IF n = 0 THEN st ELSE Turn(n, h[n - 1])]
  <2>3. ASSUME NEW n \in 0..(m + 1) PROVE h[n] = k[n]
    <3>1. CASE n = 0
      BY <2>2, <3>1
    <3>2. CASE n = m + 1
      <4>1. m \in 0..(m + 1) /\ m # m + 1 /\ n # 0 /\ n - 1 = m
        BY <2>2, <3>2
      <4>2. h[n] = Turn(n, g[m]) /\ h[m] = g[m]
        BY <3>2, <4>1
      <4> QED
        BY <4>1, <4>2
    <3>3. CASE n \in 1..m
      <4>1. n \in 0..m /\ n # 0 /\ n # m + 1 /\ n - 1 \in 0..(m + 1) /\ n - 1 # m + 1
        BY <2>2, <3>3
      <4>2. h[n] = g[n] /\ h[n - 1] = g[n - 1]
        BY <4>1
      <4>3. g[n] = Turn(n, g[n - 1])
        BY <2>2, <4>1
      <4> QED
        BY <4>1, <4>2, <4>3
    <3> QED
      BY <2>2, <3>1, <3>2, <3>3
  <2>4. h = k
    BY <2>3
  <2>5. IsLoop(h, m + 1)
    BY <2>4
  <2>6. \E x : IsLoop(x, m + 1)
    <3> HIDE DEF h, IsLoop
    <3> QED
      BY <2>5
  <2> QED
    BY <2>2, <2>6
<1>4. T = Nat
  <2> HIDE DEF T
  <2>1. T \in SUBSET Nat
    BY DEF T
  <2> QED
    BY <1>2, <1>3, <2>1, LoopInduction
<1>5. \E g : IsLoop(g, Len(calls))
  BY <1>4
<1>6. IsLoop(Loop, Len(calls))
  <2> HIDE DEF IsLoop
  <2> QED
    BY <1>1, <1>5
<1>7. ASSUME NEW n \in 0..Len(calls)
      PROVE  Loop[n] = IF n = 0 THEN st ELSE Turn(n, Loop[n - 1])
  BY <1>6
<1>8. Loop[0] = st
  BY <1>7
<1>9. ASSUME NEW n \in 1..Len(calls) PROVE Loop[n] = Turn(n, Loop[n - 1])
  BY <1>7
<1> QED
  BY <1>8, <1>9 DEF Turn, Loop

\* A sequence that is complete, and one that is not.
Delimited(s) ==
  /\ s # <<>>
  /\ \A k \in DOMAIN s : (k > 1 => s[k] \notin PrimitiveArgs)
                      /\ (k < Len(s) => s[k] \notin PrimitiveReturn)
Open(s) ==
  \A k \in DOMAIN s : (k > 1 => s[k] \notin PrimitiveArgs) /\ s[k] \notin PrimitiveReturn

\* The n-th sequence; the last is the current one.
At(all, seq, n) == IF n \in DOMAIN all THEN all[n] ELSE seq

\* Where api is in the sequences.
Marks(all, seq, api) ==
  UNION {{<<n, k>> : k \in {j \in DOMAIN At(all, seq, n) : At(all, seq, n)[j] = api}} :
         n \in 1..(Len(all) + 1)}

\* N has one element more than M, or is the same.
Grown(M, N, more) == IF more THEN \E e : e \notin M /\ N = M \cup {e} ELSE N = M

\* What the loop over the calls of a function works on.
StInv(st, names) ==
  /\ st \in [all : Seq(Seq(Apis)), seq : Seq(Apis), stack : Seq(names)]
  /\ Open(st.seq)
  /\ \A n \in DOMAIN st.all : Delimited(st.all[n])

\* A call is added: what was marked and stacked still is, and the callee has a
\* mark more.
Added(st, call, new) ==
  /\ \A api : Grown(Marks(st.all, st.seq, api), Marks(new.all, new.seq, api),
                   IsApiCall(call) /\ call.callee = api)
  /\ Range(st.stack) \subseteq Range(new.stack)

\* One more element of a sequence.
LEMMA AppendRange ==
  ASSUME NEW S, NEW s \in Seq(S), NEW a \in S
  PROVE  /\ Append(s, a) \in Seq(S) /\ Range(Append(s, a)) = Range(s) \cup {a}
         /\ Len(s) \in Nat /\ Len(Append(s, a)) = Len(s) + 1
         /\ DOMAIN Append(s, a) = DOMAIN s \cup {Len(s) + 1} /\ DOMAIN s = 1..Len(s)
         /\ Append(s, a)[Len(s) + 1] = a
         /\ \A i \in DOMAIN s : Append(s, a)[i] = s[i]
<1>1. /\ Append(s, a) \in Seq(S) /\ Len(s) \in Nat /\ Len(Append(s, a)) = Len(s) + 1
      /\ DOMAIN Append(s, a) = DOMAIN s \cup {Len(s) + 1} /\ DOMAIN s = 1..Len(s)
      /\ Append(s, a)[Len(s) + 1] = a
      /\ \A i \in DOMAIN s : Append(s, a)[i] = s[i]
  OBVIOUS
<1>2. Range(Append(s, a)) = Range(s) \cup {a}
  BY <1>1 DEF Range
<1> QED
  BY <1>1, <1>2

\* An open sequence may end any time.
LEMMA OpenDelimited ==
  ASSUME NEW s, Open(s), s # <<>>
  PROVE  Delimited(s)
  BY DEF Open, Delimited

\* A call that needs the others goes on with the sequence, and the others may
\* use its result unless it is primitive.
LEMMA AppendDelimited ==
  ASSUME NEW s \in Seq(Apis), Open(s), NEW a \in Apis, s = <<>> \/ a \notin PrimitiveArgs
  PROVE  /\ Delimited(Append(s, a))
         /\ a \notin PrimitiveReturn => Open(Append(s, a))
<1>1. PICK t : t = Append(s, a)
  OBVIOUS
<1>2. /\ Len(s) \in Nat /\ Len(t) = Len(s) + 1
      /\ DOMAIN t = DOMAIN s \cup {Len(s) + 1} /\ DOMAIN s = 1..Len(s)
      /\ t[Len(s) + 1] = a
      /\ \A i \in DOMAIN s : t[i] = s[i]
  BY <1>1, AppendRange
<1>3. t # <<>>
  BY <1>2
<1>4. s = <<>> => Len(s) = 0
  OBVIOUS
<1>5. ASSUME NEW k \in DOMAIN t
      PROVE  /\ k > 1 => t[k] \notin PrimitiveArgs
             /\ k < Len(t) => t[k] \notin PrimitiveReturn
             /\ a \notin PrimitiveReturn => t[k] \notin PrimitiveReturn
  <2>1. CASE k \in DOMAIN s
    BY <1>2, <2>1 DEF Open
  <2>2. CASE k = Len(s) + 1
    <3>1. k > 1 => s # <<>>
      BY <1>2, <1>4, <2>2
    <3> QED
      BY <1>2, <2>2, <3>1
  <2> QED
    BY <1>2, <2>1, <2>2
<1>6. Delimited(t) /\ (a \notin PrimitiveReturn => Open(t))
  BY <1>3, <1>5 DEF Delimited, Open
<1> QED
  BY <1>1, <1>6

\* One more complete sequence.
LEMMA PushSequence ==
  ASSUME NEW all \in Seq(Seq(Apis)), \A n \in DOMAIN all : Delimited(all[n]),
         NEW s \in Seq(Apis), Delimited(s)
  PROVE  /\ Append(all, s) \in Seq(Seq(Apis))
         /\ \A n \in DOMAIN Append(all, s) : Delimited(Append(all, s)[n])
         /\ \A api : Marks(Append(all, s), <<>>, api) = Marks(all, s, api)
<1>1. PICK t : t = Append(all, s)
  OBVIOUS
<1>2. /\ t \in Seq(Seq(Apis)) /\ DOMAIN t = DOMAIN all \cup {Len(all) + 1}
      /\ t[Len(all) + 1] = s /\ \A i \in DOMAIN all : t[i] = all[i]
      /\ Len(all) \in Nat /\ Len(t) = Len(all) + 1 /\ DOMAIN all = 1..Len(all)
  BY <1>1, AppendRange
<1>3. \A n \in DOMAIN t : Delimited(t[n])
  BY <1>2
<1>4. ASSUME NEW n \in 1..(Len(all) + 1) PROVE At(t, <<>>, n) = At(all, s, n)
  <2>1. n \in DOMAIN t /\ (n \in DOMAIN all \/ n = Len(all) + 1)
    BY <1>2
  <2>2. Len(all) + 1 \notin DOMAIN all
    BY <1>2
  <2> QED
    BY <1>2, <2>1, <2>2 DEF At
<1>5. ASSUME NEW api PROVE Marks(t, <<>>, api) = Marks(all, s, api)
  <2> DEFINE M(a, q, n) == {<<n, k>> : k \in {j \in DOMAIN At(a, q, n) : At(a, q, n)[j] = api}}
  <2>1. 1..(Len(t) + 1) = (1..(Len(all) + 1)) \cup {Len(all) + 2}
    BY <1>2
  <2>2. M(t, <<>>, Len(all) + 2) = {}
    <3>1. At(t, <<>>, Len(all) + 2) = <<>> /\ DOMAIN <<>> = {}
      BY <1>2 DEF At
    <3> QED
      BY <3>1
  <2>3. \A n \in 1..(Len(all) + 1) : M(t, <<>>, n) = M(all, s, n)
    BY <1>4
  <2>4. /\ Marks(t, <<>>, api) = UNION {M(t, <<>>, n) : n \in 1..(Len(t) + 1)}
        /\ Marks(all, s, api) = UNION {M(all, s, n) : n \in 1..(Len(all) + 1)}
    BY DEF Marks
  <2> HIDE DEF M
  <2> QED
    BY <2>1, <2>2, <2>3, <2>4
<1> QED
  BY <1>1, <1>2, <1>3, <1>5

\* One more call in the current sequence.
LEMMA MarkCall ==
  ASSUME NEW all \in Seq(Seq(Apis)), NEW s \in Seq(Apis), NEW a \in Apis, NEW api
  PROVE  Grown(Marks(all, s, api), Marks(all, Append(s, a), api), a = api)
<1> DEFINE M(q, n) == {<<n, k>> : k \in {j \in DOMAIN At(all, q, n) : At(all, q, n)[j] = api}}
           last == Len(all) + 1
           e == <<last, Len(s) + 1>>
<1>1. PICK t : t = Append(s, a)
  OBVIOUS
<1>2. /\ Len(s) \in Nat /\ DOMAIN t = DOMAIN s \cup {Len(s) + 1} /\ DOMAIN s = 1..Len(s)
      /\ t[Len(s) + 1] = a /\ \A i \in DOMAIN s : t[i] = s[i]
  BY <1>1, AppendRange
<1>3. Len(all) \in Nat /\ DOMAIN all = 1..Len(all) /\ last \notin DOMAIN all
  OBVIOUS
<1>4. 1..last = (1..Len(all)) \cup {last}
  BY <1>3
<1>5. \A n \in 1..Len(all) : M(t, n) = M(s, n)
  BY <1>3 DEF At
<1>6. M(t, last) = M(s, last) \cup (IF a = api THEN {e} ELSE {})
  <2>1. At(all, t, last) = t /\ At(all, s, last) = s
    BY <1>3 DEF At
  <2>2. {j \in DOMAIN t : t[j] = api} =
          {j \in DOMAIN s : s[j] = api} \cup (IF a = api THEN {Len(s) + 1} ELSE {})
    BY <1>2
  <2> QED
    BY <2>1, <2>2
<1>7. /\ Marks(all, t, api) = UNION {M(t, n) : n \in 1..last}
      /\ Marks(all, s, api) = UNION {M(s, n) : n \in 1..last}
  BY DEF Marks
<1>8. ASSUME NEW n \in 1..last PROVE e \notin M(s, n)
  <2>1. CASE n = last
    <3>1. At(all, s, last) = s /\ Len(s) + 1 \notin DOMAIN s
      BY <1>2, <1>3 DEF At
    <3> QED
      BY <2>1, <3>1
  <2>2. CASE n # last
    BY <2>2
  <2> QED
    BY <2>1, <2>2
<1> HIDE DEF M, e, last
<1>9. e \notin Marks(all, s, api)
  BY <1>7, <1>8
<1>10. Marks(all, t, api) = Marks(all, s, api) \cup (IF a = api THEN {e} ELSE {})
  <2>1. ASSUME NEW q PROVE UNION {M(q, n) : n \in 1..last} =
          (UNION {M(q, n) : n \in 1..Len(all)}) \cup M(q, last)
    BY <1>4
  <2>2. UNION {M(t, n) : n \in 1..Len(all)} = UNION {M(s, n) : n \in 1..Len(all)}
    BY <1>5
  <2> QED
    BY <1>6, <1>7, <2>1, <2>2
<1> QED
  BY <1>1, <1>9, <1>10 DEF Grown

\* One call of the loop.
LEMMA AddCallKeeps ==
  ASSUME NEW names, NEW st, StInv(st, names), NEW call, call.direct \in BOOLEAN, NEW visited,
         names = DOMAIN corpus
  PROVE  /\ StInv(AddCall(st, call, visited), names)
         /\ Added(st, call, AddCall(st, call, visited))
<1> DEFINE begun == IF Begins(call)
                    THEN [st EXCEPT !.all = @ \o Flush(st.seq), !.seq = <<>>]
                    ELSE st
           added == Append(begun.seq, call.callee)
           new == AddCall(st, call, visited)
<1>1. /\ st \in [all : Seq(Seq(Apis)), seq : Seq(Apis), stack : Seq(names)]
      /\ st.all \in Seq(Seq(Apis)) /\ st.seq \in Seq(Apis) /\ st.stack \in Seq(names)
      /\ Open(st.seq) /\ \A n \in DOMAIN st.all : Delimited(st.all[n])
  BY DEF StInv
<1>2. CASE ~call.direct
  <2>1. new = st
    BY <1>2 DEF AddCall
  <2> QED
    BY <1>2, <2>1 DEF Added, IsApiCall, Grown
<1>3. CASE call.direct
  <2>1. /\ StInv(begun, names) /\ begun.stack = st.stack
        /\ \A api : Marks(begun.all, begun.seq, api) = Marks(st.all, st.seq, api)
        /\ call.callee \in PrimitiveArgs => begun.seq = <<>>
    <3>1. CASE ~Begins(call)
      <4>1. begun = st
        BY <3>1
      <4> QED
        BY <3>1, <4>1 DEF Begins
    <3>2. CASE Begins(call)
      <4>1. begun = [all |-> st.all \o Flush(st.seq), seq |-> <<>>, stack |-> st.stack]
        BY <1>1, <3>2
      <4> HIDE DEF begun
      <4>2. /\ begun.all = st.all \o Flush(st.seq) /\ begun.seq = <<>> /\ begun.stack = st.stack
        BY <4>1
      <4>3. <<>> \in Seq(Apis) /\ Open(<<>>) /\ Range(<<>>) = {}
        BY DEF Open, Range
      <4>4. CASE st.seq = <<>>
        <5>1. begun.all = st.all
          BY <1>1, <4>2, <4>4 DEF Flush
        <5>2. begun = st
          BY <1>1, <4>1, <4>2, <4>4, <5>1
        <5> QED
          BY <4>4, <5>2
      <4>5. CASE st.seq # <<>>
        <5>1. begun.all = Append(st.all, st.seq)
          <6>1. Flush(st.seq) = <<st.seq>>
            BY <4>5 DEF Flush
          <6>2. ASSUME NEW S, NEW a \in Seq(S), NEW x \in S PROVE a \o <<x>> = Append(a, x)
            <7>1. /\ a \o <<x>> \in Seq(S) /\ Append(a, x) \in Seq(S) /\ Len(a) \in Nat
                  /\ Len(a \o <<x>>) = Len(a) + 1 /\ Len(Append(a, x)) = Len(a) + 1
              OBVIOUS
            <7>2. ASSUME NEW n \in 1..(Len(a) + 1) PROVE (a \o <<x>>)[n] = Append(a, x)[n]
              BY <7>1
            <7> QED
              BY <7>1, <7>2
          <6> QED
            BY <1>1, <4>2, <6>1, <6>2
        <5>2. Delimited(st.seq)
          BY <1>1, <4>5, OpenDelimited
        <5>3. /\ begun.all \in Seq(Seq(Apis)) /\ \A n \in DOMAIN begun.all : Delimited(begun.all[n])
              /\ \A api : Marks(begun.all, <<>>, api) = Marks(st.all, st.seq, api)
          BY <1>1, <5>1, <5>2, PushSequence
        <5>4. \A api : Marks(begun.all, begun.seq, api) = Marks(st.all, st.seq, api)
          BY <4>2, <5>3
        <5>5. StInv(begun, names)
          <6>1. begun \in [all : Seq(Seq(Apis)), seq : Seq(Apis), stack : Seq(names)]
            BY <1>1, <4>1, <4>2, <4>3, <5>3
          <6> QED
            BY <4>2, <4>3, <5>3, <6>1 DEF StInv
        <5> QED
          BY <4>2, <5>4, <5>5
      <4> QED
        BY <4>4, <4>5
    <3> QED
      BY <3>1, <3>2
  <2>2. new = IF call.callee \in Apis
              THEN IF call.callee \in PrimitiveReturn
                   THEN [begun EXCEPT !.all = Append(@, added), !.seq = <<>>]
                   ELSE [begun EXCEPT !.seq = added]
              ELSE IF Pushes(call.callee, visited)
                   THEN [begun EXCEPT !.stack = Append(@, call.callee)]
                   ELSE begun
    BY <1>3 DEF AddCall
  <2> HIDE DEF begun, new
  <2>3. /\ begun \in [all : Seq(Seq(Apis)), seq : Seq(Apis), stack : Seq(names)]
        /\ begun.all \in Seq(Seq(Apis)) /\ begun.seq \in Seq(Apis) /\ begun.stack \in Seq(names)
        /\ Open(begun.seq) /\ \A n \in DOMAIN begun.all : Delimited(begun.all[n])
    BY <2>1 DEF StInv
  <2>4. CASE call.callee \in Apis
    <3>1. /\ Delimited(added) /\ (call.callee \notin PrimitiveReturn => Open(added))
      BY <2>1, <2>3, <2>4, AppendDelimited
    <3>2. added \in Seq(Apis)
      BY <2>3, <2>4, AppendRange
    <3>5. \A api : Grown(Marks(begun.all, begun.seq, api), Marks(begun.all, added, api),
                       call.callee = api)
      BY <2>3, <2>4, MarkCall
    <3>3. CASE call.callee \in PrimitiveReturn
      <4>1. new = [all |-> Append(begun.all, added), seq |-> <<>>, stack |-> begun.stack]
        BY <2>2, <2>3, <2>4, <3>3
      <4>2. /\ Append(begun.all, added) \in Seq(Seq(Apis))
            /\ \A n \in DOMAIN Append(begun.all, added) : Delimited(Append(begun.all, added)[n])
            /\ \A api : Marks(Append(begun.all, added), <<>>, api) = Marks(begun.all, added, api)
        BY <2>3, <3>1, <3>2, PushSequence
      <4>3. <<>> \in Seq(Apis) /\ Open(<<>>) /\ Range(<<>>) = {}
        BY DEF Open, Range
      <4> HIDE DEF added
      <4>4. /\ new.all = Append(begun.all, added) /\ new.seq = <<>> /\ new.stack = begun.stack
            /\ new \in [all : Seq(Seq(Apis)), seq : Seq(Apis), stack : Seq(names)]
        BY <2>3, <4>1, <4>2, <4>3
      <4>5. StInv(new, names)
        BY <4>2, <4>3, <4>4 DEF StInv
      <4>6. \A api : Grown(Marks(st.all, st.seq, api), Marks(new.all, new.seq, api),
                         call.callee = api)
        BY <2>1, <3>5, <4>2, <4>4
      <4> QED
        BY <1>3, <2>1, <2>4, <4>4, <4>5, <4>6 DEF Added, IsApiCall, new
    <3>4. CASE call.callee \notin PrimitiveReturn
      <4>1. new = [all |-> begun.all, seq |-> added, stack |-> begun.stack]
        BY <2>2, <2>3, <2>4, <3>4
      <4> HIDE DEF added
      <4>2. /\ new.all = begun.all /\ new.seq = added /\ new.stack = begun.stack
            /\ new \in [all : Seq(Seq(Apis)), seq : Seq(Apis), stack : Seq(names)]
        BY <2>3, <3>2, <4>1
      <4>3. StInv(new, names)
        BY <2>3, <3>1, <3>4, <4>2 DEF StInv
      <4>4. \A api : Grown(Marks(st.all, st.seq, api), Marks(new.all, new.seq, api),
                         call.callee = api)
        BY <2>1, <3>5, <4>2
      <4> QED
        BY <1>3, <2>1, <2>4, <4>2, <4>3, <4>4 DEF Added, IsApiCall, new
    <3> QED
      BY <3>3, <3>4
  <2>5. CASE call.callee \notin Apis /\ Pushes(call.callee, visited)
    <3>1. new = [all |-> begun.all, seq |-> begun.seq, stack |-> Append(begun.stack, call.callee)]
      BY <2>2, <2>3, <2>5
    <3>2. call.callee \in names
      BY <2>5 DEF Pushes
    <3>3. /\ Append(begun.stack, call.callee) \in Seq(names)
          /\ Range(Append(begun.stack, call.callee)) = Range(begun.stack) \cup {call.callee}
      BY <2>3, <3>2, AppendRange
    <3>4. /\ new.all = begun.all /\ new.seq = begun.seq
          /\ new.stack = Append(begun.stack, call.callee)
          /\ new \in [all : Seq(Seq(Apis)), seq : Seq(Apis), stack : Seq(names)]
      BY <2>3, <3>1, <3>3
    <3>5. StInv(new, names)
      BY <2>3, <3>4 DEF StInv
    <3> QED
      BY <2>1, <2>5, <3>3, <3>4, <3>5 DEF Added, IsApiCall, Grown, new
  <2>6. CASE call.callee \notin Apis /\ ~Pushes(call.callee, visited)
    <3>1. new = begun
      BY <2>2, <2>6
    <3> QED
      BY <2>1, <2>6, <3>1 DEF Added, IsApiCall, Grown, new
  <2> QED
    BY <2>4, <2>5, <2>6
<1> QED
  BY <1>2, <1>3

\* The calls of api among the first m.
ApiCalls(calls, m, api) == {k \in 1..m : IsApiCall(calls[k]) /\ calls[k].callee = api}

\* The marks of api are finite, and in new there are as many more as calls.
Marked(st, new, api, calls) ==
  IsFiniteSet(Marks(st.all, st.seq, api)) =>
    /\ IsFiniteSet(Marks(new.all, new.seq, api))
    /\ Cardinality(Marks(new.all, new.seq, api)) =
         Cardinality(Marks(st.all, st.seq, api)) + Cardinality(calls)

\* The calls have been gone through, from st to after.
AllAdded(st, calls, after) ==
  /\ Range(st.stack) \subseteq Range(after.stack)
  /\ \A api : Marked(st, after, api, ApiCalls(calls, Len(calls), api))

\* One more call.
LEMMA MarkedOnce ==
  ASSUME NEW st, NEW r, NEW new, NEW call, Added(r, call, new), NEW api,
         NEW calls, NEW m \in Nat, calls[m + 1] = call, Marked(st, r, api, ApiCalls(calls, m, api))
  PROVE  Marked(st, new, api, ApiCalls(calls, m + 1, api))
<1> SUFFICES ASSUME IsFiniteSet(Marks(st.all, st.seq, api))
             PROVE  /\ IsFiniteSet(Marks(new.all, new.seq, api))
                    /\ Cardinality(Marks(new.all, new.seq, api)) =
                         Cardinality(Marks(st.all, st.seq, api))
                         + Cardinality(ApiCalls(calls, m + 1, api))
  BY DEF Marked
<1>1. PICK M, N, S : /\ M = Marks(r.all, r.seq, api) /\ N = Marks(new.all, new.seq, api)
                     /\ S = Marks(st.all, st.seq, api)
  OBVIOUS
<1>2. PICK C, D : C = ApiCalls(calls, m, api) /\ D = ApiCalls(calls, m + 1, api)
  OBVIOUS
<1>3. IsFiniteSet(M) /\ Cardinality(M) = Cardinality(S) + Cardinality(C)
  BY <1>1, <1>2 DEF Marked
<1>4. Grown(M, N, IsApiCall(call) /\ call.callee = api)
  BY <1>1 DEF Added
<1>5. 1..(m + 1) = (1..m) \cup {m + 1} /\ m + 1 \notin 1..m
  OBVIOUS
<1>6. /\ D = C \cup (IF IsApiCall(call) /\ call.callee = api THEN {m + 1} ELSE {})
      /\ m + 1 \notin C
  BY <1>2, <1>5 DEF ApiCalls
<1>7. IsFiniteSet(C) /\ Cardinality(C) \in Nat /\ Cardinality(S) \in Nat
  <2>1. IsFiniteSet(1..m) /\ C \in SUBSET (1..m)
    BY <1>2, FS_Interval DEF ApiCalls
  <2> QED
    BY <1>1, <2>1, FS_Subset, FS_CardinalityType
<1>8. CASE IsApiCall(call) /\ call.callee = api
  <2>1. PICK e : e \notin M /\ N = M \cup {e}
    BY <1>4, <1>8 DEF Grown
  <2>2. IsFiniteSet(N) /\ Cardinality(N) = Cardinality(M) + 1
    BY <1>3, <2>1, FS_AddElement
  <2>3. Cardinality(D) = Cardinality(C) + 1
    BY <1>6, <1>7, <1>8, FS_AddElement
  <2>4. Cardinality(N) = Cardinality(S) + Cardinality(D)
    BY <1>3, <1>7, <2>2, <2>3
  <2> QED
    BY <1>1, <1>2, <2>2, <2>4
<1>9. CASE ~(IsApiCall(call) /\ call.callee = api)
  <2>1. N = M
    BY <1>4, <1>9 DEF Grown
  <2>2. D = C
    BY <1>6, <1>9
  <2> QED
    BY <1>1, <1>2, <1>3, <2>1, <2>2
<1> QED
  BY <1>8, <1>9

\* All calls of a function.
LEMMA AddCallsKeep ==
  ASSUME NEW names, names = DOMAIN corpus, NEW st, StInv(st, names), NEW visited,
         NEW calls, Len(calls) \in Nat, \A n \in 1..Len(calls) : calls[n].direct \in BOOLEAN,
         NEW after, after = AddCalls(st, calls, visited)[Len(calls)]
  PROVE  StInv(after, names) /\ AllAdded(st, calls, after)
<1> DEFINE Loop(m) == AddCalls(st, calls, visited)[m]
           Holds(m, r) == /\ StInv(r, names) /\ Range(st.stack) \subseteq Range(r.stack)
                          /\ \A api : Marked(st, r, api, ApiCalls(calls, m, api))
           T == {m \in Nat : m <= Len(calls) => Holds(m, Loop(m))}
<1>1. 0 \in T
  <2>1. Loop(0) = st
    BY AddCallsUnfold
  <2>2. ASSUME NEW api PROVE Marked(st, st, api, ApiCalls(calls, 0, api))
    <3>1. ApiCalls(calls, 0, api) = {}
      BY DEF ApiCalls
    <3>2. Cardinality({}) = 0
      BY FS_EmptySet
    <3>3. PICK M : M = Marks(st.all, st.seq, api)
      OBVIOUS
    <3>4. IsFiniteSet(M) => Cardinality(M) \in Nat
      BY FS_CardinalityType
    <3>5. IsFiniteSet(M) => Cardinality(M) = Cardinality(M) + Cardinality({})
      BY <3>2, <3>4
    <3> QED
      BY <3>1, <3>3, <3>5 DEF Marked
  <2>3. Holds(0, st)
    BY <2>2
  <2> QED
    BY <2>1, <2>3
<1>2. ASSUME NEW m \in T PROVE m + 1 \in T
  <2> SUFFICES ASSUME m + 1 <= Len(calls) PROVE Holds(m + 1, Loop(m + 1))
    OBVIOUS
  <2> DEFINE n == m + 1
  <2>1. m \in Nat /\ m <= Len(calls) /\ n \in 1..Len(calls) /\ n - 1 = m
    OBVIOUS
  <2>2. Holds(m, Loop(m))
    BY <2>1
  <2>3. Loop(n) = AddCall(Loop(m), calls[n], visited)
    BY <2>1, AddCallsUnfold
  <2>4. \A api : Marked(st, Loop(m), api, ApiCalls(calls, m, api))
    BY <2>2
  <2> HIDE DEF Loop
  <2>5. StInv(Loop(n), names) /\ Added(Loop(m), calls[n], Loop(n))
    BY <2>1, <2>2, <2>3, AddCallKeeps
  <2>6. \A api : Marked(st, Loop(n), api, ApiCalls(calls, n, api))
    BY <2>1, <2>4, <2>5, MarkedOnce
  <2>7. Holds(n, Loop(n))
    BY <2>2, <2>5, <2>6 DEF Added
  <2> QED
    BY <2>7 DEF n
<1>3. T = Nat
  <2>1. T \in SUBSET Nat
    OBVIOUS
  <2> HIDE DEF T
  <2> QED
    BY <1>1, <1>2, <2>1, LoopInduction
<1>4. Holds(Len(calls), Loop(Len(calls)))
  <2> HIDE DEF Holds
  <2>1. Len(calls) <= Len(calls)
    OBVIOUS
  <2> QED
    BY <1>3, <2>1
<1> QED
  BY <1>4 DEF AllAdded

-----------------------------------------------------------------------------
(* What is learnt of a function's calls.                                     *)

\* The result of a call of pre may reach the argument, and is found there; or
\* pre is the function f itself, and the argument is what it returns.
Reaches(f, body, pre, arg) ==
  /\ arg \in Locals(body)
  /\ \/ \E m \in DOMAIN body.calls :
          /\ body.calls[m].direct /\ body.calls[m].callee = pre
          /\ body.calls[m].destination \in ComesFrom(body, arg)
          /\ Found(body, m)
     \/ pre = f /\ 0 \in ComesFrom(body, arg)

\* Among the sources of an argument is the result of pre.
FromApi(sources, pre) == \E x \in sources : x[2][1] = "ReturnVariable" /\ x[2][2] = pre

\* The calls recorded of function f are those of its body.
Learnt(f, calls) ==
  /\ Len(calls) = Len(corpus[f].calls) /\ DOMAIN calls = 1..Len(calls)
  /\ \A n \in DOMAIN calls :
       /\ calls[n].direct = corpus[f].calls[n].direct
       /\ calls[n].callee = corpus[f].calls[n].callee
       /\ DOMAIN calls[n].arg_sources = DOMAIN corpus[f].calls[n].arguments
       /\ \A i \in DOMAIN calls[n].arg_sources, pre \in Apis :
            FromApi(calls[n].arg_sources[i], pre) <=>
              Reaches(f, corpus[f], pre, corpus[f].calls[n].arguments[i])

Computing == pc \in {"compute", "propagate", "origins"}

LearntInv ==
  /\ DOMAIN callee_dependencies \subseteq DOMAIN corpus
  /\ \A f \in DOMAIN callee_dependencies : Learnt(f, callee_dependencies[f])
  /\ \A f \in DOMAIN corpus :
       f \in DOMAIN callee_dependencies \/ f \in to_compute \/ (Active /\ f = caller)
  /\ ~Computing => to_compute = {}

\* The body of a function of the program.
LEMMA BodyCalls ==
  ASSUME NEW c \in Corpora, NEW f \in DOMAIN c
  PROVE  /\ c[f].arg_count \in Nat /\ Len(c[f].calls) \in Nat
         /\ DOMAIN c[f].calls = 1..Len(c[f].calls)
         /\ \A n \in DOMAIN c[f].calls :
              c[f].calls[n].direct \in BOOLEAN /\ c[f].calls[n].destination \in Locals(c[f])
         /\ c[f].assigns \subseteq Locals(c[f]) \X Ids(c[f])
  BY CorporaAssumption

\* The rows that are propagated hold what the locals come from.
LEMMA RowsComeFrom ==
  ASSUME IInv, pc = "origins", NEW l \in Locals(Body)
  PROVE  dependencies[l] = ComesFrom(Body, l)
<1>1. corpus \in Corpora /\ caller \in DOMAIN corpus
      /\ dependencies \in [Locals(Body) -> SUBSET Ids(Body)]
  BY DEF IInv, TypeInv, Active
<1>2. Body.assigns \subseteq Locals(Body) \X Ids(Body) /\ Locals(Body) \subseteq Ids(Body)
  BY <1>1, BodyCalls, BodyType DEF Body
<1>3. ASSUME NEW S \in SUBSET Ids(Body)
      PROVE  Closed(S) <=> \A a \in Body.assigns : a[1] \in S => a[2] \in S
  <2>1. ASSUME Closed(S), NEW a \in Body.assigns, a[1] \in S PROVE a[2] \in S
    <3>1. a[1] \in Locals(Body) /\ a[2] \in Ids(Body) /\ <<a[1], a[2]>> \in Body.assigns
      BY <1>2, <2>1
    <3> QED
      BY <2>1, <3>1 DEF Closed
  <2>2. ASSUME \A a \in Body.assigns : a[1] \in S => a[2] \in S PROVE Closed(S)
    <3>1. ASSUME NEW k \in S \cap Locals(Body), NEW d \in Ids(Body), <<k, d>> \in Body.assigns
          PROVE  d \in S
      <4>1. <<k, d>>[1] = k /\ <<k, d>>[2] = d
        OBVIOUS
      <4> QED
        BY <2>2, <3>1, <4>1
    <3> QED
      BY <3>1 DEF Closed
  <2> QED
    BY <2>1, <2>2
<1>4. /\ dependencies[l] \in SUBSET Ids(Body) /\ l \in dependencies[l] /\ Closed(dependencies[l])
      /\ \A S \in SUBSET Ids(Body) : l \in S /\ Closed(S) => dependencies[l] \subseteq S
  BY <1>1, Closure DEF PropagatedIsClosure
<1>5. ComesFrom(Body, l) = {d \in Ids(Body) :
        \A S \in SUBSET Ids(Body) : l \in S /\ Closed(S) => d \in S}
  BY <1>3 DEF ComesFrom
<1> QED
  BY <1>4, <1>5

\* Where the result of a library function is found: in the local it is stored
\* into first.
LEMMA SourceFound ==
  ASSUME corpus \in Corpora, caller \in DOMAIN corpus,
         NEW d \in Ids(Body), NEW pre \in Apis
  PROVE  (\E s \in Sources(d) : s[1] = "ReturnVariable" /\ s[2] = pre) <=>
         \/ \E m \in DOMAIN Body.calls :
              /\ Body.calls[m].direct /\ Body.calls[m].callee = pre
              /\ Body.calls[m].destination = d /\ Found(Body, m)
         \/ pre = caller /\ d = 0
<1> DEFINE Left == \E s \in Sources(d) : s[1] = "ReturnVariable" /\ s[2] = pre
           Right == \E m \in DOMAIN Body.calls :
                      /\ Body.calls[m].direct /\ Body.calls[m].callee = pre
                      /\ Body.calls[m].destination = d /\ Found(Body, m)
<1>1. /\ Body.arg_count \in Nat /\ Len(Body.calls) \in Nat
      /\ DOMAIN Body.calls = 1..Len(Body.calls)
      /\ \A n \in DOMAIN Body.calls :
           Body.calls[n].direct \in BOOLEAN /\ Body.calls[n].destination \in Locals(Body)
  BY BodyCalls DEF Body
<1>2. Body.locals \in Nat /\ \A l \in Locals(Body) : l < Body.locals
  BY BodyType DEF Body
<1>3. d \in Nat
  BY BodyType DEF Body, Ids
<1>4. Right => d > Body.arg_count /\ d < Body.locals
  BY <1>1, <1>2 DEF Found
<1>6. CASE d = 0
  <2>1. Sources(d) = {<<"ReturnVariable", caller>>}
    BY <1>6 DEF Sources
  <2>2. Left <=> pre = caller
    BY <2>1
  <2>3. ~Right
    BY <1>1, <1>4, <1>6
  <2> QED
    BY <1>6, <2>2, <2>3
<1>7. CASE d # 0 /\ d <= Body.arg_count
  <2>1. Sources(d) = {<<"Argument", d>>}
    BY <1>7 DEF Sources
  <2>2. ~Left
    BY <2>1
  <2>3. ~Right
    BY <1>1, <1>3, <1>4, <1>7
  <2> QED
    BY <1>7, <2>2, <2>3
<1>8. CASE d # 0 /\ ~(d <= Body.arg_count) /\ ~(d < Body.locals)
  <2>1. Sources(d) \subseteq {<<"FunctionId", d>>}
    BY <1>8 DEF Sources
  <2>2. ~Left
    BY <2>1
  <2>3. ~Right
    BY <1>4, <1>8
  <2> QED
    BY <1>8, <2>2, <2>3
<1>9. CASE d # 0 /\ ~(d <= Body.arg_count) /\ d < Body.locals
  <2>1. Sources(d) = UNION {SourceOfCall(call) : call \in StoringCall(d)}
    BY <1>9 DEF Sources
  <2> DEFINE IsFirst(m) == /\ m \in DOMAIN Body.calls /\ Body.calls[m].destination = d
                           /\ \A k \in DOMAIN Body.calls :
                                Body.calls[k].destination = d => m <= k
  <2>2. \A call : call \in StoringCall(d) <=> \E m : IsFirst(m) /\ call = Body.calls[m]
    BY DEF StoringCall
  <2>3. ASSUME NEW m \in DOMAIN Body.calls, Body.calls[m].destination = d
        PROVE  IsFirst(m) <=> Found(Body, m)
    <3>1. m \in Nat /\ \A k \in DOMAIN Body.calls : k \in Nat
      BY <1>1
    <3>2. d > Body.arg_count
      BY <1>1, <1>3, <1>9
    <3>3. ASSUME IsFirst(m), NEW k \in 1..(m - 1) PROVE Body.calls[k].destination # d
      <4>1. k \in DOMAIN Body.calls /\ ~(m <= k)
        BY <1>1
      <4> QED
        BY <3>3, <4>1
    <3>4. ASSUME \A k \in 1..(m - 1) : Body.calls[k].destination # d,
                 NEW k \in DOMAIN Body.calls, Body.calls[k].destination = d
          PROVE  m <= k
      <4>1. k \notin 1..(m - 1)
        BY <3>4
      <4> QED
        BY <1>1, <3>1, <4>1
    <3> QED
      BY <2>3, <3>2, <3>3, <3>4 DEF Found
  <2>4. ASSUME NEW call PROVE
          (\E s \in SourceOfCall(call) : s[1] = "ReturnVariable" /\ s[2] = pre) <=>
            call.direct /\ call.callee = pre
    <3>1. CASE call.direct
      <4>1. SourceOfCall(call) = {<<"ReturnVariable", call.callee>>}
        BY <3>1 DEF SourceOfCall
      <4> QED
        BY <3>1, <4>1
    <3>2. CASE ~call.direct
      <4>1. SourceOfCall(call) \subseteq {<<"Argument", call.callee>>}
        BY <3>2 DEF SourceOfCall
      <4> QED
        BY <3>2, <4>1
    <3> QED
      BY <3>1, <3>2
  <2>5. Left <=> \E call \in StoringCall(d) : call.direct /\ call.callee = pre
    <3>1. Left <=> \E call \in StoringCall(d) :
                     \E s \in SourceOfCall(call) : s[1] = "ReturnVariable" /\ s[2] = pre
      BY <2>1
    <3> QED
      BY <2>4, <3>1
  <2> HIDE DEF IsFirst
  <2>6. (\E call \in StoringCall(d) : call.direct /\ call.callee = pre) <=>
          \E m : IsFirst(m) /\ Body.calls[m].direct /\ Body.calls[m].callee = pre
    BY <2>2
  <2>7. \A m : IsFirst(m) => m \in DOMAIN Body.calls /\ Body.calls[m].destination = d
    BY DEF IsFirst
  <2> QED
    BY <1>9, <2>3, <2>5, <2>6, <2>7
<1> QED
  BY <1>6, <1>7, <1>8, <1>9

\* What is recorded of an argument.
LEMMA ArgSourcesRight ==
  ASSUME IInv, pc = "origins", NEW arg, NEW pre \in Apis
  PROVE  FromApi(ArgSources(arg), pre) <=> Reaches(caller, Body, pre, arg)
<1>1. corpus \in Corpora /\ caller \in DOMAIN corpus
      /\ dependencies \in [Locals(Body) -> SUBSET Ids(Body)]
  BY DEF IInv, TypeInv, Active
<1>2. CASE arg \notin Locals(Body)
  <2>1. ArgSources(arg) \subseteq {<<arg, <<"FunctionId", arg>>>>}
    BY <1>2 DEF ArgSources
  <2>2. ~FromApi(ArgSources(arg), pre)
    BY <2>1 DEF FromApi
  <2> QED
    BY <1>2, <2>2 DEF Reaches
<1>3. CASE arg \in Locals(Body)
  <2>1. dependencies[arg] = ComesFrom(Body, arg) /\ dependencies[arg] \subseteq Ids(Body)
    BY <1>1, <1>3, RowsComeFrom
  <2>2. ArgSources(arg) = UNION {{<<d, s>> : s \in Sources(d)} : d \in ComesFrom(Body, arg)}
    BY <1>3, <2>1 DEF ArgSources, GetOrigins
  <2>3. FromApi(ArgSources(arg), pre) <=>
          \E d \in ComesFrom(Body, arg) : \E s \in Sources(d) :
            s[1] = "ReturnVariable" /\ s[2] = pre
    <3>1. ASSUME FromApi(ArgSources(arg), pre)
          PROVE  \E d \in ComesFrom(Body, arg) : \E s \in Sources(d) :
                   s[1] = "ReturnVariable" /\ s[2] = pre
      <4>1. PICK x \in ArgSources(arg) : x[2][1] = "ReturnVariable" /\ x[2][2] = pre
        BY <3>1 DEF FromApi
      <4>2. PICK d \in ComesFrom(Body, arg) : \E s \in Sources(d) : x = <<d, s>>
        BY <2>2, <4>1
      <4>3. PICK s \in Sources(d) : x = <<d, s>>
        BY <4>2
      <4>4. x[2] = s
        BY <4>3
      <4> QED
        BY <4>1, <4>4
    <3>2. ASSUME NEW d \in ComesFrom(Body, arg), NEW s \in Sources(d),
                 s[1] = "ReturnVariable", s[2] = pre
          PROVE  FromApi(ArgSources(arg), pre)
      <4>1. <<d, s>> \in ArgSources(arg) /\ <<d, s>>[2] = s
        BY <2>2
      <4> QED
        BY <3>2, <4>1 DEF FromApi
    <3> QED
      BY <3>1, <3>2
  <2>4. FromApi(ArgSources(arg), pre) <=>
          \E d \in ComesFrom(Body, arg) :
            \/ \E m \in DOMAIN Body.calls :
                 /\ Body.calls[m].direct /\ Body.calls[m].callee = pre
                 /\ Body.calls[m].destination = d /\ Found(Body, m)
            \/ pre = caller /\ d = 0
    BY <1>1, <2>1, <2>3, SourceFound
  <2> QED
    BY <1>3, <2>4 DEF Reaches
<1> QED
  BY <1>2, <1>3

\* The calls of a function are recorded.
LEMMA CalleeStep ==
  ASSUME IInv, LearntInv, CalleeDependencies
  PROVE  LearntInv'
<1>1. /\ pc = "origins" /\ UNCHANGED <<corpus, to_compute>>
      /\ pc' \in {"compute", "print", "sequence"} /\ (pc' # "compute" => to_compute = {})
  BY DEF CalleeDependencies
<1> DEFINE learnt == [n \in DOMAIN Body.calls |->
                        [direct      |-> Body.calls[n].direct,
                         callee      |-> Body.calls[n].callee,
                         arg_sources |-> [i \in DOMAIN Body.calls[n].arguments |->
                                            ArgSources(Body.calls[n].arguments[i])]]]
<1>2. callee_dependencies' = [f \in DOMAIN callee_dependencies \cup {caller} |->
                                IF f # caller THEN callee_dependencies[f] ELSE learnt]
  BY DEF CalleeDependencies
<1>3. corpus \in Corpora /\ caller \in DOMAIN corpus
  BY DEF IInv, TypeInv
<1>4. Len(Body.calls) \in Nat /\ DOMAIN Body.calls = 1..Len(Body.calls)
  BY <1>3, BodyCalls DEF Body
<1>5. Learnt(caller, learnt)
  <2>1. Len(learnt) = Len(Body.calls) /\ DOMAIN learnt = 1..Len(learnt)
    BY <1>4
  <2>2. ASSUME NEW n \in DOMAIN Body.calls
        PROVE  /\ learnt[n].direct = Body.calls[n].direct
               /\ learnt[n].callee = Body.calls[n].callee
               /\ learnt[n].arg_sources = [i \in DOMAIN Body.calls[n].arguments |->
                                             ArgSources(Body.calls[n].arguments[i])]
    OBVIOUS
  <2>3. DOMAIN learnt = DOMAIN Body.calls
    OBVIOUS
  <2> HIDE DEF learnt
  <2>4. ASSUME NEW n \in DOMAIN learnt
        PROVE  /\ DOMAIN learnt[n].arg_sources = DOMAIN Body.calls[n].arguments
               /\ \A i \in DOMAIN learnt[n].arg_sources, pre \in Apis :
                    FromApi(learnt[n].arg_sources[i], pre) <=>
                      Reaches(caller, Body, pre, Body.calls[n].arguments[i])
    <3>1. DOMAIN learnt[n].arg_sources = DOMAIN Body.calls[n].arguments
      BY <2>2, <2>3
    <3>2. ASSUME NEW i \in DOMAIN learnt[n].arg_sources, NEW pre \in Apis
          PROVE  FromApi(learnt[n].arg_sources[i], pre) <=>
                   Reaches(caller, Body, pre, Body.calls[n].arguments[i])
      <4>1. learnt[n].arg_sources[i] = ArgSources(Body.calls[n].arguments[i])
        BY <2>2, <2>3, <3>1
      <4> QED
        BY <1>1, <3>2, <4>1, ArgSourcesRight
    <3> QED
      BY <3>1, <3>2
  <2> QED
    BY <2>1, <2>2, <2>3, <2>4 DEF Learnt, Body
<1> HIDE DEF learnt
<1>6. \A f, c : Learnt(f, c)' <=> Learnt(f, c)
  BY <1>1 DEF Learnt
<1>7. DOMAIN callee_dependencies' = DOMAIN callee_dependencies \cup {caller}
  BY <1>2
<1>8. ASSUME NEW f \in DOMAIN callee_dependencies' PROVE Learnt(f, callee_dependencies[f])'
  <2>1. Learnt(f, callee_dependencies'[f])
    BY <1>2, <1>5, <1>7 DEF LearntInv
  <2> QED
    BY <1>6, <2>1
<1> QED
  BY <1>1, <1>3, <1>7, <1>8 DEF LearntInv, Active, Computing

\* Each step keeps what is learnt.
LEMMA LearntStep == IInv /\ LearntInv /\ [Next]_vars => LearntInv'
<1> SUFFICES ASSUME IInv, LearntInv, [Next]_vars PROVE LearntInv'
  OBVIOUS
<1>1. ASSUME UNCHANGED <<corpus, callee_dependencies>>
      PROVE  \A f \in DOMAIN callee_dependencies' : Learnt(f, callee_dependencies[f])'
  <2>1. \A f, c : Learnt(f, c)' <=> Learnt(f, c)
    BY <1>1 DEF Learnt
  <2> QED
    BY <1>1, <2>1 DEF LearntInv
<1>2. ASSUME NEW f \in DOMAIN corpus, DirectDependencies(f) PROVE LearntInv'
  <2>1. /\ UNCHANGED <<corpus, callee_dependencies>> /\ to_compute' = to_compute \ {f}
        /\ caller' = f /\ pc = "compute" /\ pc' = "propagate"
    BY <1>2 DEF DirectDependencies
  <2>2. \A g \in DOMAIN callee_dependencies' : Learnt(g, callee_dependencies[g])'
    BY <1>1, <2>1
  <2>3. \A g \in DOMAIN corpus :
          g \in DOMAIN callee_dependencies \/ g \in to_compute' \/ (Active' /\ g = caller')
    BY <2>1 DEF LearntInv, Active
  <2> QED
    BY <2>1, <2>2, <2>3 DEF LearntInv, Computing
<1>3. ASSUME UNCHANGED <<corpus, callee_dependencies, to_compute, caller>>, Active => Active',
             Computing' \/ ~Computing
      PROVE  LearntInv'
  <2>1. \A g \in DOMAIN callee_dependencies' : Learnt(g, callee_dependencies[g])'
    BY <1>1, <1>3
  <2> QED
    BY <1>3, <2>1 DEF LearntInv
<1>4. CASE OrRow \/ PassAgain \/ NextRow
  BY <1>3, <1>4 DEF OrRow, PassAgain, NextRow, Active, Computing
<1>5. CASE CalleeDependencies
  BY <1>5, CalleeStep
<1>6. ASSUME NEW f \in DOMAIN corpus, StartFrom(f) PROVE LearntInv'
  BY <1>3, <1>6 DEF StartFrom, propagateVars, Active, Computing
<1>7. CASE Pop \/ EndSearch \/ SequencesDone
  BY <1>3, <1>7 DEF Pop, EndSearch, SequencesDone, propagateVars, Active, Computing
<1>8. ASSUME NEW f \in DOMAIN corpus, LookAt(f) PROVE LearntInv'
  BY <1>3, <1>8 DEF LookAt, propagateVars, Active, Computing
<1>9. CASE InfoDone \/ PrintFile \/ PrintPanics
  BY <1>3, <1>9 DEF InfoDone, PrintFile, PrintPanics, propagateVars, Active, Computing
<1>10. CASE UNCHANGED vars
  BY <1>3, <1>10 DEF vars, propagateVars, Active, Computing
<1> QED
  BY <1>2, <1>4, <1>5, <1>6, <1>7, <1>8, <1>9, <1>10 DEF Next, Work, Terminating

-----------------------------------------------------------------------------
(* The search.                                                               *)

\* Where function f calls api,
Places(f, api) ==
  {n \in DOMAIN corpus[f].calls : corpus[f].calls[n].direct /\ corpus[f].calls[n].callee = api}

\* and where the functions in F do.
CallsIn(api, F) == UNION {{<<f, n>> : n \in Places(f, api)} : f \in F}

\* Marked with x, a set keeps its size.
LEMMA MarkedSize ==
  ASSUME NEW P, IsFiniteSet(P), NEW x
  PROVE  /\ IsFiniteSet({<<x, n>> : n \in P})
         /\ Cardinality({<<x, n>> : n \in P}) = Cardinality(P)
<1> DEFINE M == {<<x, n>> : n \in P}
           mark == [n \in P |-> <<x, n>>]
<1>1. mark \in [P -> M]
  OBVIOUS
<1>2. ASSUME NEW a \in P, NEW b \in P, mark[a] = mark[b] PROVE a = b
  <2>1. mark[a] = <<x, a>> /\ mark[b] = <<x, b>>
    OBVIOUS
  <2> QED
    BY <1>2, <2>1
<1>3. \A t \in M : \E s \in P : mark[s] = t
  OBVIOUS
<1>4. mark \in Bijection(P, M)
  <2> HIDE DEF mark, M
  <2> QED
    BY <1>1, <1>2, <1>3 DEF Bijection, Injection, Surjection, IsInjective
<1> HIDE DEF mark, M
<1>5. IsFiniteSet(M) /\ Cardinality(M) = Cardinality(P)
  BY <1>4, FS_Bijection DEF ExistsBijection
<1> QED
  BY <1>5 DEF M

\* With function f the calls found in F are more.
MoreCalls(F, f, api) ==
  /\ IsFiniteSet(Places(f, api)) /\ IsFiniteSet(CallsIn(api, F \cup {f}))
  /\ CallsIn(api, F \cup {f}) # {} <=> CallsIn(api, F) # {} \/ Places(f, api) # {}
  /\ Cardinality(CallsIn(api, F \cup {f})) =
       Cardinality(CallsIn(api, F)) + Cardinality(Places(f, api))

\* A function more is looked at.
LEMMA CallsInMore ==
  ASSUME corpus \in Corpora, NEW F, NEW f \in DOMAIN corpus, f \notin F,
         NEW api, IsFiniteSet(CallsIn(api, F))
  PROVE  MoreCalls(F, f, api)
<1> DEFINE Old == CallsIn(api, F)
           More == {<<f, n>> : n \in Places(f, api)}
<1>1. IsFiniteSet(Places(f, api))
  <2>1. Len(corpus[f].calls) \in Nat /\ DOMAIN corpus[f].calls = 1..Len(corpus[f].calls)
    BY BodyCalls
  <2>2. IsFiniteSet(DOMAIN corpus[f].calls)
    BY <2>1, FS_Interval
  <2>3. Places(f, api) \in SUBSET DOMAIN corpus[f].calls
    BY DEF Places
  <2> QED
    BY <2>2, <2>3, FS_Subset
<1>2. IsFiniteSet(More) /\ Cardinality(More) = Cardinality(Places(f, api))
  BY <1>1, MarkedSize
<1>3. CallsIn(api, F \cup {f}) = Old \cup More
  BY DEF CallsIn
<1>4. Old \cap More = {}
  <2>1. ASSUME NEW c \in Old PROVE c[1] \in F
    <3>1. PICK g \in F : c \in {<<g, n>> : n \in Places(g, api)}
      BY DEF CallsIn
    <3>2. PICK n : c = <<g, n>>
      BY <3>1
    <3> QED
      BY <3>2
  <2>2. ASSUME NEW c \in More PROVE c[1] = f
    OBVIOUS
  <2> HIDE DEF Old, More
  <2> QED
    BY <2>1, <2>2
<1>5. More # {} <=> Places(f, api) # {}
  OBVIOUS
<1>6. IsFiniteSet(Old)
  OBVIOUS
<1> HIDE DEF Old, More
<1>7. /\ IsFiniteSet(Old \cup More)
      /\ Cardinality(Old \cup More) = Cardinality(Old) + Cardinality(More) - Cardinality(Old \cap More)
  BY <1>2, <1>6, FS_Union
<1>8. Cardinality(Old \cap More) = 0 /\ Cardinality(Old) \in Nat /\ Cardinality(More) \in Nat
  BY <1>2, <1>4, <1>6, FS_EmptySet, FS_CardinalityType
<1>9. Cardinality(Old \cup More) = Cardinality(Old) + Cardinality(Places(f, api))
  BY <1>2, <1>7, <1>8
<1> QED
  BY <1>1, <1>3, <1>5, <1>7, <1>9 DEF Old, MoreCalls

\* The calls of api of the functions visited are in the sequences.
CallsMarked(api) ==
  /\ IsFiniteSet(CallsIn(api, visit_set)) /\ IsFiniteSet(Marks(all_sequences, func_seq, api))
  /\ Cardinality(CallsIn(api, visit_set)) <= Cardinality(Marks(all_sequences, func_seq, api))
  /\ CallsIn(api, visit_set) = {} => Marks(all_sequences, func_seq, api) = {}

\* The sequences hold what the functions visited call, and a function that has
\* not been visited is still to be started from or on the stack.
SeqInv ==
  /\ stack \in Seq(DOMAIN corpus) /\ func_seq \in Seq(Apis)
  /\ all_sequences \in Seq(Seq(Apis))
  /\ Open(func_seq) /\ \A n \in DOMAIN all_sequences : Delimited(all_sequences[n])
  /\ visit_set \subseteq DOMAIN corpus
  /\ DOMAIN corpus \subseteq starts \cup visit_set \cup Range(stack)
  /\ \A api \in Apis : CallsMarked(api)
  /\ pc \in {"info", "print"} /\ corpus # TestedCrate =>
       visit_set = DOMAIN corpus /\ func_seq = <<>>

\* A function is taken from the stack.
LEMMA PopStep ==
  ASSUME IInv, LearntInv, SeqInv, Pop
  PROVE  SeqInv'
<1>1. PICK f : f = Last(stack)
  OBVIOUS
<1>2. PICK calls : calls = callee_dependencies[f]
  OBVIOUS
<1>3. PICK st : st = [all |-> all_sequences, seq |-> func_seq, stack |-> Front(stack)]
  OBVIOUS
<1>4. PICK after : after = AddCalls(st, calls, visit_set')[Len(calls)]
  OBVIOUS
<1>5. /\ pc = "sequence" /\ pc' = "sequence" /\ stack # <<>>
      /\ visit_set' = visit_set \cup {f} /\ UNCHANGED <<corpus, starts>>
      /\ all_sequences' = after.all /\ func_seq' = after.seq /\ stack' = after.stack
  BY <1>1, <1>2, <1>3, <1>4 DEF Pop
<1>6. /\ stack \in Seq(DOMAIN corpus) /\ func_seq \in Seq(Apis)
      /\ all_sequences \in Seq(Seq(Apis))
      /\ Open(func_seq) /\ \A n \in DOMAIN all_sequences : Delimited(all_sequences[n])
      /\ visit_set \subseteq DOMAIN corpus
      /\ DOMAIN corpus \subseteq starts \cup visit_set \cup Range(stack)
      /\ \A api \in Apis : CallsMarked(api)
  BY DEF SeqInv
<1>7. /\ Front(stack) \in Seq(DOMAIN corpus) /\ f \in DOMAIN corpus
      /\ Range(stack) = Range(Front(stack)) \cup {f}
  <2>1. /\ Len(stack) \in Nat /\ Len(stack) >= 1 /\ DOMAIN stack = 1..Len(stack)
        /\ \A i \in 1..Len(stack) : stack[i] \in DOMAIN corpus
    BY <1>5, <1>6
  <2>2. /\ Front(stack) \in Seq(DOMAIN corpus) /\ Len(Front(stack)) = Len(stack) - 1
        /\ \A i \in 1..(Len(stack) - 1) : Front(stack)[i] = stack[i]
    BY <1>6, <2>1 DEF Front
  <2>3. f = stack[Len(stack)]
    BY <1>1 DEF Last
  <2>4. 1..Len(stack) = (1..(Len(stack) - 1)) \cup {Len(stack)}
    BY <2>1
  <2>5. DOMAIN Front(stack) = 1..(Len(stack) - 1)
    BY <2>2
  <2> HIDE DEF Front
  <2>6. Range(stack) = Range(Front(stack)) \cup {f}
    BY <2>1, <2>2, <2>3, <2>4, <2>5 DEF Range
  <2> QED
    BY <2>1, <2>2, <2>3, <2>6
<1>8. Learnt(f, calls)
  BY <1>2, <1>5, <1>7 DEF LearntInv, Active, Computing
<1>9. /\ Len(calls) \in Nat /\ DOMAIN corpus[f].calls = 1..Len(calls)
      /\ \A n \in 1..Len(calls) :
           /\ calls[n].direct \in BOOLEAN
           /\ calls[n].direct = corpus[f].calls[n].direct
           /\ calls[n].callee = corpus[f].calls[n].callee
  BY <1>7, <1>8, BodyCalls DEF Learnt, IInv, TypeInv
<1> HIDE DEF Front, Last
<1>10. /\ StInv(st, DOMAIN corpus) /\ st.all = all_sequences /\ st.seq = func_seq
       /\ st.stack = Front(stack)
  BY <1>3, <1>6, <1>7 DEF StInv
<1>11. /\ StInv(after, DOMAIN corpus) /\ Range(st.stack) \subseteq Range(after.stack)
       /\ \A api : Marked(st, after, api, ApiCalls(calls, Len(calls), api))
  <2>1. PICK names, visited : names = DOMAIN corpus /\ visited = visit_set'
    OBVIOUS
  <2>2. Len(calls) \in Nat /\ \A n \in 1..Len(calls) : calls[n].direct \in BOOLEAN
    BY <1>9
  <2>3. StInv(st, names) /\ after = AddCalls(st, calls, visited)[Len(calls)]
    BY <1>4, <1>10, <2>1
  <2>4. StInv(after, names) /\ AllAdded(st, calls, after)
    BY <2>1, <2>2, <2>3, AddCallsKeep
  <2> QED
    BY <2>1, <2>4 DEF AllAdded
<1>12. \A api \in Apis : ApiCalls(calls, Len(calls), api) = Places(f, api)
  BY <1>9 DEF ApiCalls, Places, IsApiCall
<1>13. ASSUME NEW api \in Apis PROVE CallsMarked(api)'
  <2>1. PICK M, N : /\ M = Marks(all_sequences, func_seq, api)
                    /\ N = Marks(all_sequences', func_seq', api)
    OBVIOUS
  <2>2. PICK C, D : C = CallsIn(api, visit_set) /\ D = CallsIn(api, visit_set \cup {f})
    OBVIOUS
  <2>3. CallsIn(api, visit_set)' = D
    BY <1>5, <2>2 DEF CallsIn, Places
  <2>4. /\ IsFiniteSet(C) /\ IsFiniteSet(M) /\ Cardinality(C) <= Cardinality(M)
        /\ C = {} => M = {}
    BY <2>1, <2>2 DEF SeqInv, CallsMarked
  <2>5. IsFiniteSet(N) /\ Cardinality(N) = Cardinality(M) + Cardinality(Places(f, api))
    BY <1>5, <1>10, <1>11, <1>12, <2>1, <2>4 DEF Marked
  <2>6. PICK P : P = Places(f, api)
    OBVIOUS
  <2>7. IsFiniteSet(P)
    <3>1. P \in SUBSET (1..Len(calls))
      BY <1>9, <2>6 DEF Places
    <3>2. IsFiniteSet(1..Len(calls))
      BY <1>9, FS_Interval
    <3> QED
      BY <3>1, <3>2, FS_Subset
  <2>8. \A Q : IsFiniteSet(Q) => Cardinality(Q) \in Nat /\ (Cardinality(Q) = 0 <=> Q = {})
    BY FS_CardinalityType, FS_EmptySet
  <2>9. IsFiniteSet(D) /\ Cardinality(D) <= Cardinality(C) + Cardinality(P)
    <3>1. CASE f \in visit_set
      <4>1. visit_set \cup {f} = visit_set
        BY <3>1
      <4>2. D = C
        BY <2>2, <4>1
      <4>3. Cardinality(C) \in Nat /\ Cardinality(P) \in Nat
        BY <2>4, <2>7, <2>8
      <4> QED
        BY <2>4, <4>2, <4>3
    <3>2. CASE f \notin visit_set
      <4>1. MoreCalls(visit_set, f, api)
        BY <1>7, <2>2, <2>4, <3>2, CallsInMore DEF IInv, TypeInv
      <4> QED
        BY <2>2, <2>4, <2>6, <2>7, <2>8, <4>1 DEF MoreCalls
    <3> QED
      BY <3>1, <3>2
  <2>10. D = {} => C = {} /\ P = {}
    <3>1. C \subseteq D
      BY <2>2 DEF CallsIn
    <3>2. \A n \in P : <<f, n>> \in D
      BY <2>2, <2>6 DEF CallsIn
    <3> QED
      BY <3>1, <3>2
  <2>11. D = {} => N = {}
    BY <2>4, <2>5, <2>6, <2>7, <2>8, <2>10
  <2>12. Cardinality(D) <= Cardinality(N)
    BY <2>4, <2>5, <2>6, <2>7, <2>8, <2>9
  <2> QED
    BY <2>1, <2>3, <2>5, <2>9, <2>11, <2>12 DEF CallsMarked
<1>14. /\ stack' \in Seq(DOMAIN corpus) /\ func_seq' \in Seq(Apis)
       /\ all_sequences' \in Seq(Seq(Apis))
       /\ Open(func_seq') /\ \A n \in DOMAIN all_sequences' : Delimited(all_sequences'[n])
  BY <1>5, <1>11 DEF StInv
<1>15. DOMAIN corpus \subseteq starts \cup visit_set' \cup Range(stack')
  BY <1>5, <1>6, <1>7, <1>10, <1>11
<1> QED
  BY <1>5, <1>6, <1>7, <1>13, <1>14, <1>15 DEF SeqInv

\* Each step keeps the sequences.
LEMMA SeqStep == IInv /\ LearntInv /\ SeqInv /\ [Next]_vars => SeqInv'
<1> SUFFICES ASSUME IInv, LearntInv, SeqInv, [Next]_vars PROVE SeqInv'
  OBVIOUS
<1>0. /\ stack \in Seq(DOMAIN corpus) /\ func_seq \in Seq(Apis)
      /\ all_sequences \in Seq(Seq(Apis))
      /\ Open(func_seq) /\ \A n \in DOMAIN all_sequences : Delimited(all_sequences[n])
      /\ visit_set \subseteq DOMAIN corpus
      /\ DOMAIN corpus \subseteq starts \cup visit_set \cup Range(stack)
      /\ \A api \in Apis : CallsMarked(api)
  BY DEF SeqInv
<1>12. ASSUME UNCHANGED <<corpus, visit_set, all_sequences, func_seq>>
       PROVE  \A api \in Apis : CallsMarked(api)'
  <2>1. \A api : CallsIn(api, visit_set)' = CallsIn(api, visit_set)
    BY <1>12 DEF CallsIn, Places
  <2>2. \A api : Marks(all_sequences, func_seq, api)' = Marks(all_sequences, func_seq, api)
    BY <1>12
  <2> QED
    BY <1>0, <2>1, <2>2 DEF CallsMarked
<1>1. ASSUME UNCHANGED <<corpus, sequenceVars>>,
             pc' \in {"info", "print"} /\ corpus # TestedCrate => pc \in {"info", "print"}
      PROVE  SeqInv'
  <2>1. UNCHANGED <<starts, stack, func_seq, visit_set, all_sequences>>
    BY <1>1 DEF sequenceVars
  <2>2. \A api \in Apis : CallsMarked(api)'
    BY <1>1, <1>12, <2>1
  <2> QED
    BY <1>1, <2>1, <2>2 DEF SeqInv
<1>2. ASSUME NEW f \in DOMAIN corpus, DirectDependencies(f) PROVE SeqInv'
  BY <1>1, <1>2 DEF DirectDependencies
<1>3. CASE OrRow \/ PassAgain \/ NextRow
  BY <1>1, <1>3 DEF OrRow, PassAgain, NextRow
<1>4. CASE CalleeDependencies
  BY <1>1, <1>4 DEF CalleeDependencies
<1>5. ASSUME NEW f \in DOMAIN corpus, StartFrom(f) PROVE SeqInv'
  <2>1. /\ pc = "sequence" /\ pc' = "sequence" /\ stack = <<>> /\ stack' = <<f>>
        /\ starts' = starts \ {f} /\ UNCHANGED <<corpus, func_seq, visit_set, all_sequences>>
    BY <1>5 DEF StartFrom
  <2>2. Range(stack) = {} /\ Range(stack') = {f} /\ stack' \in Seq(DOMAIN corpus)
    BY <2>1 DEF Range
  <2>3. \A api \in Apis : CallsMarked(api)'
    BY <1>12, <2>1
  <2> QED
    BY <1>0, <2>1, <2>2, <2>3 DEF SeqInv
<1>6. CASE Pop
  BY <1>6, PopStep
<1>7. CASE EndSearch
  <2>1. /\ pc = "sequence" /\ pc' = "sequence" /\ func_seq # <<>>
        /\ all_sequences' = Append(all_sequences, func_seq) /\ func_seq' = <<>>
        /\ UNCHANGED <<corpus, starts, stack, visit_set>>
    BY <1>7 DEF EndSearch
  <2>3. Delimited(func_seq)
    BY <1>0, <2>1, OpenDelimited
  <2>4. /\ all_sequences' \in Seq(Seq(Apis))
        /\ \A n \in DOMAIN all_sequences' : Delimited(all_sequences'[n])
        /\ \A api : Marks(all_sequences', <<>>, api) = Marks(all_sequences, func_seq, api)
    BY <1>0, <2>1, <2>3, PushSequence
  <2>5. <<>> \in Seq(Apis) /\ Open(<<>>) /\ Range(<<>>) = {}
    BY DEF Open, Range
  <2>6. \A api \in Apis : CallsMarked(api)'
    <3>1. \A api : CallsIn(api, visit_set)' = CallsIn(api, visit_set)
      BY <2>1 DEF CallsIn, Places
    <3>2. \A api : Marks(all_sequences, func_seq, api)' = Marks(all_sequences, func_seq, api)
      BY <2>1, <2>4
    <3> QED
      BY <1>0, <3>1, <3>2 DEF CallsMarked
  <2> QED
    BY <1>0, <2>1, <2>4, <2>5, <2>6 DEF SeqInv
<1>8. CASE SequencesDone
  <2>1. /\ pc' = "info" /\ stack = <<>> /\ func_seq = <<>> /\ starts = {}
        /\ UNCHANGED <<corpus, starts, stack, func_seq, visit_set, all_sequences>>
    BY <1>8 DEF SequencesDone, sequenceVars
  <2>2. \A api \in Apis : CallsMarked(api)'
    BY <1>12, <2>1
  <2>3. visit_set = DOMAIN corpus
    <3>1. Range(stack) = {}
      BY <2>1 DEF Range
    <3> QED
      BY <1>0, <2>1, <3>1
  <2> QED
    BY <1>0, <2>1, <2>2, <2>3 DEF SeqInv
<1>9. ASSUME NEW f \in DOMAIN corpus, LookAt(f) PROVE SeqInv'
  BY <1>1, <1>9 DEF LookAt
<1>10. CASE InfoDone \/ PrintFile \/ PrintPanics
  BY <1>1, <1>10 DEF InfoDone, PrintFile, PrintPanics
<1>11. CASE UNCHANGED vars
  BY <1>1, <1>11 DEF vars
<1> QED
  BY <1>2, <1>3, <1>4, <1>5, <1>6, <1>7, <1>8, <1>9, <1>10, <1>11 DEF Next, Work, Terminating

\* At the beginning nothing is learnt.
LEMMA LearntInitially == Init => LearntInv /\ SeqInv
<1> SUFFICES ASSUME Init PROVE LearntInv /\ SeqInv
  OBVIOUS
<1>1. /\ pc = "compute" /\ to_compute = DOMAIN corpus /\ starts = DOMAIN corpus
      /\ callee_dependencies = <<>> /\ stack = <<>> /\ func_seq = <<>> /\ visit_set = {}
      /\ all_sequences = <<>>
  BY DEF Init
<1>2. LearntInv
  BY <1>1 DEF LearntInv, Computing
<1>3. Range(<<>>) = {} /\ DOMAIN <<>> = {} /\ Open(<<>>)
  BY DEF Range, Open
<1>4. \A api : Marks(<<>>, <<>>, api) = {}
  BY <1>3 DEF Marks, At
<1>5. \A api : CallsIn(api, {}) = {}
  BY DEF CallsIn
<1>6. <<>> \in Seq(DOMAIN corpus) /\ <<>> \in Seq(Apis) /\ <<>> \in Seq(Seq(Apis))
  OBVIOUS
<1>7. \A n \in DOMAIN all_sequences : Delimited(all_sequences[n])
  BY <1>1, <1>3
<1>8. ASSUME NEW api \in Apis PROVE CallsMarked(api)
  <2>1. CallsIn(api, visit_set) = {} /\ Marks(all_sequences, func_seq, api) = {}
    BY <1>1, <1>4, <1>5
  <2>2. IsFiniteSet({}) /\ Cardinality({}) <= Cardinality({})
    BY FS_EmptySet
  <2> QED
    BY <2>1, <2>2 DEF CallsMarked
<1>9. SeqInv
  BY <1>1, <1>3, <1>6, <1>7, <1>8 DEF SeqInv
<1> QED
  BY <1>2, <1>9

\* Whatever the program and the order of the hash map, the calls that can do
\* without the others begin a sequence, and the ones whose results the others
\* cannot use end one.
THEOREM SequencesAlwaysDelimited == Spec => []SequencesDelimited
<1>1. SeqInv => SequencesDelimited
  BY DEF SeqInv, SequencesDelimited, Delimited
<1> QED
  BY <1>1, Initially, Step, LearntInitially, LearntStep, SeqStep, PTL DEF Spec

-----------------------------------------------------------------------------
(* The counts and the pairs.                                                 *)

\* Whether a result of pre is found to reach a call of succ in function f.
FlowOf(f, pre, succ) ==
  \E n \in Places(f, succ) : \E i \in DOMAIN corpus[f].calls[n].arguments :
    Reaches(f, corpus[f], pre, corpus[f].calls[n].arguments[i])

Seen == DOMAIN corpus \ info_left

\* The calls and the pairs counted are those of the functions looked at.
InfoInv ==
  /\ info_left \subseteq DOMAIN corpus
  /\ \A api \in Apis :
       /\ IsFiniteSet(CallsIn(api, Seen))
       /\ api \in DOMAIN function_info <=> CallsIn(api, Seen) # {}
       /\ api \in DOMAIN function_info =>
            function_info[api] = Cardinality(CallsIn(api, Seen))
  /\ \A pre, succ \in Apis :
       <<pre, succ>> \in DOMAIN dependencies_info <=> \E f \in Seen : FlowOf(f, pre, succ)
  /\ pc = "print" /\ corpus # TestedCrate => info_left = {}

\* The counters after the calls at some places: those that are there, and those
\* of the functions called.
LEMMA CountedCalls ==
  ASSUME NEW counters, NEW calls, NEW places, IsFiniteSet(places), NEW key,
         NEW new, new = Counted(counters, {<<calls[n].callee, n>> : n \in places})
  PROVE  /\ key \in DOMAIN new <=>
              key \in DOMAIN counters \/ {n \in places : calls[n].callee = key} # {}
         /\ key \in DOMAIN new =>
              new[key] = (IF key \in DOMAIN counters THEN counters[key] ELSE 0)
                         + Cardinality({n \in places : calls[n].callee = key})
<1> DEFINE occurrences == {<<calls[n].callee, n>> : n \in places}
           P == {n \in places : calls[n].callee = key}
<1>1. {o \in occurrences : o[1] = key} = {<<key, n>> : n \in P}
  <2>1. ASSUME NEW o \in occurrences, o[1] = key PROVE o \in {<<key, n>> : n \in P}
    <3>1. PICK n \in places : o = <<calls[n].callee, n>>
      OBVIOUS
    <3>2. calls[n].callee = key
      BY <2>1, <3>1
    <3> QED
      BY <3>1, <3>2
  <2>2. ASSUME NEW n \in P PROVE <<key, n>> \in occurrences /\ <<key, n>>[1] = key
    OBVIOUS
  <2> HIDE DEF occurrences, P
  <2> QED
    BY <2>1, <2>2
<1>2. Cardinality({o \in occurrences : o[1] = key}) = Cardinality(P)
  <2>1. IsFiniteSet(P)
    BY FS_Subset
  <2> HIDE DEF occurrences, P
  <2> QED
    BY <1>1, <2>1, MarkedSize
<1>3. key \in {o[1] : o \in occurrences} <=> P # {}
  <2>1. key \in {o[1] : o \in occurrences} <=> {o \in occurrences : o[1] = key} # {}
    OBVIOUS
  <2> HIDE DEF occurrences, P
  <2> QED
    BY <1>1, <2>1
<1>4. new = [k \in DOMAIN counters \cup {o[1] : o \in occurrences} |->
               (IF k \in DOMAIN counters THEN counters[k] ELSE 0)
               + Cardinality({o \in occurrences : o[1] = k})]
  BY DEF Counted
<1> HIDE DEF occurrences
<1>5. key \in DOMAIN new <=> key \in DOMAIN counters \/ P # {}
  BY <1>3, <1>4
<1>6. ASSUME key \in DOMAIN new
      PROVE  new[key] = (IF key \in DOMAIN counters THEN counters[key] ELSE 0) + Cardinality(P)
  <2>1. key \in DOMAIN counters \cup {o[1] : o \in occurrences}
    BY <1>4, <1>6
  <2>2. new[key] = (IF key \in DOMAIN counters THEN counters[key] ELSE 0)
                   + Cardinality({o \in occurrences : o[1] = key})
    BY <1>4, <2>1
  <2> QED
    BY <1>2, <2>2
<1> QED
  BY <1>5, <1>6

\* A result of pre goes into one of the calls, a call of succ.
GoesInto(calls, places, pre, succ) ==
  \E n \in places : calls[n].callee = succ /\
    \E i \in DOMAIN calls[n].arg_sources : FromApi(calls[n].arg_sources[i], pre)

\* The pairs after the calls at some places.
LEMMA CountedPairs ==
  ASSUME NEW counters, NEW calls, NEW places, NEW pre \in Apis, NEW succ,
         NEW new, new = Counted(counters, UNION {Pairs(calls, n) : n \in places})
  PROVE  <<pre, succ>> \in DOMAIN new <=>
           <<pre, succ>> \in DOMAIN counters \/ GoesInto(calls, places, pre, succ)
<1> DEFINE occurrences == UNION {Pairs(calls, n) : n \in places}
<1>1. DOMAIN new = DOMAIN counters \cup {o[1] : o \in occurrences}
  BY DEF Counted
<1>2. ASSUME NEW o \in occurrences, o[1] = <<pre, succ>>
      PROVE  GoesInto(calls, places, pre, succ)
  <2>1. PICK n \in places : o \in Pairs(calls, n)
    OBVIOUS
  <2>2. PICK i \in DOMAIN calls[n].arg_sources :
          o \in {<<<<x[2][2], calls[n].callee>>, <<n, i, x[1]>>>> :
                   x \in {y \in calls[n].arg_sources[i] :
                            y[2][1] = "ReturnVariable" /\ y[2][2] \in Apis}}
    BY <2>1 DEF Pairs
  <2>3. PICK x \in calls[n].arg_sources[i] :
          /\ x[2][1] = "ReturnVariable"
          /\ o = <<<<x[2][2], calls[n].callee>>, <<n, i, x[1]>>>>
    BY <2>2
  <2>4. o[1] = <<x[2][2], calls[n].callee>>
    BY <2>3
  <2>5. x[2][2] = pre /\ calls[n].callee = succ
    BY <1>2, <2>4
  <2> QED
    BY <2>3, <2>5 DEF FromApi, GoesInto
<1>3. ASSUME NEW n \in places, calls[n].callee = succ,
             NEW i \in DOMAIN calls[n].arg_sources, FromApi(calls[n].arg_sources[i], pre)
      PROVE  \E o \in occurrences : o[1] = <<pre, succ>>
  <2>1. PICK x \in calls[n].arg_sources[i] : x[2][1] = "ReturnVariable" /\ x[2][2] = pre
    BY <1>3 DEF FromApi
  <2>2. PICK o : o = <<<<x[2][2], calls[n].callee>>, <<n, i, x[1]>>>>
    OBVIOUS
  <2>3. o \in Pairs(calls, n)
    BY <2>1, <2>2 DEF Pairs
  <2>4. o[1] = <<pre, succ>>
    BY <1>3, <2>1, <2>2
  <2> QED
    BY <2>3, <2>4
<1> HIDE DEF occurrences
<1> QED
  BY <1>1, <1>2, <1>3 DEF GoesInto

\* A function of the program is looked at.
LEMMA LookStep ==
  ASSUME IInv, LearntInv, InfoInv, NEW f \in DOMAIN corpus, LookAt(f)
  PROVE  InfoInv'
<1>1. PICK calls : calls = callee_dependencies[f]
  OBVIOUS
<1>2. PICK places : places = {n \in DOMAIN calls : IsApiCall(calls[n])}
  OBVIOUS
<1>3. /\ pc = "info" /\ f \in info_left /\ info_left' = info_left \ {f}
      /\ UNCHANGED <<pc, corpus, callee_dependencies>>
      /\ function_info' = Counted(function_info, {<<calls[n].callee, n>> : n \in places})
      /\ dependencies_info' = Counted(dependencies_info, UNION {Pairs(calls, n) : n \in places})
  BY <1>1, <1>2 DEF LookAt
<1>4. corpus \in Corpora /\ info_left \subseteq DOMAIN corpus
  BY DEF IInv, TypeInv, InfoInv
<1>5. Learnt(f, calls)
  BY <1>1, <1>3 DEF LearntInv, Active, Computing
<1>6. PICK F : F = Seen
  OBVIOUS
<1>7. f \notin F /\ Seen' = F \cup {f}
  BY <1>3, <1>4, <1>6 DEF Seen
<1>8. ASSUME NEW api \in Apis
      PROVE  /\ {n \in places : calls[n].callee = api} = Places(f, api)
             /\ CallsIn(api, Seen)' = CallsIn(api, F \cup {f})
  <2>1. {n \in places : calls[n].callee = api} = Places(f, api)
    <3>1. /\ DOMAIN calls = DOMAIN corpus[f].calls
          /\ \A n \in DOMAIN calls : /\ calls[n].direct = corpus[f].calls[n].direct
                                     /\ calls[n].callee = corpus[f].calls[n].callee
      BY <1>4, <1>5, BodyCalls DEF Learnt
    <3> QED
      BY <1>2, <3>1 DEF Places, IsApiCall
  <2>2. CallsIn(api, Seen)' = CallsIn(api, F \cup {f})
    BY <1>3, <1>7 DEF CallsIn, Places
  <2> QED
    BY <2>1, <2>2
<1>9. IsFiniteSet(places)
  <2>1. Len(calls) \in Nat /\ DOMAIN calls = 1..Len(calls)
    BY <1>4, <1>5, BodyCalls DEF Learnt
  <2>2. IsFiniteSet(DOMAIN calls)
    BY <2>1, FS_Interval
  <2> QED
    BY <1>2, <2>2, FS_Subset
<1>10. ASSUME NEW api \in Apis
       PROVE  /\ IsFiniteSet(CallsIn(api, F \cup {f}))
              /\ api \in DOMAIN function_info' <=> CallsIn(api, F \cup {f}) # {}
              /\ api \in DOMAIN function_info' =>
                   function_info'[api] = Cardinality(CallsIn(api, F \cup {f}))
  <2>1. /\ IsFiniteSet(CallsIn(api, F))
        /\ api \in DOMAIN function_info <=> CallsIn(api, F) # {}
        /\ api \in DOMAIN function_info => function_info[api] = Cardinality(CallsIn(api, F))
    BY <1>6 DEF InfoInv
  <2>2. /\ IsFiniteSet(Places(f, api)) /\ IsFiniteSet(CallsIn(api, F \cup {f}))
        /\ CallsIn(api, F \cup {f}) # {} <=> CallsIn(api, F) # {} \/ Places(f, api) # {}
        /\ Cardinality(CallsIn(api, F \cup {f})) =
             Cardinality(CallsIn(api, F)) + Cardinality(Places(f, api))
    <3>1. MoreCalls(F, f, api)
      BY <1>4, <1>7, <2>1, CallsInMore
    <3> QED
      BY <3>1 DEF MoreCalls
  <2>3. PICK counters, new : counters = function_info /\ new = function_info'
    OBVIOUS
  <2>4. new = Counted(counters, {<<calls[n].callee, n>> : n \in places})
    BY <1>3, <2>3
  <2>5. /\ api \in DOMAIN new <=>
             api \in DOMAIN counters \/ {n \in places : calls[n].callee = api} # {}
        /\ api \in DOMAIN new =>
             new[api] = (IF api \in DOMAIN counters THEN counters[api] ELSE 0)
                        + Cardinality({n \in places : calls[n].callee = api})
    BY <1>9, <2>4, CountedCalls
  <2>6. /\ api \in DOMAIN new <=> api \in DOMAIN counters \/ Places(f, api) # {}
        /\ api \in DOMAIN new =>
             new[api] = (IF api \in DOMAIN counters THEN counters[api] ELSE 0)
                        + Cardinality(Places(f, api))
    BY <1>8, <2>5
  <2>7. Cardinality(CallsIn(api, F)) \in Nat /\ Cardinality(Places(f, api)) \in Nat
        /\ (CallsIn(api, F) = {} => Cardinality(CallsIn(api, F)) = 0)
    BY <2>1, <2>2, FS_CardinalityType, FS_EmptySet
  <2>8. api \notin DOMAIN counters => Cardinality(CallsIn(api, F)) = 0
    BY <2>1, <2>3, <2>7
  <2>9. api \in DOMAIN new => new[api] = Cardinality(CallsIn(api, F)) + Cardinality(Places(f, api))
    BY <2>1, <2>3, <2>6, <2>7, <2>8
  <2> QED
    BY <2>1, <2>2, <2>3, <2>6, <2>9
<1>11. ASSUME NEW pre \in Apis, NEW succ \in Apis
       PROVE  <<pre, succ>> \in DOMAIN dependencies_info' <=>
                \E g \in F \cup {f} : FlowOf(g, pre, succ)
  <2>1. <<pre, succ>> \in DOMAIN dependencies_info <=> \E g \in F : FlowOf(g, pre, succ)
    BY <1>6, <1>11 DEF InfoInv
  <2>2. PICK counters, new : counters = dependencies_info /\ new = dependencies_info'
    OBVIOUS
  <2>3. new = Counted(counters, UNION {Pairs(calls, n) : n \in places})
    BY <1>3, <2>2
  <2>4. <<pre, succ>> \in DOMAIN new <=>
          <<pre, succ>> \in DOMAIN counters \/ GoesInto(calls, places, pre, succ)
    BY <2>3, CountedPairs
  <2>5. ASSUME NEW n \in DOMAIN calls
        PROVE  (\E i \in DOMAIN calls[n].arg_sources : FromApi(calls[n].arg_sources[i], pre)) <=>
               \E i \in DOMAIN corpus[f].calls[n].arguments :
                 Reaches(f, corpus[f], pre, corpus[f].calls[n].arguments[i])
    BY <1>5, <1>11 DEF Learnt
  <2>6. \A n : n \in places => n \in DOMAIN calls
    BY <1>2
  <2>7. \A n : n \in places /\ calls[n].callee = succ <=> n \in Places(f, succ)
    BY <1>8
  <2>8. GoesInto(calls, places, pre, succ) <=> FlowOf(f, pre, succ)
    BY <2>5, <2>6, <2>7 DEF FlowOf, GoesInto
  <2> QED
    BY <2>1, <2>2, <2>4, <2>8
<1>12. \A g, pre, succ : FlowOf(g, pre, succ)' <=> FlowOf(g, pre, succ)
  BY <1>3 DEF FlowOf, Places
<1>13. info_left' \subseteq DOMAIN corpus'
  BY <1>3, <1>4
<1>14. \A api \in Apis :
         /\ IsFiniteSet(CallsIn(api, Seen)')
         /\ api \in DOMAIN function_info' <=> CallsIn(api, Seen)' # {}
         /\ api \in DOMAIN function_info' =>
              function_info'[api] = Cardinality(CallsIn(api, Seen)')
  BY <1>8, <1>10
<1>15. \A pre, succ \in Apis :
         <<pre, succ>> \in DOMAIN dependencies_info' <=>
           \E g \in Seen' : FlowOf(g, pre, succ)'
  BY <1>3, <1>7, <1>11, <1>12
<1> QED
  BY <1>3, <1>13, <1>14, <1>15 DEF InfoInv

\* Each step keeps the counts.
LEMMA InfoStep == IInv /\ LearntInv /\ InfoInv /\ [Next]_vars => InfoInv'
<1> SUFFICES ASSUME IInv, LearntInv, InfoInv, [Next]_vars PROVE InfoInv'
  OBVIOUS
<1>1. ASSUME UNCHANGED <<corpus, infoVars>>,
             pc' = "print" /\ corpus # TestedCrate => pc = "print" \/ info_left = {}
      PROVE  InfoInv'
  <2>1. UNCHANGED <<info_left, dependencies_info, function_info>>
    BY <1>1 DEF infoVars
  <2>2. Seen' = Seen
    BY <1>1, <2>1 DEF Seen
  <2>3. \A api : CallsIn(api, Seen)' = CallsIn(api, Seen)
    BY <1>1, <2>2 DEF CallsIn, Places
  <2>4. \A g, pre, succ : FlowOf(g, pre, succ)' <=> FlowOf(g, pre, succ)
    BY <1>1 DEF FlowOf, Places
  <2> QED
    BY <1>1, <2>1, <2>2, <2>3, <2>4 DEF InfoInv
<1>2. ASSUME NEW f \in DOMAIN corpus, DirectDependencies(f) PROVE InfoInv'
  BY <1>1, <1>2 DEF DirectDependencies
<1>3. CASE OrRow \/ PassAgain \/ NextRow
  BY <1>1, <1>3 DEF OrRow, PassAgain, NextRow
<1>4. CASE CalleeDependencies
  BY <1>1, <1>4 DEF CalleeDependencies
<1>5. ASSUME NEW f \in DOMAIN corpus, StartFrom(f) PROVE InfoInv'
  BY <1>1, <1>5 DEF StartFrom
<1>6. CASE Pop \/ EndSearch \/ SequencesDone
  BY <1>1, <1>6 DEF Pop, EndSearch, SequencesDone
<1>7. ASSUME NEW f \in DOMAIN corpus, LookAt(f) PROVE InfoInv'
  BY <1>7, LookStep
<1>8. CASE InfoDone \/ PrintFile \/ PrintPanics
  BY <1>1, <1>8 DEF InfoDone, PrintFile, PrintPanics
<1>9. CASE UNCHANGED vars
  BY <1>1, <1>9 DEF vars
<1> QED
  BY <1>2, <1>3, <1>4, <1>5, <1>6, <1>7, <1>8, <1>9 DEF Next, Work, Terminating

\* At the beginning nothing is counted.
LEMMA InfoInitially == Init => InfoInv
<1> SUFFICES ASSUME Init PROVE InfoInv
  OBVIOUS
<1>1. /\ pc = "compute" /\ info_left = DOMAIN corpus
      /\ dependencies_info = <<>> /\ function_info = <<>>
  BY DEF Init
<1>2. Seen = {} /\ \A api : CallsIn(api, Seen) = {}
  BY <1>1 DEF Seen, CallsIn
<1>3. DOMAIN function_info = {} /\ DOMAIN dependencies_info = {}
  BY <1>1
<1>4. IsFiniteSet({})
  BY FS_EmptySet
<1> QED
  BY <1>1, <1>2, <1>3, <1>4 DEF InfoInv

\* Whatever the program and the order of the hash map, extract_info counts every
\* call of the library once, and extract_sequence finds them all: the sequences
\* hold a function as often as it is called, or more often.
THEOREM CallsAreCounted == Spec => []EveryCallCounted
<1>1. SeqInv /\ InfoInv => EveryCallCounted
  <2> SUFFICES ASSUME SeqInv, InfoInv, pc = "print", corpus # TestedCrate, NEW api \in Apis,
                      NEW calls, calls = Cardinality(CallsOf(api))
               PROVE  /\ (api \in DOMAIN function_info) = (calls > 0)
                      /\ calls > 0 => function_info[api] = calls
                      /\ Cardinality(OccurrencesOf(api)) >= calls
                      /\ calls = 0 => OccurrencesOf(api) = {}
    BY DEF EveryCallCounted
  <2>1. Seen = DOMAIN corpus /\ visit_set = DOMAIN corpus /\ func_seq = <<>>
    BY DEF InfoInv, SeqInv, Seen
  <2>2. CallsOf(api) = CallsIn(api, Seen) /\ CallsOf(api) = CallsIn(api, visit_set)
    BY <2>1 DEF CallsOf, CallsIn, Places
  <2>3. /\ IsFiniteSet(CallsOf(api))
        /\ api \in DOMAIN function_info <=> CallsOf(api) # {}
        /\ api \in DOMAIN function_info => function_info[api] = calls
    BY <2>2 DEF InfoInv
  <2>4. calls \in Nat /\ (calls = 0 <=> CallsOf(api) = {})
    BY <2>3, FS_CardinalityType, FS_EmptySet
  <2>5. Marks(all_sequences, func_seq, api) = OccurrencesOf(api)
    <3> DEFINE M(s, n) == {<<n, k>> : k \in {j \in DOMAIN s : s[j] = api}}
    <3>1. /\ Len(all_sequences) \in Nat /\ DOMAIN all_sequences = 1..Len(all_sequences)
      BY DEF SeqInv
    <3>2. 1..(Len(all_sequences) + 1) = DOMAIN all_sequences \cup {Len(all_sequences) + 1}
          /\ Len(all_sequences) + 1 \notin DOMAIN all_sequences
      BY <3>1
    <3>3. M(At(all_sequences, func_seq, Len(all_sequences) + 1), Len(all_sequences) + 1) = {}
      <4>1. At(all_sequences, func_seq, Len(all_sequences) + 1) = <<>> /\ DOMAIN <<>> = {}
        BY <2>1, <3>2 DEF At
      <4> QED
        BY <4>1
    <3>4. \A n \in DOMAIN all_sequences : At(all_sequences, func_seq, n) = all_sequences[n]
      BY DEF At
    <3>5. /\ Marks(all_sequences, func_seq, api) =
               UNION {M(At(all_sequences, func_seq, n), n) : n \in 1..(Len(all_sequences) + 1)}
          /\ OccurrencesOf(api) = UNION {M(all_sequences[n], n) : n \in DOMAIN all_sequences}
      BY DEF Marks, OccurrencesOf
    <3> HIDE DEF M
    <3> QED
      BY <3>2, <3>3, <3>4, <3>5
  <2>6. /\ IsFiniteSet(OccurrencesOf(api)) /\ calls <= Cardinality(OccurrencesOf(api))
        /\ CallsOf(api) = {} => OccurrencesOf(api) = {}
    BY <2>2, <2>5 DEF SeqInv, CallsMarked
  <2>7. Cardinality(OccurrencesOf(api)) >= calls
    BY <2>4, <2>6, FS_CardinalityType
  <2>8. (api \in DOMAIN function_info) = (calls > 0)
    <3>1. CASE calls = 0
      <4>1. ~(calls > 0) /\ api \notin DOMAIN function_info
        BY <2>3, <2>4, <3>1
      <4> QED
        BY <4>1
    <3>2. CASE calls # 0
      <4>1. calls > 0 /\ api \in DOMAIN function_info
        BY <2>3, <2>4, <3>2
      <4> QED
        BY <4>1
    <3> QED
      BY <3>1, <3>2
  <2> QED
    BY <2>3, <2>4, <2>6, <2>7, <2>8
<1> QED
  BY <1>1, Initially, Step, LearntInitially, LearntStep, SeqStep, InfoInitially, InfoStep, PTL
  DEF Spec

\* Whatever the program, and even if functions of its own pass for functions of
\* the library, the pairs counted are those of which the result of the first
\* reaches the second, except for the results get_origins cannot see.
THEOREM PairsAreFlows == Spec => []DependenciesAreFlows
<1>1. ASSUME IInv, InfoInv PROVE DependenciesAreFlows
  <2> SUFFICES ASSUME pc = "print", corpus # TestedCrate, NEW pre \in Apis, NEW succ \in Apis
               PROVE  <<pre, succ>> \in DOMAIN dependencies_info <=>
                        \/ \E p \in CallsOf(pre), s \in CallsOf(succ) :
                             /\ p[1] = s[1]
                             /\ Flows(corpus[p[1]], p[2], s[2])
                             /\ Found(corpus[p[1]], p[2])
                        \/ \E s \in CallsOf(succ) :
                             s[1] = pre /\ OwnResultFlows(corpus[pre], s[2])
    BY DEF DependenciesAreFlows
  <2>1. Seen = DOMAIN corpus
    BY <1>1 DEF InfoInv, Seen
  <2>2. <<pre, succ>> \in DOMAIN dependencies_info <=>
          \E f \in DOMAIN corpus : FlowOf(f, pre, succ)
    BY <1>1, <2>1 DEF InfoInv
  <2>3. ASSUME NEW f \in DOMAIN corpus
        PROVE  FlowOf(f, pre, succ) <=>
                 \/ \E m \in Places(f, pre), n \in Places(f, succ) :
                      Flows(corpus[f], m, n) /\ Found(corpus[f], m)
                 \/ \E n \in Places(f, succ) : f = pre /\ OwnResultFlows(corpus[f], n)
    BY DEF FlowOf, Reaches, Flows, OwnResultFlows, Places
  <2>4. \A api, c : c \in CallsOf(api) <=>
          \E f \in DOMAIN corpus : \E n \in Places(f, api) : c = <<f, n>>
    BY DEF CallsOf, Places
  <2>5. ASSUME NEW p \in CallsOf(pre), NEW s \in CallsOf(succ), p[1] = s[1],
               Flows(corpus[p[1]], p[2], s[2]), Found(corpus[p[1]], p[2])
        PROVE  \E f \in DOMAIN corpus : \E m \in Places(f, pre), n \in Places(f, succ) :
                 Flows(corpus[f], m, n) /\ Found(corpus[f], m)
    <3>1. PICK f \in DOMAIN corpus : \E m \in Places(f, pre) : p = <<f, m>>
      BY <2>4
    <3>2. PICK m \in Places(f, pre) : p = <<f, m>>
      BY <3>1
    <3>3. PICK g \in DOMAIN corpus : \E n \in Places(g, succ) : s = <<g, n>>
      BY <2>4
    <3>4. PICK n \in Places(g, succ) : s = <<g, n>>
      BY <3>3
    <3>5. p[1] = f /\ p[2] = m /\ s[1] = g /\ s[2] = n
      BY <3>2, <3>4
    <3> QED
      BY <2>5, <3>5
  <2>6. ASSUME NEW f \in DOMAIN corpus, NEW m \in Places(f, pre), NEW n \in Places(f, succ),
               Flows(corpus[f], m, n), Found(corpus[f], m)
        PROVE  \E p \in CallsOf(pre), s \in CallsOf(succ) :
                 /\ p[1] = s[1] /\ Flows(corpus[p[1]], p[2], s[2])
                 /\ Found(corpus[p[1]], p[2])
    <3>1. PICK p, s : p = <<f, m>> /\ s = <<f, n>>
      OBVIOUS
    <3>2. p \in CallsOf(pre) /\ s \in CallsOf(succ)
      BY <2>4, <3>1
    <3>3. p[1] = f /\ p[2] = m /\ s[1] = f /\ s[2] = n
      BY <3>1
    <3> QED
      BY <2>6, <3>2, <3>3
  <2>7. ASSUME NEW s \in CallsOf(succ), s[1] = pre, OwnResultFlows(corpus[pre], s[2])
        PROVE  \E f \in DOMAIN corpus : \E n \in Places(f, succ) :
                 f = pre /\ OwnResultFlows(corpus[f], n)
    <3>1. PICK f \in DOMAIN corpus : \E n \in Places(f, succ) : s = <<f, n>>
      BY <2>4
    <3>2. PICK n \in Places(f, succ) : s = <<f, n>>
      BY <3>1
    <3>3. s[1] = f /\ s[2] = n
      BY <3>2
    <3> QED
      BY <2>7, <3>3
  <2>8. ASSUME NEW f \in DOMAIN corpus, NEW n \in Places(f, succ), f = pre,
               OwnResultFlows(corpus[f], n)
        PROVE  \E s \in CallsOf(succ) : s[1] = pre /\ OwnResultFlows(corpus[pre], s[2])
    <3>1. PICK s : s = <<f, n>>
      OBVIOUS
    <3>2. s \in CallsOf(succ) /\ s[1] = f /\ s[2] = n
      BY <2>4, <3>1
    <3> QED
      BY <2>8, <3>2
  <2> QED
    BY <2>2, <2>3, <2>5, <2>6, <2>7, <2>8
<1>2. IInv /\ InfoInv => DependenciesAreFlows
  BY <1>1
<1> QED
  BY <1>2, Initially, Step, LearntInitially, LearntStep, InfoInitially, InfoStep, PTL DEF Spec

=============================================================================
