----------------------------- MODULE FriesProofs -----------------------------
(***************************************************************************)
(* Proofs about Fries: what my_method delivers, for every crate and every  *)
(* max_num and max_len, whatever it draws.                                 *)
(*                                                                         *)
(* FInv ties the loops to the lists they fill: how long the sequence that  *)
(* is grown may be at each place of the loops, that everything finished    *)
(* has the length asked for, and that covered_function is what the         *)
(* sequences call.  Sound and Tracked, of SequenceRulesProofs, carry the   *)
(* ownership rules through the growth of every sequence.                   *)
(***************************************************************************)
EXTENDS Fries, SequenceRulesProofs, FiniteSetTheorems

-----------------------------------------------------------------------------
\* q lists the start functions among the first m functions, in order.
Lists(q, m) ==
  /\ q \in Seq(1..m)
  /\ \A f \in 1..m : IsStartFunction(api_functions[f]) => \E i \in DOMAIN q : q[i] = f
  /\ \A i \in DOMAIN q : IsStartFunction(api_functions[q[i]])
  /\ \A i, j \in DOMAIN q : i < j => q[i] < q[j]

\* One iteration of extract_start_function.
StartStep(q, f) == IF IsStartFunction(api_functions[f]) THEN Append(q, f) ELSE q

\* The loop of extract_start_function exists.
LEMMA StartFunctionsUnfold ==
  \E g : /\ g[0] = <<>>
         /\ \A f \in 1..Len(api_functions) : g[f] = StartStep(g[f - 1], f)
         /\ StartFunctions = g[Len(api_functions)]
<1> DEFINE size == Len(api_functions)
           IsLoop(g, m) ==
             g = [n \in 0..m |-> IF n = 0 THEN <<>>
                                 ELSE IF IsStartFunction(api_functions[n]) THEN Append(g[n - 1], n)
                                 ELSE g[n - 1]]
           IsStepLoop(g, m) ==
             g = [n \in 0..m |-> IF n = 0 THEN <<>> ELSE StartStep(g[n - 1], n)]
           T == {m \in Nat : \E g : IsStepLoop(g, m)}
<1>0. size \in Nat
  BY FunctionsAssumption
<1>1. StartFunctions = (CHOOSE g : IsLoop(g, size))[size]
  BY DEF StartFunctions
<1>2. 0 \in T
  <2> DEFINE g == [n \in 0..0 |-> <<>>]
  <2>1. g = [n \in 0..0 |-> IF n = 0 THEN <<>> ELSE StartStep(g[n - 1], n)]
    OBVIOUS
  <2>2. IsStepLoop(g, 0)
    BY <2>1
  <2> QED
    BY <2>2
<1>3. ASSUME NEW m \in T PROVE m + 1 \in T
  <2>1. PICK g : IsStepLoop(g, m)
    OBVIOUS
  <2>2. m \in Nat /\ g = [n \in 0..m |-> IF n = 0 THEN <<>> ELSE StartStep(g[n - 1], n)]
    BY <2>1
  <2> DEFINE h == [n \in 0..(m + 1) |-> IF n = m + 1 THEN StartStep(g[m], n) ELSE g[n]]
             k == [n \in 0..(m + 1) |-> IF n = 0 THEN <<>> ELSE StartStep(h[n - 1], n)]
  <2>3. ASSUME NEW n \in 0..(m + 1) PROVE h[n] = k[n]
    <3>1. CASE n = 0
      BY <2>2, <3>1
    <3>2. CASE n = m + 1
      <4>1. m \in 0..(m + 1) /\ m # m + 1 /\ n # 0 /\ n - 1 = m
        BY <2>2, <3>2
      <4>2. h[n] = StartStep(g[m], n) /\ h[m] = g[m]
        BY <3>2, <4>1
      <4> QED
        BY <4>1, <4>2
    <3>3. CASE n \in 1..m
      <4>1. n \in 0..m /\ n # 0 /\ n # m + 1 /\ n - 1 \in 0..(m + 1) /\ n - 1 # m + 1
        BY <2>2, <3>3
      <4>2. h[n] = g[n] /\ h[n - 1] = g[n - 1]
        BY <4>1
      <4>3. g[n] = StartStep(g[n - 1], n)
        BY <2>2, <4>1
      <4> QED
        BY <4>1, <4>2, <4>3
    <3> QED
      BY <2>2, <3>1, <3>2, <3>3
  <2>4. IsStepLoop(h, m + 1)
    BY <2>3
  <2>5. \E x : IsStepLoop(x, m + 1)
    <3> HIDE DEF h, IsStepLoop
    <3> QED
      BY <2>4
  <2> QED
    BY <2>2, <2>5
<1>4. T = Nat
  <2> HIDE DEF T
  <2>1. T \in SUBSET Nat
    BY DEF T
  <2> QED
    BY <1>2, <1>3, <2>1, Induction
<1>5. PICK x : IsStepLoop(x, size)
  BY <1>0, <1>4
<1>6. IsLoop(x, size)
  BY <1>5 DEF StartStep
<1> DEFINE g == CHOOSE y : IsLoop(y, size)
<1>7. IsLoop(g, size)
  <2> HIDE DEF IsLoop
  <2> QED
    BY <1>6
<1>8. StartFunctions = g[size]
  BY <1>1
<1> HIDE DEF g
<1>9. g[0] = <<>> /\ \A f \in 1..size : g[f] = StartStep(g[f - 1], f)
  <2>1. IsStepLoop(g, size)
    BY <1>7 DEF StartStep
  <2>2. ASSUME NEW n \in 0..size
        PROVE  g[n] = IF n = 0 THEN <<>> ELSE StartStep(g[n - 1], n)
    BY <2>1
  <2>3. 0 \in 0..size /\ \A f \in 1..size : f \in 0..size /\ f # 0
    BY <1>0
  <2> QED
    BY <2>2, <2>3
<1> WITNESS g
<1> QED
  BY <1>8, <1>9

\* One iteration of extract_start_function keeps the list complete.
LEMMA StartStepLists ==
  ASSUME NEW m \in Nat, NEW q, Lists(q, m)
  PROVE  Lists(StartStep(q, m + 1), m + 1)
<1> SUFFICES ASSUME NEW r, r = StartStep(q, m + 1) PROVE Lists(r, m + 1)
  OBVIOUS
<1>0. q \in Seq(1..m)
  BY DEF Lists
<1>1. q \in Seq(1..(m + 1))
  <2>1. \A i \in 1..Len(q) : q[i] \in 1..(m + 1)
    BY <1>0
  <2> QED
    BY <1>0, <2>1
<1>2. CASE IsStartFunction(api_functions[m + 1])
  <2>1. r = Append(q, m + 1)
    BY <1>2 DEF StartStep
  <2>2. r \in Seq(1..(m + 1)) /\ Len(r) = Len(q) + 1 /\ Len(q) \in Nat
    BY <1>1, <2>1
  <2>3. r[Len(q) + 1] = m + 1 /\ \A i \in 1..Len(q) : r[i] = q[i] /\ q[i] \in 1..m
    BY <1>0, <2>1
  <2>4. ASSUME NEW f \in 1..(m + 1), IsStartFunction(api_functions[f])
        PROVE  \E i \in DOMAIN r : r[i] = f
    <3>1. CASE f = m + 1
      BY <2>2, <2>3, <3>1
    <3>2. CASE f \in 1..m
      <4>1. PICK i \in DOMAIN q : q[i] = f
        BY <2>4, <3>2 DEF Lists
      <4> QED
        <5>1. i \in 1..Len(q) /\ i \in DOMAIN r
          BY <1>0, <2>2
        <5> QED
          BY <2>3, <4>1, <5>1
    <3> QED
      BY <3>1, <3>2
  <2>5. ASSUME NEW i \in DOMAIN r PROVE IsStartFunction(api_functions[r[i]])
    <3>1. i \in 1..Len(q) \/ i = Len(q) + 1
      BY <2>2
    <3> QED
      BY <1>0, <1>2, <2>3, <3>1 DEF Lists
  <2>6. ASSUME NEW i \in DOMAIN r, NEW j \in DOMAIN r, i < j PROVE r[i] < r[j]
    <3>1. i \in 1..Len(q) /\ (j \in 1..Len(q) \/ j = Len(q) + 1)
      BY <2>2, <2>6
    <3>2. CASE j \in 1..Len(q)
      <4>1. q[i] < q[j]
        BY <1>0, <2>6, <3>1, <3>2 DEF Lists
      <4> QED
        BY <2>3, <3>1, <3>2, <4>1
    <3>3. CASE j = Len(q) + 1
      BY <2>3, <3>1, <3>3
    <3> QED
      BY <3>1, <3>2, <3>3
  <2> QED
    BY <2>2, <2>4, <2>5, <2>6 DEF Lists
<1>3. CASE ~IsStartFunction(api_functions[m + 1])
  <2>1. r = q
    BY <1>3 DEF StartStep
  <2>2. \A f \in 1..(m + 1) : f \in 1..m \/ f = m + 1
    OBVIOUS
  <2>3. Lists(q, m + 1)
    BY <1>1, <1>3, <2>2 DEF Lists
  <2> QED
    BY <2>1, <2>3
<1> QED
  BY <1>2, <1>3

\* _start_functions lists the start functions of the graph, in their order.
LEMMA StartFunctionsComplete == Lists(StartFunctions, Len(api_functions))
<1> DEFINE size == Len(api_functions)
<1>0. size \in Nat
  BY FunctionsAssumption
<1>1. PICK g : /\ g[0] = <<>>
               /\ \A f \in 1..size : g[f] = StartStep(g[f - 1], f)
               /\ StartFunctions = g[size]
  BY StartFunctionsUnfold
<1> DEFINE T == {m \in Nat : m <= size => Lists(g[m], m)}
<1>2. 0 \in T
  <2>1. Lists(<<>>, 0)
    BY DEF Lists
  <2> QED
    BY <1>1, <2>1
<1>3. ASSUME NEW m \in T PROVE m + 1 \in T
  <2> SUFFICES ASSUME m + 1 <= size PROVE Lists(g[m + 1], m + 1)
    OBVIOUS
  <2>1. m \in Nat /\ m + 1 \in 1..size /\ (m + 1) - 1 = m /\ Lists(g[m], m)
    BY <1>0
  <2>2. g[m + 1] = StartStep(g[m], m + 1)
    BY <1>1, <2>1
  <2> QED
    BY <2>1, <2>2, StartStepLists
<1>4. T = Nat
  <2> HIDE DEF T
  <2>1. T \in SUBSET Nat
    BY DEF T
  <2> QED
    BY <1>2, <1>3, <2>1, Induction
<1> QED
  BY <1>0, <1>1, <1>4

-----------------------------------------------------------------------------
\* The length of a finished sequence: its first call is made without a look at
\* max_len.
Wanted == IF MaxLen = 0 THEN 1 ELSE MaxLen

\* A start function is due in a turn, and the turn is one of theirs.
TurnsInv ==
  /\ pc \in {"outer", "first", "inner", "done", "panicked"}
  /\ start_index_polling \in Nat
  /\ StartFunctions # <<>> => start_index_polling < Len(StartFunctions)
  /\ pc \in {"first", "inner"} => StartFunctions # <<>>

\* The sequence being grown, and how long it may be at each place.
CurrentInv ==
  /\ Sound(sequence) /\ Tracked(sequence)
  /\ pc = "first" => sequence = NewSequence
  /\ pc = "inner" => Len(sequence.functions) \in 1..Wanted

\* The finished ones.
FinishedInv ==
  /\ sequences \in Seq(Sequence)
  /\ Len(sequences) <= MaxNum
  /\ pc \in {"first", "inner"} => Len(sequences) < MaxNum
  /\ \A n \in 1..Len(sequences) :
       /\ Sound(sequences[n]) /\ Tracked(sequences[n])
       /\ Len(sequences[n].functions) = Wanted

\* The fields of the graph change at the end, and all at once.
DeliveredInv ==
  /\ pc # "done" => api_functions_visited = {} /\ api_sequences = <<>>
  /\ pc = "done" => /\ api_sequences = sequences
                    /\ Len(sequences) = MaxNum
                    /\ api_functions_visited = covered_function

CoveredInv ==
  covered_function = ContainedIn(sequences) \cup
    (IF pc = "inner" THEN Contained(sequence) ELSE {})

FInv == TurnsInv /\ CurrentInv /\ FinishedInv /\ DeliveredInv /\ CoveredInv

\* Start functions are functions.
LEMMA StartFunctionsType ==
  /\ StartFunctions \in Seq(Funs)
  /\ Len(StartFunctions) \in Nat
  /\ DOMAIN StartFunctions = 1..Len(StartFunctions)
  /\ \A n \in DOMAIN StartFunctions : StartFunctions[n] \in Funs
<1>1. StartFunctions \in Seq(Funs)
  BY StartFunctionsComplete, FunctionsAssumption DEF Lists
<1> QED
  BY <1>1

\* The functions drawn are functions of the graph.
LEMMA DrawsType ==
  /\ TurnsInv /\ pc = "first" => Polled \in Funs
  /\ \A f : SuccTable(f) \subseteq Funs
<1>1. ASSUME TurnsInv, pc = "first" PROVE Polled \in Funs
  <2>1. start_index_polling + 1 \in DOMAIN StartFunctions
    BY <1>1, StartFunctionsType DEF TurnsInv
  <2> QED
    BY <2>1, StartFunctionsType DEF Polled
<1>2. \A f : SuccTable(f) \subseteq Funs
  BY DependenciesAssumption DEF SuccTable
<1> QED
  BY <1>1, <1>2

\* The polling position stays one of the list.
LEMMA NextPollingType ==
  ASSUME TurnsInv
  PROVE  NextPolling \in Nat /\ (StartFunctions # <<>> => NextPolling < Len(StartFunctions))
<1>1. start_index_polling \in Nat /\ Len(StartFunctions) \in Nat
  BY StartFunctionsType DEF TurnsInv
<1>2. StartFunctions # <<>> => Len(StartFunctions) > 0
  BY StartFunctionsType
<1> QED
  BY <1>1, <1>2 DEF NextPolling

\* A call that is_fun_satisfied accepts adds its function to the sequence.
LEMMA GrowExtends ==
  ASSUME Sound(sequence), Tracked(sequence), NEW f \in Funs, Grow(f)
  PROVE  /\ Sound(sequence') /\ Tracked(sequence')
         /\ Extends(sequence, f, sequence')
         /\ Contained(sequence') = Contained(sequence) \cup {f}
<1>1. sequence' \in IsFunSatisfied(f, sequence)
  BY DEF Grow
<1>2. Sound(sequence') /\ Tracked(sequence') /\ Extends(sequence, f, sequence')
  BY <1>1, IsFunSatisfiedSound
<1> SUFFICES ASSUME NEW n, n = Len(sequence.functions)
             PROVE  Contained(sequence') = Contained(sequence) \cup {f}
  BY <1>2
<1>3. /\ n \in Nat /\ DOMAIN sequence.functions = 1..n
      /\ DOMAIN sequence'.functions = 1..(n + 1)
      /\ \A c \in 1..n : sequence'.functions[c] = sequence.functions[c]
      /\ sequence'.functions[n + 1].func = f
  BY <1>2 DEF Extends
<1>4. \A c \in 1..(n + 1) : c \in 1..n \/ c = n + 1
  BY <1>3
<1>5. 1..n \subseteq 1..(n + 1) /\ n + 1 \in 1..(n + 1)
  BY <1>3
<1>6. Contained(sequence') = {sequence'.functions[c].func : c \in 1..(n + 1)}
      /\ Contained(sequence) = {sequence.functions[c].func : c \in 1..n}
  BY <1>3 DEF Contained
<1>7. ASSUME NEW x \in Contained(sequence') PROVE x \in Contained(sequence) \cup {f}
  BY <1>3, <1>4, <1>6
<1>8. ASSUME NEW x \in Contained(sequence) PROVE x \in Contained(sequence')
  BY <1>3, <1>5, <1>6
<1>9. f \in Contained(sequence')
  BY <1>3, <1>5, <1>6
<1> QED
  BY <1>7, <1>8, <1>9

\* Nothing is finished, delivered or covered at the start.
LEMMA FInitially == Init => FInv
<1> SUFFICES ASSUME Init PROVE FInv
  OBVIOUS
<1>1. TurnsInv
  BY StartFunctionsType DEF Init, TurnsInv
<1>2. CurrentInv
  BY NewSequenceSound DEF Init, CurrentInv
<1>3. FinishedInv
  BY BoundsAssumption DEF Init, FinishedInv
<1>4. DeliveredInv
  BY DEF Init, DeliveredInv
<1>5. CoveredInv
  BY DEF Init, CoveredInv, ContainedIn
<1> QED
  BY <1>1, <1>2, <1>3, <1>4, <1>5 DEF FInv

\* A call appended by the inner loop keeps the invariant.
LEMMA InnerGrowKeeps ==
  ASSUME FInv, Growing, NEW f \in Funs, Grow(f), pc' = pc
  PROVE  FInv'
<1>1. /\ TurnsInv /\ CurrentInv /\ FinishedInv /\ DeliveredInv /\ CoveredInv
      /\ pc = "inner" /\ Len(sequence.functions) < MaxLen
  BY DEF FInv, Growing
<1>2. /\ Sound(sequence') /\ Tracked(sequence') /\ Extends(sequence, f, sequence')
      /\ Contained(sequence') = Contained(sequence) \cup {f}
  BY <1>1, GrowExtends DEF CurrentInv
<1>3. /\ sequences' = sequences /\ start_index_polling' = start_index_polling
      /\ api_sequences' = api_sequences /\ api_functions_visited' = api_functions_visited
      /\ covered_function' = covered_function \cup {f}
  BY DEF Grow
<1>4. Len(sequence'.functions) \in 1..Wanted
  <2>1. Len(sequence.functions) \in 1..Wanted
    BY <1>1 DEF CurrentInv
  <2>2. Len(sequence'.functions) = Len(sequence.functions) + 1
    BY <1>2 DEF Extends
  <2> QED
    BY <1>1, <2>1, <2>2, BoundsAssumption DEF Wanted
<1>5. TurnsInv'
  BY <1>1, <1>3 DEF TurnsInv
<1>6. CurrentInv'
  BY <1>1, <1>2, <1>4 DEF CurrentInv
<1>7. FinishedInv' /\ DeliveredInv'
  BY <1>1, <1>3 DEF FinishedInv, DeliveredInv
<1>8. CoveredInv'
  BY <1>1, <1>2, <1>3 DEF CoveredInv
<1> QED
  BY <1>5, <1>6, <1>7, <1>8 DEF FInv

\* Every step keeps the invariant.
LEMMA FInvariance == FInv /\ [Next]_vars => FInv'
<1> SUFFICES ASSUME FInv, [Next]_vars PROVE FInv'
  OBVIOUS
<1>0. TurnsInv /\ CurrentInv /\ FinishedInv /\ DeliveredInv /\ CoveredInv
  BY DEF FInv
<1>1. CASE NewTurn
  <2>1. /\ pc = "outer" /\ sequence' = NewSequence /\ start_index_polling' = NextPolling
        /\ sequences' = sequences /\ covered_function' = covered_function
        /\ api_sequences' = api_sequences
        /\ api_functions_visited' = api_functions_visited
        /\ pc' = IF StartFunctions = <<>> THEN "panicked" ELSE "first"
    BY <1>1 DEF NewTurn
  <2>2. TurnsInv'
    BY <1>0, <2>1, NextPollingType DEF TurnsInv
  <2>3. CurrentInv'
    BY <2>1, NewSequenceSound DEF CurrentInv
  <2>4. FinishedInv' /\ DeliveredInv'
    <3>1. Len(sequences) < MaxNum
      BY <1>1 DEF NewTurn
    <3> QED
      BY <1>0, <2>1, <3>1 DEF FinishedInv, DeliveredInv
  <2>5. CoveredInv'
    BY <1>0, <2>1 DEF CoveredInv
  <2> QED
    BY <2>2, <2>3, <2>4, <2>5 DEF FInv
<1>2. CASE FirstCall
  <2>1. PICK f \in {Polled} : Grow(f)
    BY <1>2 DEF FirstCall
  <2>2. f \in Funs /\ pc = "first" /\ pc' = "inner" /\ sequence = NewSequence
    BY <1>0, <1>2, <2>1, DrawsType DEF FirstCall, CurrentInv
  <2>3. /\ Sound(sequence') /\ Tracked(sequence') /\ Extends(sequence, f, sequence')
        /\ Contained(sequence') = Contained(sequence) \cup {f}
    BY <1>0, <2>1, <2>2, GrowExtends DEF CurrentInv
  <2>4. /\ sequences' = sequences /\ start_index_polling' = start_index_polling
        /\ api_sequences' = api_sequences
        /\ api_functions_visited' = api_functions_visited
        /\ covered_function' = covered_function \cup {f}
    BY <2>1 DEF Grow
  <2>5. Len(sequence.functions) = 0 /\ Contained(sequence) = {}
    BY <2>2 DEF NewSequence, Contained
  <2>6. Len(sequence'.functions) \in 1..Wanted
    <3>1. Len(sequence'.functions) = 1
      BY <2>3, <2>5 DEF Extends
    <3> QED
      BY <3>1, BoundsAssumption DEF Wanted
  <2>7. TurnsInv' /\ FinishedInv' /\ DeliveredInv'
    BY <1>0, <2>2, <2>4 DEF TurnsInv, FinishedInv, DeliveredInv
  <2>8. CurrentInv'
    BY <2>2, <2>3, <2>6 DEF CurrentInv
  <2>9. CoveredInv'
    BY <1>0, <2>2, <2>3, <2>4, <2>5 DEF CoveredInv
  <2> QED
    BY <2>7, <2>8, <2>9 DEF FInv
<1>3. CASE SkipTurn
  <2>1. /\ pc = "first" /\ pc' = "outer"
        /\ UNCHANGED <<sequences, sequence, need_new, start_index_polling,
                       covered_function, api_sequences, api_functions_visited>>
    BY <1>3 DEF SkipTurn
  <2> QED
    BY <1>0, <2>1 DEF FInv, TurnsInv, CurrentInv, FinishedInv, DeliveredInv, CoveredInv
<1>4. CASE AddStart
  <2>1. PICK n \in DOMAIN StartFunctions : Grow(StartFunctions[n])
    BY <1>4 DEF AddStart
  <2>2. StartFunctions[n] \in Funs /\ Growing /\ pc' = pc
    BY <1>4, StartFunctionsType DEF AddStart
  <2> QED
    BY <2>1, <2>2, InnerGrowKeeps
<1>5. CASE AddSuccessor
  <2>1. PICK producer : \E f \in SuccTable(producer) : Grow(f)
    BY <1>5 DEF AddSuccessor
  <2>2. PICK f \in SuccTable(producer) : Grow(f)
    BY <2>1
  <2>3. f \in Funs /\ Growing /\ pc' = pc
    BY <1>5, DrawsType DEF AddSuccessor
  <2> QED
    BY <2>2, <2>3, InnerGrowKeeps
<1>6. CASE NothingAvailable
  <2>1. UNCHANGED <<pc, sequences, sequence, start_index_polling,
                    covered_function, api_sequences, api_functions_visited>>
    BY <1>6 DEF NothingAvailable
  <2> QED
    BY <1>0, <2>1 DEF FInv, TurnsInv, CurrentInv, FinishedInv, DeliveredInv, CoveredInv
<1>7. CASE FinishSequence
  <2>1. /\ pc = "inner" /\ pc' = "outer" /\ Len(sequence.functions) >= MaxLen
        /\ sequences' = Append(sequences, sequence)
        /\ UNCHANGED <<sequence, start_index_polling, covered_function,
                       api_sequences, api_functions_visited>>
    BY <1>7 DEF FinishSequence
  <2>2. Len(sequence.functions) = Wanted /\ sequence \in Sequence
    BY <1>0, <2>1, BoundsAssumption DEF CurrentInv, Wanted, Sound
  <2>3. /\ sequences \in Seq(Sequence) /\ sequences' \in Seq(Sequence)
        /\ Len(sequences) \in Nat /\ Len(sequences') = Len(sequences) + 1
        /\ sequences'[Len(sequences) + 1] = sequence
        /\ \A n \in 1..Len(sequences) : sequences'[n] = sequences[n]
    BY <1>0, <2>1, <2>2 DEF FinishedInv
  <2>4. \A n \in 1..Len(sequences') : n \in 1..Len(sequences) \/ n = Len(sequences) + 1
    BY <2>3
  <2>5. Len(sequences) < MaxNum
    BY <1>0, <2>1 DEF FinishedInv
  <2>6. ASSUME NEW n \in 1..Len(sequences')
        PROVE  /\ Sound(sequences'[n]) /\ Tracked(sequences'[n])
               /\ Len(sequences'[n].functions) = Wanted
    BY <1>0, <2>2, <2>3, <2>4 DEF FinishedInv, CurrentInv
  <2>7. FinishedInv'
    <3>1. Len(sequences') <= MaxNum
      BY <2>3, <2>5, BoundsAssumption
    <3>2. Wanted' = Wanted
      BY DEF Wanted
    <3> QED
      BY <2>1, <2>3, <2>6, <3>1, <3>2 DEF FinishedInv
  <2>8. TurnsInv' /\ CurrentInv' /\ DeliveredInv'
    BY <1>0, <2>1 DEF TurnsInv, CurrentInv, DeliveredInv
  <2>9. ContainedIn(sequences') = ContainedIn(sequences) \cup Contained(sequence)
    <3>1. DOMAIN sequences = 1..Len(sequences) /\ DOMAIN sequences' = 1..Len(sequences')
      BY <2>3
    <3>2. \A x : x \in ContainedIn(sequences') <=>
            \E n \in 1..Len(sequences') : x \in Contained(sequences'[n])
      BY <3>1 DEF ContainedIn
    <3>3. \A x : x \in ContainedIn(sequences) <=>
            \E n \in 1..Len(sequences) : x \in Contained(sequences[n])
      BY <3>1 DEF ContainedIn
    <3>4. /\ \A n \in 1..Len(sequences) : n \in 1..Len(sequences')
          /\ Len(sequences) + 1 \in 1..Len(sequences')
      BY <2>3
    <3>5. ASSUME NEW x PROVE x \in ContainedIn(sequences') <=>
                               x \in ContainedIn(sequences) \/ x \in Contained(sequence)
      BY <2>3, <2>4, <3>2, <3>3, <3>4
    <3> QED
      BY <3>5
  <2>10. CoveredInv'
    BY <1>0, <2>1, <2>9 DEF CoveredInv
  <2> QED
    BY <2>7, <2>8, <2>10 DEF FInv
<1>8. CASE Finish
  <2>1. /\ pc = "outer" /\ pc' = "done" /\ Len(sequences) >= MaxNum
        /\ api_sequences' = sequences
        /\ api_functions_visited' = api_functions_visited \cup covered_function
        /\ UNCHANGED <<sequences, sequence, start_index_polling, covered_function>>
    BY <1>8 DEF Finish
  <2>2. Len(sequences) = MaxNum /\ api_functions_visited' = covered_function
    BY <1>0, <2>1, BoundsAssumption DEF FinishedInv, DeliveredInv
  <2> QED
    BY <1>0, <2>1, <2>2
       DEF FInv, TurnsInv, CurrentInv, FinishedInv, DeliveredInv, CoveredInv
<1>9. CASE Terminating \/ UNCHANGED vars
  <2>1. UNCHANGED vars
    BY <1>9 DEF Terminating
  <2> QED
    BY <1>0, <2>1
       DEF FInv, TurnsInv, CurrentInv, FinishedInv, DeliveredInv, CoveredInv, vars
<1> QED
  BY <1>1, <1>2, <1>3, <1>4, <1>5, <1>6, <1>7, <1>8, <1>9 DEF Next

-----------------------------------------------------------------------------
\* For every crate, max_num and max_len: when my_method is done it delivers
\* max_num sequences of max_len calls, whatever draws failed.
THEOREM DeliversWhatIsAsked == Spec => []DeliversRequestedSequences
<1>1. FInv => DeliversRequestedSequences
  <2> SUFFICES ASSUME FInv, pc = "done"
               PROVE  /\ Len(api_sequences) = MaxNum
                      /\ \A n \in DOMAIN api_sequences :
                           Len(api_sequences[n].functions) = Wanted
    BY DEF DeliversRequestedSequences, Wanted
  <2>1. /\ api_sequences = sequences /\ Len(sequences) = MaxNum
        /\ DOMAIN sequences = 1..Len(sequences)
        /\ \A n \in 1..Len(sequences) : Len(sequences[n].functions) = Wanted
    BY DEF FInv, DeliveredInv, FinishedInv
  <2> QED
    BY <2>1
<1> QED
  BY <1>1, FInitially, FInvariance, PTL DEF Spec

\* For every crate, max_num and max_len: the functions my_method reports as
\* covered are those that its sequences call, at every moment and in the end.
THEOREM CoverageAlwaysReal == Spec => []CoverageIsReal
<1>1. FInv => CoverageIsReal
  BY DEF FInv, DeliveredInv, CoveredInv, CoverageIsReal
<1> QED
  BY <1>1, FInitially, FInvariance, PTL DEF Spec

\* Every sequence that my_method has finished, and so every sequence it hands to
\* the writer of the tests, keeps the rules that is_fun_satisfied enforces.
FinishedObeyRules ==
  \A n \in DOMAIN sequences :
    /\ NoUseAfterMoveIn(sequences[n])
    /\ ExclusiveMutBorrowIn(sequences[n])
    /\ BorrowEndsWithOwnerIn(sequences[n])
    /\ FuzzablesUsedOnceIn(sequences[n])

\* For every crate, max_num and max_len: the sequences my_method finishes keep
\* the ownership rules and use every variable once, through all turns.
THEOREM DeliveredObeyRules ==
  Spec => [](FinishedObeyRules /\ (pc = "done" => api_sequences = sequences))
<1>1. FInv => FinishedObeyRules /\ (pc = "done" => api_sequences = sequences)
  <2> SUFFICES ASSUME FInv, NEW n \in DOMAIN sequences
               PROVE  /\ NoUseAfterMoveIn(sequences[n])
                      /\ ExclusiveMutBorrowIn(sequences[n])
                      /\ BorrowEndsWithOwnerIn(sequences[n])
                      /\ FuzzablesUsedOnceIn(sequences[n])
    BY DEF FinishedObeyRules, FInv, DeliveredInv
  <2>1. Sound(sequences[n]) /\ Tracked(sequences[n])
    BY DEF FInv, FinishedInv
  <2> QED
    BY <2>1, TrackedBorrowsEnd DEF Sound
<1> QED
  BY <1>1, FInitially, FInvariance, PTL DEF Spec

-----------------------------------------------------------------------------
\* Every step of my_method is a step of Ownership or changes nothing of what
\* Ownership sees: a turn begins a new program, a draw that is accepted makes
\* one call.
LEMMA FriesStepRefines ==
  ASSUME FInv, [Next]_vars
  PROVE  [Rust!Next]_<<Len(sequence.functions), sequence.moved, UsedByLast(sequence)>>
<1>0. TurnsInv /\ Sound(sequence) /\ Tracked(sequence)
  BY DEF FInv, CurrentInv
<1>1. CASE NewTurn
  <2>1. Len(sequence'.functions) = 0 /\ sequence'.moved = {}
    BY <1>1 DEF NewTurn, NewSequence
  <2>2. UsedByLast(sequence') = {}
    BY <2>1 DEF UsedByLast
  <2> QED
    BY <2>1, <2>2 DEF Rust!Next, Rust!Fresh
<1>2. CASE FirstCall \/ AddStart \/ AddSuccessor
  <2>1. PICK f \in Funs : Grow(f)
    <3>1. CASE FirstCall
      BY <1>0, <3>1, DrawsType DEF FirstCall
    <3>2. CASE AddStart
      BY <3>2, StartFunctionsType DEF AddStart
    <3>3. CASE AddSuccessor
      BY <3>3, DrawsType DEF AddSuccessor
    <3> QED
      BY <1>2, <3>1, <3>2, <3>3
  <2>2. Extends(sequence, f, sequence')
    BY <1>0, <2>1, GrowExtends
  <2> QED
    BY <2>2 DEF Extends, Rust!Next, Rust!Call
<1>3. CASE SkipTurn \/ NothingAvailable \/ FinishSequence \/ Finish \/ Terminating
           \/ UNCHANGED vars
  BY <1>3 DEF SkipTurn, NothingAvailable, FinishSequence, Finish, Terminating, vars
<1> QED
  BY <1>1, <1>2, <1>3 DEF Next

\* For every crate, max_num and max_len: the sequences my_method grows are
\* programs of the abstract ownership discipline.
THEOREM FriesRefinesOwnership == Spec => ImplementsOwnership
<1>1. Init => Rust!Init
  BY DEF Init, NewSequence, UsedByLast, Rust!Init
<1> QED
  BY <1>1, FInitially, FInvariance, FriesStepRefines, PTL
     DEF Spec, ImplementsOwnership, Rust!Spec

-----------------------------------------------------------------------------
(***************************************************************************)
(* Polling, told of the list q of the functions that the sequences so far  *)
(* have begun with and of the polling position b, whose function is still  *)
(* due or has been dealt with.  Since sequence n began with the function   *)
(* at position a, the functions at the positions from a to b, counted      *)
(* around the list, have been polled, and those of them that can begin a   *)
(* sequence have begun one.                                                *)
(***************************************************************************)
Positions == 0..(Len(StartFunctions) - 1)

\* Function g began a sequence after sequence n and not after sequence m.
HadTurn(q, g, n, m) == \E k \in (n + 1)..m : q[k] = g

\* Position x is polled after position a and before position b.
Between(a, x, b) == IF a < b THEN a < x /\ x < b ELSE a < x \/ x < b

\* Position x has been dealt with since position a was.
DealtWith(a, x, b, due) ==
  IF due THEN Between(a, x, b) ELSE a # b /\ (Between(a, x, b) \/ x = b)

BegunStartable(q) ==
  /\ q \in Seq(Startable)
  /\ \A n \in 1..Len(q) : \E a \in Positions : StartFunctions[a + 1] = q[n]

\* Whoever is dealt with and can begin a sequence has begun one.
PolledBegan(q, b, due) ==
  \A n \in 1..Len(q) : \A a, x \in Positions :
    /\ StartFunctions[a + 1] = q[n]
    /\ DealtWith(a, x, b, due)
    /\ StartFunctions[x + 1] \in Startable
    => HadTurn(q, StartFunctions[x + 1], n, Len(q))

\* Between two sequences of one function all others begin one.
OthersBetween(q) ==
  \A n \in 1..Len(q) : \A m \in (n + 1)..Len(q) :
    q[n] = q[m] => \A g \in Startable \ {q[n]} : HadTurn(q, g, n, m - 1)

Polling(q, b, due) == BegunStartable(q) /\ PolledBegan(q, b, due) /\ OthersBetween(q)

\* A new turn: the next position is due, and all before it are dealt with.
LEMMA TurnKeepsPolling ==
  ASSUME NEW q, NEW b \in Positions, Polling(q, b, FALSE), NEW c,
         c = IF b + 1 >= Len(StartFunctions) THEN 0 ELSE b + 1
  PROVE  Polling(q, c, TRUE)
<1>0. Len(StartFunctions) \in Nat
  BY StartFunctionsType
<1> SUFFICES ASSUME NEW n \in 1..Len(q), NEW a \in Positions, NEW x \in Positions,
                    StartFunctions[a + 1] = q[n], Between(a, x, c),
                    StartFunctions[x + 1] \in Startable
             PROVE  HadTurn(q, StartFunctions[x + 1], n, Len(q))
  BY DEF Polling, PolledBegan, DealtWith
<1>1. DealtWith(a, x, b, FALSE)
  BY <1>0 DEF DealtWith, Between, Positions
<1> QED
  BY <1>1 DEF Polling, PolledBegan

\* The function that is due cannot begin a sequence: it is passed over.
LEMMA SkipKeepsPolling ==
  ASSUME NEW q, NEW b \in Positions, Polling(q, b, TRUE),
         StartFunctions[b + 1] \notin Startable
  PROVE  Polling(q, b, FALSE)
<1> SUFFICES ASSUME NEW n \in 1..Len(q), NEW a \in Positions, NEW x \in Positions,
                    StartFunctions[a + 1] = q[n], DealtWith(a, x, b, FALSE),
                    StartFunctions[x + 1] \in Startable
             PROVE  HadTurn(q, StartFunctions[x + 1], n, Len(q))
  BY DEF Polling, PolledBegan
<1>1. DealtWith(a, x, b, TRUE)
  BY DEF DealtWith
<1> QED
  BY <1>1 DEF Polling, PolledBegan

\* The function that is due begins a sequence: if it began one before, all
\* others have had their turn in between.
LEMMA CallKeepsPolling ==
  ASSUME NEW q, NEW b \in Positions, Polling(q, b, TRUE),
         NEW f \in Startable, f = StartFunctions[b + 1],
         NEW size \in Nat, size = Len(q), NEW r \in Seq(Startable), Len(r) = size + 1,
         r[size + 1] = f, \A n \in 1..size : r[n] = q[n]
  PROVE  Polling(r, b, FALSE)
<1>0. q \in Seq(Startable) /\ Len(StartFunctions) \in Nat
  BY StartFunctionsType DEF Polling, BegunStartable
<1>1. /\ Len(r) = size + 1
      /\ r[size + 1] = f /\ \A n \in 1..size : r[n] = q[n]
  OBVIOUS
<1>2. \A n \in 1..(size + 1) : n \in 1..size \/ n = size + 1
  OBVIOUS
<1>3. BegunStartable(r)
  BY <1>1, <1>2 DEF Polling, BegunStartable
<1>4. ASSUME NEW n \in 1..size, NEW m \in 0..size, NEW g, HadTurn(q, g, n, m)
      PROVE  HadTurn(r, g, n, m)
  <2>1. PICK k \in (n + 1)..m : q[k] = g
    BY <1>4 DEF HadTurn
  <2> QED
    BY <1>1, <2>1 DEF HadTurn
<1>5. ASSUME NEW n \in 1..size, NEW g, HadTurn(r, g, n, size) \/ g = f
      PROVE  HadTurn(r, g, n, size + 1)
  BY <1>1, <1>5 DEF HadTurn
<1>6. ASSUME NEW n \in 1..(size + 1), NEW a \in Positions, NEW x \in Positions,
             StartFunctions[a + 1] = r[n], DealtWith(a, x, b, FALSE),
             StartFunctions[x + 1] \in Startable
      PROVE  HadTurn(r, StartFunctions[x + 1], n, size + 1)
  <2>1. CASE n \in 1..size
    <3>1. CASE x = b
      BY <1>5, <2>1, <3>1
    <3>2. CASE x # b
      <4>1. DealtWith(a, x, b, TRUE) /\ StartFunctions[a + 1] = q[n]
        BY <1>1, <1>6, <2>1, <3>2 DEF DealtWith
      <4>2. HadTurn(q, StartFunctions[x + 1], n, size)
        BY <1>6, <2>1, <4>1 DEF Polling, PolledBegan
      <4>3. HadTurn(r, StartFunctions[x + 1], n, size)
        BY <1>4, <2>1, <4>2
      <4> QED
        BY <1>5, <2>1, <4>3
    <3> QED
      BY <3>1, <3>2
  <2>2. CASE n = size + 1
    <3>1. a + 1 \in DOMAIN StartFunctions /\ b + 1 \in DOMAIN StartFunctions
          /\ StartFunctions[a + 1] = StartFunctions[b + 1] /\ a \in Nat /\ b \in Nat
      BY <1>0, <1>1, <1>6, <2>2, StartFunctionsType DEF Positions
    <3>2. \A i, j \in DOMAIN StartFunctions : i < j => StartFunctions[i] < StartFunctions[j]
      BY StartFunctionsComplete DEF Lists
    <3>3. StartFunctions[a + 1] \in Nat
      BY <3>1, StartFunctionsType, FunctionsAssumption
    <3>4. ~(a + 1 < b + 1) /\ ~(b + 1 < a + 1)
      BY <3>1, <3>2, <3>3
    <3>5. a = b
      BY <3>1, <3>4
    <3> QED
      BY <1>6, <3>5 DEF DealtWith
  <2> QED
    BY <1>2, <2>1, <2>2
<1>7. PolledBegan(r, b, FALSE)
  BY <1>1, <1>6 DEF PolledBegan
<1>8. ASSUME NEW n \in 1..(size + 1), NEW m \in (n + 1)..(size + 1), r[n] = r[m],
             NEW g \in Startable, g # r[n]
      PROVE  HadTurn(r, g, n, m - 1)
  <2>1. n \in 1..size /\ r[n] = q[n] /\ m - 1 \in 0..size
    BY <1>1
  <2>2. HadTurn(q, g, n, m - 1)
    <3>1. CASE m \in (n + 1)..size
      <4>1. q[m] = q[n]
        <5>1. m \in 1..size /\ r[m] = r[n]
          BY <1>8, <3>1
        <5> QED
          BY <1>1, <2>1, <5>1, Zenon
      <4> QED
        BY <1>8, <2>1, <3>1, <4>1 DEF Polling, OthersBetween
    <3>2. CASE m = size + 1
      <4>1. q[n] = f /\ g # f /\ m - 1 = size
        <5>1. r[n] = f /\ g # r[n]
          BY <1>1, <1>8, <3>2, Zenon
        <5> QED
          BY <2>1, <3>2, <5>1
      <4>2. PICK x \in Positions : StartFunctions[x + 1] = g
        <5>1. g \in 1..Len(api_functions) /\ IsStartFunction(api_functions[g])
          BY FunctionsAssumption DEF Startable
        <5>2. PICK i \in DOMAIN StartFunctions : StartFunctions[i] = g
          BY <5>1, StartFunctionsComplete DEF Lists
        <5>3. i - 1 \in Positions /\ (i - 1) + 1 = i
          BY <1>0, StartFunctionsType DEF Positions
        <5> QED
          BY <5>2, <5>3
      <4>3. x # b
        BY <4>1, <4>2
      <4>4. DealtWith(b, x, b, TRUE)
        BY <1>0, <4>3 DEF DealtWith, Between, Positions
      <4> QED
        BY <2>1, <4>1, <4>2, <4>4 DEF Polling, PolledBegan
    <3> QED
      BY <3>1, <3>2
  <2> QED
    BY <1>4, <2>1, <2>2
<1>9. OthersBetween(r)
  BY <1>1, <1>8 DEF OthersBetween
<1> QED
  BY <1>3, <1>7, <1>9 DEF Polling

\* Two sequences of one function are as far apart as there are functions that
\* can begin one.
LEMMA OthersTakeSpace ==
  ASSUME NEW q, NEW b, NEW due, Polling(q, b, due),
         NEW n \in 1..Len(q), NEW m \in (n + 1)..Len(q), q[n] = q[m]
  PROVE  ~(m - n < Cardinality(Startable))
<1> DEFINE between == (n + 1)..(m - 1)
           others == {q[k] : k \in between}
           f == [k \in between |-> q[k]]
<1>0. q \in Seq(Startable) /\ n \in Nat /\ m \in Nat /\ n < m
  BY DEF Polling, BegunStartable
<1>1. IsFiniteSet(between) /\ Cardinality(between) = m - n - 1
  <2>0. n + 1 \in Int /\ m - 1 \in Int
    BY <1>0
  <2>1. /\ IsFiniteSet(between)
        /\ Cardinality(between) = IF n + 1 > m - 1 THEN 0 ELSE (m - 1) - (n + 1) + 1
    BY <2>0, FS_Interval
  <2> QED
    BY <1>0, <2>1
<1> HIDE DEF between
<1>2. f \in Surjection(between, others)
  BY DEF Surjection
<1> HIDE DEF f
<1>3. IsFiniteSet(others) /\ Cardinality(others) <= Cardinality(between)
  BY <1>1, <1>2, FS_Surjection
<1>4. Startable \ {q[n]} \subseteq others
  <2> SUFFICES ASSUME NEW g \in Startable \ {q[n]} PROVE g \in others
    OBVIOUS
  <2>1. HadTurn(q, g, n, m - 1)
    BY DEF Polling, OthersBetween
  <2> QED
    BY <2>1 DEF HadTurn, between
<1> HIDE DEF others
<1>5. IsFiniteSet(Startable)
  <2>1. IsFiniteSet(Funs)
    BY FunctionsAssumption, FS_Interval
  <2> QED
    BY <2>1, FS_Subset DEF Startable
<1>6. q[n] \in Startable
  BY <1>0
<1>7. Cardinality(Startable \ {q[n]}) = Cardinality(Startable) - 1
  BY <1>5, <1>6, FS_RemoveElement
<1>8. Cardinality(Startable \ {q[n]}) <= Cardinality(others)
  BY <1>3, <1>4, FS_Subset
<1>9. Cardinality(others) \in Nat /\ Cardinality(Startable) \in Nat
  BY <1>3, <1>5, FS_CardinalityType
<1> QED
  BY <1>0, <1>1, <1>3, <1>7, <1>8, <1>9

-----------------------------------------------------------------------------
\* The functions that the finished sequences and the one being grown begin
\* with.
BegunCount == IF pc = "inner" THEN Len(sequences) + 1 ELSE Len(sequences)

Begins ==
  [n \in 1..BegunCount |->
     IF n \in 1..Len(sequences) THEN sequences[n].functions[1].func
     ELSE sequence.functions[1].func]

PollInv ==
  IF pc = "first" THEN Polling(Begins, start_index_polling, TRUE)
  ELSE Polling(Begins, start_index_polling, FALSE)

\* No sequence has begun at the start.
LEMMA PollInitially == Init => PollInv
<1> SUFFICES ASSUME Init PROVE Polling(Begins, start_index_polling, FALSE)
  BY DEF Init, PollInv
<1>1. BegunCount = 0
  BY DEF Init, BegunCount
<1>2. Begins = <<>>
  BY <1>1 DEF Begins
<1>3. BegunStartable(<<>>) /\ OthersBetween(<<>>)
  BY DEF BegunStartable, OthersBetween
<1>4. PolledBegan(<<>>, start_index_polling, FALSE)
  BY DEF PolledBegan
<1> QED
  BY <1>2, <1>3, <1>4 DEF Polling

\* A step of the inner loop does not change what has begun.
LEMMA InnerKeepsBegins ==
  ASSUME FInv, pc = "inner", pc' = "inner", sequences' = sequences,
         NEW f, Extends(sequence, f, sequence')
  PROVE  Begins' = Begins
<1>1. sequence'.functions[1] = sequence.functions[1]
  BY DEF Extends, FInv, CurrentInv
<1> QED
  BY <1>1 DEF Begins, BegunCount

\* Every step keeps the order of the turns.
LEMMA PollInvariance == FInv /\ PollInv /\ [Next]_vars => PollInv'
<1> SUFFICES ASSUME FInv, PollInv, [Next]_vars PROVE PollInv'
  OBVIOUS
<1>0. TurnsInv /\ CurrentInv /\ FinishedInv
  BY DEF FInv
<1>1. Len(sequences) \in Nat /\ BegunCount \in Nat
  BY <1>0 DEF FinishedInv, BegunCount
<1>2. CASE NewTurn
  <2>1. /\ pc = "outer" /\ start_index_polling' = NextPolling
        /\ sequences' = sequences
        /\ pc' = IF StartFunctions = <<>> THEN "panicked" ELSE "first"
    BY <1>2 DEF NewTurn
  <2>2. Begins' = Begins
    BY <2>1 DEF Begins, BegunCount
  <2>3. Polling(Begins, start_index_polling, FALSE)
    BY <2>1 DEF PollInv
  <2>4. CASE StartFunctions = <<>>
    <3>1. Positions = {}
      BY <2>4 DEF Positions
    <3>2. Polling(Begins, start_index_polling', FALSE)
      BY <2>3, <3>1 DEF Polling, PolledBegan
    <3> QED
      BY <2>1, <2>2, <2>4, <3>2 DEF PollInv
  <2>5. CASE StartFunctions # <<>>
    <3>1. start_index_polling \in Positions
      BY <1>0, <2>5, StartFunctionsType DEF TurnsInv, Positions
    <3>2. Polling(Begins, NextPolling, TRUE)
      BY <2>3, <3>1, TurnKeepsPolling DEF NextPolling
    <3> QED
      BY <2>1, <2>2, <2>5, <3>2 DEF PollInv
  <2> QED
    BY <2>4, <2>5
<1>3. CASE FirstCall
  <2> DEFINE f == Polled
             size == Len(sequences)
  <2>1. /\ pc = "first" /\ pc' = "inner" /\ Grow(f) /\ sequences' = sequences
        /\ start_index_polling' = start_index_polling /\ sequence = NewSequence
    BY <1>0, <1>3 DEF FirstCall, Grow, CurrentInv
  <2>2. f \in Funs /\ Extends(sequence, f, sequence')
    BY <1>0, <2>1, DrawsType, GrowExtends DEF CurrentInv
  <2>3. start_index_polling \in Positions
    BY <1>0, <2>1, StartFunctionsType DEF TurnsInv, Positions
  <2>4. f = StartFunctions[start_index_polling + 1] /\ IsStartFunction(api_functions[f])
    <3>1. start_index_polling + 1 \in DOMAIN StartFunctions
      BY <2>3, StartFunctionsType DEF Positions
    <3> QED
      BY <3>1, StartFunctionsComplete DEF Lists, Polled
  <2>5. f \in Startable
    BY <2>1, <2>2, <2>4 DEF Grow, Startable
  <2>6. sequence'.functions[1].func = f
    BY <2>1, <2>2 DEF Extends, NewSequence
  <2> HIDE DEF f
  <2>7. Polling(Begins, start_index_polling, TRUE) /\ Begins \in Seq(Startable)
    BY <2>1 DEF PollInv, Polling, BegunStartable
  <2>8. BegunCount = size /\ BegunCount' = size + 1 /\ size \in Nat
    BY <1>1, <2>1 DEF BegunCount
  <2>9. Len(Begins) = size
    BY <2>7, <2>8 DEF Begins
  <2>10. /\ Begins'[size + 1] = f
         /\ \A n \in 1..size : Begins'[n] = Begins[n]
         /\ DOMAIN Begins' = 1..(size + 1)
    BY <2>1, <2>6, <2>8 DEF Begins
  <2>11. Begins' \in Seq(Startable) /\ Len(Begins') = size + 1
    <3>1. ASSUME NEW n \in 1..(size + 1) PROVE Begins'[n] \in Startable
      <4>1. CASE n \in 1..size
        BY <2>7, <2>9, <2>10, <4>1
      <4>2. CASE n = size + 1
        BY <2>5, <2>10, <4>2
      <4> QED
        BY <2>8, <4>1, <4>2
    <3>2. Begins' = [n \in 1..(size + 1) |-> Begins'[n]]
      BY <2>8, <2>10 DEF Begins
    <3> QED
      BY <2>8, <3>1, <3>2
  <2>12. Polling(Begins', start_index_polling, FALSE)
    <3> DEFINE q == Begins
               r == Begins'
    <3>1. /\ Polling(q, start_index_polling, TRUE) /\ size \in Nat /\ size = Len(q)
          /\ r \in Seq(Startable) /\ Len(r) = size + 1
          /\ r[size + 1] = f /\ \A n \in 1..size : r[n] = q[n]
      BY <2>7, <2>8, <2>9, <2>10, <2>11
    <3> HIDE DEF q, r, size
    <3>2. Polling(r, start_index_polling, FALSE)
      BY <2>3, <2>4, <2>5, <3>1, CallKeepsPolling
    <3> QED
      BY <3>2 DEF r
  <2> QED
    BY <2>1, <2>12 DEF PollInv
<1>4. CASE SkipTurn
  <2>1. /\ pc = "first" /\ pc' = "outer" /\ sequences' = sequences
        /\ start_index_polling' = start_index_polling
        /\ IsFunSatisfied(Polled, sequence) = {} /\ sequence = NewSequence
    BY <1>0, <1>4 DEF SkipTurn, CurrentInv
  <2>2. Begins' = Begins
    BY <2>1 DEF Begins, BegunCount
  <2>3. start_index_polling \in Positions
    BY <1>0, <2>1, StartFunctionsType DEF TurnsInv, Positions
  <2>4. StartFunctions[start_index_polling + 1] \notin Startable
    BY <2>1 DEF Startable, Polled
  <2>5. Polling(Begins, start_index_polling, TRUE)
    BY <2>1 DEF PollInv
  <2>6. Polling(Begins, start_index_polling, FALSE)
    BY <2>3, <2>4, <2>5, SkipKeepsPolling
  <2> QED
    BY <2>1, <2>2, <2>6 DEF PollInv
<1>5. CASE AddStart \/ AddSuccessor
  <2>1. PICK f \in Funs : Grow(f)
    <3>1. CASE AddStart
      BY <3>1, StartFunctionsType DEF AddStart
    <3>2. CASE AddSuccessor
      BY <3>2, DrawsType DEF AddSuccessor
    <3> QED
      BY <1>5, <3>1, <3>2
  <2>2. pc = "inner" /\ pc' = "inner" /\ sequences' = sequences
        /\ start_index_polling' = start_index_polling
    BY <1>5, <2>1 DEF AddStart, AddSuccessor, Growing, Grow
  <2>3. Begins' = Begins
    BY <1>0, <2>1, <2>2, GrowExtends, InnerKeepsBegins DEF CurrentInv
  <2> QED
    BY <2>2, <2>3 DEF PollInv
<1>6. CASE FinishSequence
  <2>1. /\ pc = "inner" /\ pc' = "outer" /\ sequences' = Append(sequences, sequence)
        /\ start_index_polling' = start_index_polling
    BY <1>6 DEF FinishSequence
  <2>2. /\ Len(sequences') = Len(sequences) + 1
        /\ sequences'[Len(sequences) + 1] = sequence
        /\ \A n \in 1..Len(sequences) : sequences'[n] = sequences[n]
    BY <1>0, <2>1 DEF FinishedInv
  <2>3. BegunCount' = BegunCount /\ BegunCount = Len(sequences) + 1
    BY <2>1, <2>2 DEF BegunCount
  <2>4. ASSUME NEW n \in 1..BegunCount
        PROVE  (IF n \in 1..Len(sequences) THEN sequences[n].functions[1].func
                ELSE sequence.functions[1].func) =
               (IF n \in 1..Len(sequences') THEN sequences'[n].functions[1].func
                ELSE sequence'.functions[1].func)
    <3>1. n \in 1..Len(sequences')
      BY <2>2, <2>3
    <3>2. n \in 1..Len(sequences) \/ (n = Len(sequences) + 1 /\ n \notin 1..Len(sequences))
      BY <1>1, <2>3
    <3> QED
      BY <2>2, <3>1, <3>2
  <2>5. Begins' = Begins
    BY <2>3, <2>4 DEF Begins
  <2> QED
    BY <2>1, <2>5 DEF PollInv
<1>7. CASE NothingAvailable \/ Finish \/ Terminating \/ UNCHANGED vars
  <2>1. /\ sequences' = sequences /\ sequence' = sequence
        /\ start_index_polling' = start_index_polling
        /\ pc' = pc \/ (pc = "outer" /\ pc' = "done")
    BY <1>7 DEF NothingAvailable, Finish, Terminating, vars
  <2>2. Begins' = Begins
    BY <2>1 DEF Begins, BegunCount
  <2> QED
    BY <2>1, <2>2 DEF PollInv
<1> QED
  BY <1>2, <1>3, <1>4, <1>5, <1>6, <1>7 DEF Next

\* For every crate, max_num and max_len: no start function begins a second
\* sequence before every other one that can begin one has had its turn.
THEOREM TurnsAreTaken == Spec => []StartsTakeTurns
<1>1. FInv /\ PollInv => StartsTakeTurns
  <2> SUFFICES ASSUME FInv, PollInv, NEW n \in DOMAIN sequences,
                      NEW m \in (n + 1)..Len(sequences),
                      sequences[n].functions[1].func = sequences[m].functions[1].func
               PROVE  ~(m - n < Cardinality(Startable))
    BY DEF StartsTakeTurns
  <2>1. sequences \in Seq(Sequence)
    BY DEF FInv, FinishedInv
  <2>2. PICK due : Polling(Begins, start_index_polling, due)
    BY DEF PollInv
  <2>3. Begins \in Seq(Startable)
    BY <2>2 DEF Polling, BegunStartable
  <2>4. BegunCount \in Nat /\ Len(sequences) \in Nat /\ Len(sequences) <= BegunCount
    BY <2>1 DEF BegunCount
  <2>5. Len(Begins) = BegunCount
    BY <2>3, <2>4 DEF Begins
  <2>6. n \in 1..Len(sequences) /\ m \in 1..Len(sequences)
    BY <2>1
  <2>7. n \in 1..BegunCount /\ m \in (n + 1)..BegunCount /\ m \in 1..BegunCount
    BY <2>4, <2>6
  <2>8. Begins[n] = Begins[m]
    BY <2>6, <2>7 DEF Begins
  <2> HIDE DEF Begins
  <2> QED
    BY <2>2, <2>5, <2>7, <2>8, OthersTakeSpace
<1> QED
  BY <1>1, FInitially, FInvariance, PollInitially, PollInvariance, PTL DEF Spec

=============================================================================
