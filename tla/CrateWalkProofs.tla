---------------------------- MODULE CrateWalkProofs ----------------------------
(***************************************************************************)
(* Modules are resolved right, whatever the crate and whatever the order   *)
(* in which the hash map lists them; and the filters let no private path   *)
(* through and lose no function but by its name.                           *)
(***************************************************************************)
EXTENDS CrateWalk, SequenceTheorems, FiniteSetTheorems, WellFoundedInduction, TLAPS

IInv == TypeOK /\ ResolvedRight

\* A module's path is that of its parent and its own name.
LEMMA ParentPath ==
  ASSUME NEW m \in Seq(Names), m # <<>>
  PROVE  /\ Front(m) \in Seq(Names)
         /\ Len(Front(m)) = Len(m) - 1
         /\ SubSeq(m, 1, Len(m)) = m
         /\ \A k \in 1..(Len(m) - 1) : SubSeq(Front(m), 1, k) = SubSeq(m, 1, k)
<1> DEFINE n == Len(m) - 1
<1>1. n \in Nat /\ Len(m) = n + 1 /\ \A i \in 1..Len(m) : m[i] \in Names
  OBVIOUS
<1>2. \A i \in 1..n : m[i] \in Names
  BY <1>1
<1> HIDE DEF n
<1>3. /\ SubSeq(m, 1, n) \in Seq(Names)
      /\ Len(SubSeq(m, 1, n)) = n
  BY <1>1, <1>2, SubSeqProperties
<1>4. Front(m) = SubSeq(m, 1, n)
  BY DEF Front, n
<1>5. ASSUME NEW k \in 1..n PROVE SubSeq(SubSeq(m, 1, n), 1, k) = SubSeq(m, 1, k)
  <2>1. /\ 1 \in 1..Len(m) /\ n \in 1..Len(m)
        /\ 1 \in 1..(n - 1 + 1) /\ k \in 1..(n - 1 + 1)
    BY <1>1
  <2>2. SubSeq(SubSeq(m, 1, n), 1, k) = SubSeq(m, 1 + 1 - 1, 1 + k - 1)
    BY <2>1, SubSeqOfSubSeq
  <2>3. 1 + 1 - 1 = 1 /\ 1 + k - 1 = k
    BY <1>1
  <2> QED
    BY <2>2, <2>3
<1>6. SubSeq(m, 1, Len(m)) = m
  BY SubSeqFull
<1> QED
  BY <1>3, <1>4, <1>5, <1>6 DEF n

\* A module is public down to its own level if its parent is and it is pub.
LEMMA PublicFromParent ==
  ASSUME NEW m \in Seq(Names), Len(m) >= 2, m \in DOMAIN inner, inner[m] \in BOOLEAN
  PROVE  AllPublic(m) <=> inner[m] /\ AllPublic(Front(m))
<1>1. m # <<>> /\ Len(m) \in Nat
  OBVIOUS
<1>2. 2..Len(m) = (2..Len(Front(m))) \cup {Len(m)}
  BY <1>1, ParentPath
<1>3. \A k \in 2..Len(Front(m)) : SubSeq(Front(m), 1, k) = SubSeq(m, 1, k)
  <2>1. Len(Front(m)) = Len(m) - 1
    BY <1>1, ParentPath
  <2>2. \A k \in 1..(Len(m) - 1) : SubSeq(Front(m), 1, k) = SubSeq(m, 1, k)
    BY <1>1, ParentPath
  <2>3. \A k \in 2..Len(Front(m)) : k \in 1..(Len(m) - 1)
    BY <1>1, <2>1
  <2> HIDE DEF Front
  <2> QED
    BY <2>2, <2>3
<1>4. SubSeq(m, 1, Len(m)) = m
  BY <1>1, ParentPath
<1> HIDE DEF Front
<1> QED
  BY <1>2, <1>3, <1>4 DEF AllPublic

\* Nothing is resolved at first.
LEMMA Initially == Init => IInv
  BY ItemsAssumption DEF Init, IInv, TypeOK, ResolvedRight, Resolved

\* The steps that leave modules and their visibility alone.
LEMMA Untouched ==
  ASSUME IInv, UNCHANGED <<inner, new_mod_visibility>>,
         work' \in Seq([current : Seq(Names), item : Items]),
         pc' \in {"impls", "walk"} => pc \in {"impls", "walk"}
  PROVE  IInv'
  BY DEF IInv, TypeOK, ResolvedRight, Resolved, AllPublic

\* Each step resolves modules right.
LEMMA Step == IInv /\ [Next]_vars => IInv'
<1> SUFFICES ASSUME IInv, [Next]_vars PROVE IInv'
  OBVIOUS
<1>1. work \in Seq([current : Seq(Names), item : Items])
  BY DEF IInv, TypeOK
<1>2. ASSUME NEW impl \in Impls, AnalyseImpl(impl) PROVE IInv'
  BY <1>1, <1>2, Untouched DEF AnalyseImpl
<1>3. CASE ImplsDone
  BY <1>1, <1>3, Untouched DEF ImplsDone
<1>4. CASE VisitMod
  <2> DEFINE item == Head(work).item
             path == Append(Head(work).current, item.name)
  <2>1. /\ Head(work) \in [current : Seq(Names), item : Items]
        /\ Tail(work) \in Seq([current : Seq(Names), item : Items])
    <3>1. work # <<>>
      BY <1>4 DEF VisitMod
    <3> QED
      BY <1>1, <3>1, HeadTailProperties
  <2>2. item.public \in BOOLEAN /\ item.items \in Seq(Items)
    BY <2>1, <1>4, ItemsAssumption DEF VisitMod
  <2>3. path \in Seq(Names) /\ path # <<>>
    <3>1. Head(work).current \in Seq(Names) /\ item.name \in Names
      BY <2>1, ItemsAssumption
    <3> HIDE DEF item
    <3> QED
      BY <3>1, AppendProperties
  <2>4. [n \in DOMAIN item.items |-> [current |-> path, item |-> item.items[n]]]
          \in Seq([current : Seq(Names), item : Items])
    <3>1. \A n \in DOMAIN item.items : item.items[n] \in Items
      BY <2>2
    <3>2. DOMAIN item.items = 1..Len(item.items) /\ Len(item.items) \in Nat
      BY <2>2
    <3> HIDE DEF item, path
    <3> QED
      BY <2>3, <3>1, <3>2
  <2>5. work' \in Seq([current : Seq(Names), item : Items])
    BY <2>1, <2>4, <1>4 DEF VisitMod
  <2>6. inner' = [m \in DOMAIN inner \cup {path} |->
                    IF m = path THEN item.public ELSE inner[m]]
    BY <1>4 DEF VisitMod
  <2>7. Resolved = {} /\ new_mod_visibility' = new_mod_visibility /\ pc' = pc
    BY <1>4 DEF VisitMod, IInv, TypeOK
  <2>8. TypeOK'
    <3> HIDE DEF item, path
    <3> QED
      BY <2>2, <2>3, <2>5, <2>6, <2>7 DEF IInv, TypeOK, Resolved
  <2>9. ResolvedRight'
    BY <2>7 DEF ResolvedRight, Resolved
  <2> QED
    BY <2>8, <2>9 DEF IInv
<1>5. CASE VisitFunction
  <2>1. work' \in Seq([current : Seq(Names), item : Items])
    BY <1>1, <1>5 DEF VisitFunction
  <2> QED
    BY <2>1, <1>5, Untouched DEF VisitFunction
<1>6. CASE WalkDone
  <2>1. CASE <<CrateName>> \in DOMAIN inner
    <3>1. /\ pc' = "round" /\ new_mod_visibility' = [m \in {<<CrateName>>} |-> TRUE]
          /\ UNCHANGED <<inner, work>>
      BY <1>6, <2>1 DEF WalkDone
    <3>2. TypeOK'
      BY <3>1, <2>1 DEF IInv, TypeOK, Resolved
    <3>3. 2..Len(<<CrateName>>) = {}
      OBVIOUS
    <3>4. ResolvedRight'
      BY <3>1, <3>3 DEF ResolvedRight, Resolved, AllPublic
    <3> QED
      BY <3>2, <3>4 DEF IInv
  <2>2. CASE <<CrateName>> \notin DOMAIN inner
    BY <1>1, <1>6, <2>2, Untouched DEF WalkDone
  <2> QED
    BY <2>1, <2>2
<1>7. CASE NewRound
  BY <1>1, <1>7, Untouched DEF NewRound
<1>8. ASSUME NEW m \in DOMAIN inner, Resolve(m) PROVE IInv'
  <2>1. CASE m \in Resolved \/ Front(m) \notin Resolved
    BY <1>1, <1>8, <2>1, Untouched DEF Resolve
  <2>2. CASE m \notin Resolved /\ Front(m) \in Resolved
    <3>1. m \in Seq(Names) /\ m # <<>> /\ inner[m] \in BOOLEAN
      BY DEF IInv, TypeOK
    <3>2. Front(m) \in Seq(Names) /\ Front(m) # <<>>
      BY <2>2 DEF IInv, TypeOK
    <3>3. Len(m) >= 2
      BY <3>1, <3>2, ParentPath
    <3>4. AllPublic(m) <=> inner[m] /\ AllPublic(Front(m))
      BY <3>1, <3>3, PublicFromParent
    <3>5. new_mod_visibility[Front(m)] = AllPublic(Front(m))
      BY <2>2 DEF IInv, ResolvedRight
    <3>6. /\ Visible(m) \in BOOLEAN
          /\ Visible(m) = AllPublic(m)
      <4>1. AllPublic(m) \in BOOLEAN
        BY DEF AllPublic
      <4> QED
        BY <3>1, <3>4, <3>5, <4>1 DEF Visible
    <3>7. /\ UNCHANGED <<pc, work, inner>>
          /\ pc = "resolve"
          /\ new_mod_visibility' =
               [n \in Resolved \cup {m} |->
                  IF n = m THEN Visible(m) ELSE new_mod_visibility[n]]
      BY <1>8, <2>2 DEF Resolve
    <3>8. TypeOK'
      BY <3>6, <3>7 DEF IInv, TypeOK, Resolved
    <3>9. \A p : AllPublic(p)' = AllPublic(p)
      BY <3>7 DEF AllPublic
    <3>10. ResolvedRight'
      BY <3>6, <3>7, <3>9 DEF IInv, ResolvedRight, Resolved
    <3> QED
      BY <3>8, <3>10 DEF IInv
  <2> QED
    BY <2>1, <2>2
<1>9. CASE EndRound
  BY <1>1, <1>9, Untouched DEF EndRound
<1>10. CASE Filter
  BY <1>1, <1>10, Untouched DEF Filter
<1>11. CASE Terminating
  BY <1>1, <1>11, Untouched DEF Terminating, vars
<1>12. CASE UNCHANGED vars
  BY <1>1, <1>12, Untouched DEF vars
<1> QED
  BY <1>2, <1>3, <1>4, <1>5, <1>6, <1>7, <1>8, <1>9, <1>10, <1>11, <1>12 DEF Next

\* Whatever the crate and the order of the hash map, get_invisible_mods never
\* records a wrong answer: a module resolved is visible if and only if it and
\* all modules around it are declared pub.
THEOREM ModulesResolvedRight == Spec => []ResolvedRight
<1>1. IInv => ResolvedRight
  BY DEF IInv
<1> QED
  BY Initially, Step, <1>1, PTL DEF Spec

-----------------------------------------------------------------------------
(* The rounds are enough.  A round that begins with a module unresolved      *)
(* resolves one at least: a module of least depth among them has a parent    *)
(* that is resolved, and it stays so until the round comes to it.            *)

WorkType == [current : Seq(Names), item : Items]

\* Modules are met after the modules they are in, and there is one root.
TreeInv ==
  /\ IsFiniteSet(DOMAIN inner)
  /\ \A m \in DOMAIN inner : Len(m) >= 2 => Front(m) \in DOMAIN inner
  /\ \A m, n \in DOMAIN inner : Len(m) = 1 /\ Len(n) = 1 => m = n
  /\ \A n \in DOMAIN work :
       \/ work[n].current \in DOMAIN inner
       \/ work[n].current = <<>> /\ DOMAIN inner = {} /\ Len(work) = 1

\* A module this round will resolve, if it resolves no other before.
Waiting == \E m \in mods_left : m \notin Resolved /\ Front(m) \in Resolved

RoundInv ==
  /\ round \in Nat
  /\ pc \in {"impls", "walk"} => round = 0
  /\ pc \in {"round", "resolve"} => <<CrateName>> \in Resolved
  /\ pc = "round" => Cardinality(Resolved) > round
  /\ pc = "resolve" => \/ Resolved = DOMAIN inner
                       \/ Cardinality(Resolved) > round
                       \/ Cardinality(Resolved) >= round /\ Waiting
  /\ pc = "filter" => Resolved = DOMAIN inner

\* No module has been met at first.
LEMMA TreeInitially == Init => TreeInv
<1> SUFFICES ASSUME Init PROVE TreeInv
  OBVIOUS
<1>1. inner = <<>> /\ \E root \in Crates : work = <<[current |-> <<>>, item |-> root]>>
  BY DEF Init
<1>2. DOMAIN inner = {}
  BY <1>1
<1>3. IsFiniteSet({})
  BY FS_EmptySet
<1> QED
  BY <1>1, <1>2, <1>3 DEF TreeInv

\* Items are taken off the list, and modules are left alone.
LEMMA TreeKept ==
  ASSUME TreeInv, inner' = inner, work' = work \/ work' = Tail(work),
         work \in Seq(WorkType), work # <<>> \/ work' = work
  PROVE  TreeInv'
<1>1. CASE work' = work
  BY <1>1 DEF TreeInv
<1>2. CASE work' = Tail(work) /\ work # <<>>
  <2>1. /\ work' \in Seq(WorkType) /\ Len(work') = Len(work) - 1
        /\ \A i \in 1..Len(work') : work'[i] = work[i + 1]
    BY <1>2, HeadTailProperties
  <2>2. DOMAIN work' = 1..Len(work') /\ DOMAIN work = 1..Len(work) /\ Len(work) \in Nat
    BY <2>1
  <2>3. ASSUME NEW n \in DOMAIN work' PROVE work'[n].current \in DOMAIN inner
    <3>1. n + 1 \in DOMAIN work /\ Len(work) # 1 /\ work'[n] = work[n + 1]
      BY <2>1, <2>2
    <3> QED
      BY <3>1 DEF TreeInv
  <2> QED
    BY <2>3 DEF TreeInv
<1> QED
  BY <1>1, <1>2

\* Each step keeps the tree of modules.
LEMMA TreeStep == TypeOK /\ TreeInv /\ [Next]_vars => TreeInv'
<1> SUFFICES ASSUME TypeOK, TreeInv, [Next]_vars PROVE TreeInv'
  OBVIOUS
<1>1. work \in Seq(WorkType)
  BY DEF TypeOK, WorkType
<1>2. CASE VisitMod
  <2> DEFINE item == Head(work).item
             path == Append(Head(work).current, item.name)
             inside == [n \in DOMAIN item.items |->
                          [current |-> path, item |-> item.items[n]]]
  <2>1. work # <<>> /\ item.kind = "mod"
    BY <1>2 DEF VisitMod
  <2>2. Head(work) \in WorkType /\ Tail(work) \in Seq(WorkType) /\ Len(Tail(work)) = Len(work) - 1
        /\ \A i \in 1..Len(Tail(work)) : Tail(work)[i] = work[i + 1]
    BY <1>1, <2>1, HeadTailProperties
  <2>3. Head(work).current \in Seq(Names) /\ item.name \in Names /\ item.items \in Seq(Items)
    BY <2>1, <2>2, ItemsAssumption DEF WorkType
  <2>4. /\ path \in Seq(Names) /\ path # <<>> /\ Len(path) = Len(Head(work).current) + 1
        /\ \A i \in 1..Len(Head(work).current) : path[i] = Head(work).current[i]
    <3> HIDE DEF item
    <3> QED
      BY <2>3, AppendProperties
  <2>5. Front(path) = Head(work).current
    <3>1. /\ Front(path) \in Seq(Names) /\ Len(Front(path)) = Len(Head(work).current)
      <4>1. Len(Front(path)) = Len(path) - 1 /\ Front(path) \in Seq(Names)
        BY <2>4, ParentPath
      <4>2. Len(Head(work).current) \in Nat
        BY <2>3
      <4> HIDE DEF path
      <4> QED
        BY <4>1, <4>2, <2>4
    <3>2. ASSUME NEW i \in 1..Len(Head(work).current) PROVE Front(path)[i] = path[i]
      <4>1. Len(Head(work).current) \in Nat /\ Len(path) - 1 = Len(Head(work).current)
        BY <2>3, <2>4
      <4>2. \A j \in 1..(Len(path) - 1) : path[j] \in Names
        <5>1. \A j \in 1..Len(path) : path[j] \in Names
          BY <2>4
        <5> HIDE DEF path
        <5> QED
          BY <5>1, <2>4
      <4> HIDE DEF path
      <4>3. SubSeq(path, 1, Len(path) - 1)[i] = path[1 + i - 1]
        BY <4>1, <4>2, SubSeqProperties
      <4> QED
        BY <4>1, <4>3 DEF Front
    <3> HIDE DEF path
    <3> QED
      BY <3>1, <3>2, <2>3, <2>4, SeqEqual
  <2>6. DOMAIN inner' = DOMAIN inner \cup {path}
    BY <1>2 DEF VisitMod
  <2>7. work' = inside \o Tail(work)
    BY <1>2 DEF VisitMod
  <2>8. inside \in Seq(WorkType) /\ \A n \in 1..Len(inside) : inside[n].current = path
    <3>1. \A n \in DOMAIN item.items : item.items[n] \in Items
      BY <2>3
    <3>2. DOMAIN item.items = 1..Len(item.items) /\ Len(item.items) \in Nat
      BY <2>3
    <3> HIDE DEF item, path
    <3> QED
      BY <2>4, <3>1, <3>2 DEF WorkType
  <2> HIDE DEF item, path, inside
  <2>9. ASSUME NEW n \in DOMAIN work' PROVE work'[n].current \in DOMAIN inner \cup {path}
    <3>1. /\ work' \in Seq(WorkType) /\ Len(work') = Len(inside) + Len(Tail(work))
          /\ \A i \in 1..(Len(inside) + Len(Tail(work))) :
               work'[i] = IF i <= Len(inside) THEN inside[i] ELSE Tail(work)[i - Len(inside)]
      BY <2>2, <2>7, <2>8, ConcatProperties
    <3>2. n \in 1..Len(work') /\ Len(inside) \in Nat /\ Len(Tail(work)) \in Nat /\ Len(work) \in Nat
      BY <1>1, <2>2, <2>8, <3>1
    <3>3. CASE n <= Len(inside)
      BY <2>8, <3>1, <3>2, <3>3
    <3>4. CASE n > Len(inside)
      <4>1. /\ n - Len(inside) \in 1..Len(Tail(work))
            /\ work'[n] = Tail(work)[n - Len(inside)]
        <5>1. n - Len(inside) \in 1..Len(Tail(work)) /\ ~(n <= Len(inside))
          BY <3>1, <3>2, <3>4
        <5>2. n \in 1..(Len(inside) + Len(Tail(work)))
          BY <3>1, <3>2
        <5> QED
          BY <3>1, <5>1, <5>2
      <4>2. work'[n] = work[n - Len(inside) + 1] /\ n - Len(inside) + 1 \in 1..Len(work)
            /\ Len(work) # 1
        BY <2>2, <3>2, <4>1
      <4>3. DOMAIN work = 1..Len(work)
        BY <1>1
      <4> QED
        BY <4>2, <4>3 DEF TreeInv
    <3> QED
      BY <3>2, <3>3, <3>4
  <2>10. IsFiniteSet(DOMAIN inner')
    BY <2>6, FS_AddElement DEF TreeInv
  <2>11. 1 \in DOMAIN work /\ Head(work) = work[1]
    BY <1>1, <2>1
  <2>12. CASE Head(work).current \in DOMAIN inner
    <3>1. Len(path) # 1
      <4>1. Head(work).current \in Seq(Names) /\ Head(work).current # <<>>
        BY <2>12 DEF TypeOK
      <4> QED
        BY <4>1, <2>4
    <3> QED
      BY <2>5, <2>6, <2>9, <2>10, <2>12, <3>1 DEF TreeInv
  <2>13. CASE Head(work).current = <<>> /\ DOMAIN inner = {}
    <3>1. Len(path) = 1
      BY <2>4, <2>13
    <3>2. DOMAIN inner' = {path}
      BY <2>6, <2>13
    <3>3. \A m \in DOMAIN inner' : Len(m) = 1 /\ ~(Len(m) >= 2)
      BY <3>1, <3>2
    <3>4. \A m, n \in DOMAIN inner' : m = n
      BY <3>2
    <3>5. \A n \in DOMAIN work' : work'[n].current \in DOMAIN inner'
      BY <2>6, <2>9
    <3> QED
      BY <2>10, <3>3, <3>4, <3>5 DEF TreeInv
  <2> QED
    BY <2>11, <2>12, <2>13 DEF TreeInv
<1>3. CASE VisitFunction
  BY <1>1, <1>3, TreeKept DEF VisitFunction
<1>4. CASE inner' = inner /\ work' = work
  BY <1>1, <1>4, TreeKept
<1> QED
  BY <1>2, <1>3, <1>4 DEF Next, AnalyseImpl, ImplsDone, WalkDone, NewRound, Resolve, EndRound,
                          Filter, Terminating, vars

\* Among modules not resolved there is one whose parent is.
LEMMA SomeWaiting ==
  ASSUME TypeOK, TreeInv, <<CrateName>> \in Resolved, Resolved # DOMAIN inner
  PROVE  \E m \in DOMAIN inner : m \notin Resolved /\ Front(m) \in Resolved
<1> DEFINE U == DOMAIN inner \ Resolved
           L == {Len(m) : m \in U}
<1>1. U # {} /\ \A m \in DOMAIN inner : m \in Seq(Names) /\ m # <<>>
  BY DEF TypeOK
<1>2. L \subseteq Nat /\ L # {}
  BY <1>1
<1>3. PICK x \in L : \A y \in L : ~(<<y, x>> \in OpToRel(<, Nat))
  <2> HIDE DEF L
  <2> QED
    BY <1>2, NatLessThanWellFounded, WFMin
<1>4. \A y \in L : ~(y < x)
  BY <1>2, <1>3 DEF OpToRel
<1>5. PICK m \in U : x = Len(m)
  OBVIOUS
<1>6. m \in Seq(Names) /\ m # <<>> /\ Len(m) \in Nat /\ Len(m) >= 1
  BY <1>1
<1>7. Len(m) # 1
  <2>1. <<CrateName>> \in DOMAIN inner /\ Len(<<CrateName>>) = 1
    BY DEF TypeOK
  <2> QED
    BY <2>1 DEF TreeInv
<1>8. Front(m) \in DOMAIN inner
  BY <1>6, <1>7 DEF TreeInv
<1>9. Len(Front(m)) = Len(m) - 1
  BY <1>6, ParentPath
<1>10. Front(m) \notin U
  <2> SUFFICES ASSUME Front(m) \in U PROVE FALSE
    OBVIOUS
  <2>1. Len(Front(m)) \in L
    OBVIOUS
  <2> HIDE DEF L, U
  <2> QED
    BY <1>4, <1>5, <1>6, <1>9, <2>1
<1> QED
  BY <1>8, <1>10

\* No round has been made at first.
LEMMA RoundInitially == Init => RoundInv
  BY DEF Init, RoundInv

\* The steps that leave the rounds alone.
LEMMA RoundKept ==
  ASSUME RoundInv, UNCHANGED <<inner, round, mods_left, new_mod_visibility>>,
         \/ pc' = pc
         \/ pc' \in {"panicked", "done"}
         \/ pc \in {"impls", "walk"} /\ pc' = "walk"
  PROVE  RoundInv'
  BY DEF RoundInv, Waiting, Resolved

\* Each step keeps what the rounds have achieved.
LEMMA RoundStep == TypeOK /\ TreeInv /\ RoundInv /\ [Next]_vars => RoundInv'
<1> SUFFICES ASSUME TypeOK, TreeInv, RoundInv, [Next]_vars PROVE RoundInv'
  OBVIOUS
<1>1. /\ IsFiniteSet(DOMAIN inner) /\ Resolved \subseteq DOMAIN inner
      /\ IsFiniteSet(Resolved)
      /\ Cardinality(Resolved) \in Nat /\ Cardinality(DOMAIN inner) \in Nat
      /\ Cardinality(Resolved) <= Cardinality(DOMAIN inner)
      /\ Cardinality(Resolved) = Cardinality(DOMAIN inner) => Resolved = DOMAIN inner
  BY FS_Subset, FS_CardinalityType DEF TreeInv, TypeOK
<1>2. round \in Nat
  BY DEF RoundInv
<1>3. ASSUME NEW impl \in Impls, AnalyseImpl(impl) PROVE RoundInv'
  BY <1>3, RoundKept DEF AnalyseImpl
<1>4. CASE ImplsDone
  BY <1>4, RoundKept DEF ImplsDone
<1>5. CASE VisitMod
  BY <1>5 DEF VisitMod, RoundInv
<1>6. CASE VisitFunction
  BY <1>6, RoundKept DEF VisitFunction
<1>7. CASE WalkDone
  <2>1. CASE <<CrateName>> \in DOMAIN inner
    <3>1. /\ pc' = "round" /\ new_mod_visibility' = [m \in {<<CrateName>>} |-> TRUE]
          /\ round' = round /\ pc = "walk"
      BY <1>7, <2>1 DEF WalkDone
    <3>2. Resolved' = {<<CrateName>>}
      BY <3>1 DEF Resolved
    <3>3. Cardinality(Resolved') = 1
      BY <3>2, FS_Singleton
    <3>4. Cardinality(Resolved)' > round' /\ round' = 0
      BY <3>1, <3>3 DEF RoundInv
    <3> QED
      BY <3>1, <3>2, <3>4 DEF RoundInv
  <2>2. CASE <<CrateName>> \notin DOMAIN inner
    BY <1>7, <2>2, RoundKept DEF WalkDone
  <2> QED
    BY <2>1, <2>2
<1>8. CASE NewRound
  <2>1. /\ pc = "round" /\ pc' = "resolve" /\ round' = round + 1 /\ mods_left' = DOMAIN inner
        /\ UNCHANGED <<inner, new_mod_visibility>>
    BY <1>8 DEF NewRound
  <2>2. <<CrateName>> \in Resolved /\ Cardinality(Resolved) > round
    BY <2>1 DEF RoundInv
  <2>3. Resolved' = Resolved
    BY <2>1 DEF Resolved
  <2>4. Cardinality(Resolved) >= round'
    BY <1>1, <1>2, <2>1, <2>2
  <2>5. Resolved = DOMAIN inner \/ Waiting'
    BY <2>1, <2>2, <2>3, SomeWaiting DEF Waiting
  <2> QED
    BY <1>2, <2>1, <2>2, <2>3, <2>4, <2>5 DEF RoundInv
<1>9. ASSUME NEW m \in DOMAIN inner, Resolve(m) PROVE RoundInv'
  <2>1. /\ pc = "resolve" /\ m \in mods_left /\ mods_left' = mods_left \ {m}
        /\ UNCHANGED <<pc, inner, round>>
    BY <1>9 DEF Resolve
  <2>2. CASE m \in Resolved \/ Front(m) \notin Resolved
    <3>1. new_mod_visibility' = new_mod_visibility
      BY <1>9, <2>2 DEF Resolve
    <3>2. Resolved' = Resolved
      BY <3>1 DEF Resolved
    <3>3. Waiting => Waiting'
      BY <2>1, <2>2, <3>2 DEF Waiting
    <3> QED
      BY <2>1, <3>2, <3>3 DEF RoundInv
  <2>3. CASE m \notin Resolved /\ Front(m) \in Resolved
    <3>1. Resolved' = Resolved \cup {m}
      BY <1>9, <2>3 DEF Resolve, Resolved
    <3>2. Cardinality(Resolved') = Cardinality(Resolved) + 1
      BY <1>1, <2>3, <3>1, FS_AddElement
    <3>3. CASE Resolved = DOMAIN inner
      BY <2>3, <3>3
    <3>4. CASE Cardinality(Resolved) >= round
      <4>1. Cardinality(Resolved') > round'
        BY <1>1, <1>2, <2>1, <3>2, <3>4
      <4> QED
        BY <2>1, <3>1, <4>1 DEF RoundInv
    <3>5. Resolved = DOMAIN inner \/ Cardinality(Resolved) >= round
      BY <1>1, <1>2, <2>1 DEF RoundInv
    <3> QED
      BY <3>3, <3>4, <3>5
  <2> QED
    BY <2>2, <2>3
<1>10. CASE EndRound
  <2>1. /\ pc = "resolve" /\ mods_left = {} /\ pc' = IF LastRound THEN "filter" ELSE "round"
        /\ UNCHANGED <<inner, round, mods_left, new_mod_visibility>>
    BY <1>10 DEF EndRound
  <2>2. Resolved' = Resolved
    BY <2>1 DEF Resolved
  <2>3. Resolved = DOMAIN inner \/ Cardinality(Resolved) > round
    BY <2>1 DEF RoundInv, Waiting
  <2>4. CASE LastRound
    <3>1. Resolved = DOMAIN inner
      BY <1>1, <1>2, <2>3, <2>4 DEF LastRound
    <3> QED
      BY <1>2, <2>1, <2>2, <2>4, <3>1 DEF RoundInv
  <2>5. CASE ~LastRound
    <3>1. Cardinality(Resolved) > round
      BY <2>3, <2>5 DEF LastRound
    <3>2. <<CrateName>> \in Resolved
      BY <2>1 DEF RoundInv
    <3> QED
      BY <1>2, <2>1, <2>2, <2>5, <3>1, <3>2 DEF RoundInv
  <2> QED
    BY <2>4, <2>5
<1>11. CASE Filter
  BY <1>11, RoundKept DEF Filter
<1>12. CASE Terminating
  BY <1>12, RoundKept DEF Terminating, vars
<1>13. CASE UNCHANGED vars
  BY <1>13, RoundKept DEF vars
<1> QED
  BY <1>3, <1>4, <1>5, <1>6, <1>7, <1>8, <1>9, <1>10, <1>11, <1>12, <1>13 DEF Next

\* As many rounds as there are modules are enough: whatever the crate and the
\* order of the hash map, get_invisible_mods has an answer for every module when
\* it returns.  A module without one would count as visible.
THEOREM RoundsAreEnough == Spec => []AllResolved
<1>1. IInv => TypeOK
  BY DEF IInv
<1>2. RoundInv => AllResolved
  BY DEF RoundInv, AllResolved
<1> QED
  BY Initially, Step, TreeInitially, TreeStep, RoundInitially, RoundStep, <1>1, <1>2, PTL
  DEF Spec

-----------------------------------------------------------------------------
(* The filters.  A function is recorded with paths that are sequences of       *)
(* names, and a module on such a path is a prefix of it, name by name.         *)

FnType ==
  [full_name : Seq(Names), trait_full_path : SUBSET Seq(Names), public : BOOLEAN,
   generic : BOOLEAN, listing : Listings]

\* The functions are kept as they were found until they are filtered.
PathsInv ==
  /\ api_functions \in Seq(FnType)
  /\ pc \in {"round", "resolve", "filter"} => found = api_functions
  /\ OnlyPublicPaths /\ LostByNameOnly

\* Min of FiniteSetsExt is the least number of a set.
LEMMA LeastNumber ==
  ASSUME NEW S \in SUBSET Nat, S # {}
  PROVE  Min(S) \in S /\ \A y \in S : Min(S) <= y
<1>1. PICK x \in S : \A y \in S : ~(<<y, x>> \in OpToRel(<, Nat))
  BY NatLessThanWellFounded, WFMin
<1>2. ASSUME NEW y \in S PROVE x <= y
  <2>1. ~(y < x)
    BY <1>1 DEF OpToRel
  <2>2. x \in Nat /\ y \in Nat
    OBVIOUS
  <2> QED
    BY <2>1, <2>2
<1> QED
  BY <1>2 DEF Min

\* What holds of 0 and is kept by every iteration of a loop holds always.
LEMMA LoopInduction ==
  ASSUME NEW T \in SUBSET Nat, 0 \in T, \A n \in T : n + 1 \in T
  PROVE  T = Nat
<1> SUFFICES ASSUME Nat \ T # {} PROVE FALSE
  OBVIOUS
<1>1. PICK x \in Nat \ T : \A y \in Nat \ T : x <= y
  BY LeastNumber
<1>2. x # 0 /\ x - 1 \in Nat
  BY <1>1
<1>3. x - 1 \in T
  BY <1>1, <1>2
<1>4. (x - 1) + 1 \in T
  BY <1>3
<1> QED
  BY <1>1, <1>4

\* The loop of a filter, iteration by iteration.
LEMMA KeptOfUnfold ==
  ASSUME NEW fns, Len(fns) \in Nat
  PROVE  /\ KeptOf(fns)[0] = <<>>
         /\ \A n \in 1..Len(fns) :
              KeptOf(fns)[n] = IF Kept(fns[n]) THEN Append(KeptOf(fns)[n - 1], fns[n])
                               ELSE KeptOf(fns)[n - 1]
<1> DEFINE Turn(n, kept) == IF Kept(fns[n]) THEN Append(kept, fns[n]) ELSE kept
           IsLoop(g, m) == g = [n \in 0..m |-> IF n = 0 THEN <<>> ELSE Turn(n, g[n - 1])]
           T == {m \in Nat : \E g : IsLoop(g, m)}
<1>1. KeptOf(fns) = CHOOSE g : IsLoop(g, Len(fns))
  BY DEF KeptOf
<1> HIDE DEF Turn
<1>2. 0 \in T
  <2> DEFINE g == [n \in 0..0 |-> <<>>]
  <2>1. g = [n \in 0..0 |-> IF n = 0 THEN <<>> ELSE Turn(n, g[n - 1])]
    OBVIOUS
  <2>2. IsLoop(g, 0)
    BY <2>1
  <2> QED
    BY <2>2
<1>3. ASSUME NEW m \in T PROVE m + 1 \in T
  <2>1. PICK g : IsLoop(g, m)
    OBVIOUS
  <2>2. m \in Nat /\ g = [n \in 0..m |-> IF n = 0 THEN <<>> ELSE Turn(n, g[n - 1])]
    BY <2>1
  <2> DEFINE h == [n \in 0..(m + 1) |-> IF n = m + 1 THEN Turn(n, g[m]) ELSE g[n]]
             k == [n \in 0..(m + 1) |-> IF n = 0 THEN <<>> ELSE Turn(n, h[n - 1])]
  <2>3. ASSUME NEW n \in 0..(m + 1) PROVE h[n] = k[n]
    <3>1. CASE n = 0
      BY <2>2, <3>1
    <3>2. CASE n = m + 1
      <4>1. m \in 0..(m + 1) /\ m # m + 1 /\ n # 0 /\ n - 1 = m
        BY <2>2, <3>2
      <4>2. h[n] = Turn(n, g[m]) /\ h[m] = g[m]
        BY <3>2, <4>1
      <4> QED
        BY <4>1, <4>2
    <3>3. CASE n \in 1..m
      <4>1. n \in 0..m /\ n # 0 /\ n # m + 1 /\ n - 1 \in 0..(m + 1) /\ n - 1 # m + 1
        BY <2>2, <3>3
      <4>2. h[n] = g[n] /\ h[n - 1] = g[n - 1]
        BY <4>1
      <4>3. g[n] = Turn(n, g[n - 1])
        BY <2>2, <4>1
      <4> QED
        BY <4>1, <4>2, <4>3
    <3> QED
      BY <2>2, <3>1, <3>2, <3>3
  <2>4. h = k
    BY <2>3
  <2>5. IsLoop(h, m + 1)
    BY <2>4
  <2>6. \E x : IsLoop(x, m + 1)
    <3> HIDE DEF h, IsLoop
    <3> QED
      BY <2>5
  <2> QED
    BY <2>2, <2>6
<1>4. T = Nat
  <2> HIDE DEF T
  <2>1. T \in SUBSET Nat
    BY DEF T
  <2> QED
    BY <1>2, <1>3, <2>1, LoopInduction
<1>5. \E g : IsLoop(g, Len(fns))
  BY <1>4
<1>6. IsLoop(KeptOf(fns), Len(fns))
  <2> HIDE DEF IsLoop
  <2> QED
    BY <1>1, <1>5
<1>7. ASSUME NEW n \in 0..Len(fns)
      PROVE  KeptOf(fns)[n] = IF n = 0 THEN <<>> ELSE Turn(n, KeptOf(fns)[n - 1])
  BY <1>6
<1>8. KeptOf(fns)[0] = <<>>
  BY <1>7
<1>9. ASSUME NEW n \in 1..Len(fns) PROVE KeptOf(fns)[n] = Turn(n, KeptOf(fns)[n - 1])
  BY <1>7
<1> QED
  BY <1>8, <1>9 DEF Turn

\* The loop leaves those functions that the filters let through.
LEMMA KeptOnes ==
  ASSUME NEW fns \in Seq(FnType)
  PROVE  /\ KeptOf(fns)[Len(fns)] \in Seq(FnType)
         /\ Range(KeptOf(fns)[Len(fns)]) = {fn \in Range(fns) : Kept(fn)}
<1> DEFINE Holds(m, r) == r \in Seq(FnType) /\ Range(r) = {fns[i] : i \in {j \in 1..m : Kept(fns[j])}}
           T == {m \in Nat : m <= Len(fns) => Holds(m, KeptOf(fns)[m])}
<1>0. Len(fns) \in Nat /\ DOMAIN fns = 1..Len(fns)
  OBVIOUS
<1>1. 0 \in T
  <2>1. KeptOf(fns)[0] = <<>>
    BY <1>0, KeptOfUnfold
  <2>2. Holds(0, <<>>)
    BY DEF Range
  <2> QED
    BY <2>1, <2>2
<1>2. ASSUME NEW m \in T PROVE m + 1 \in T
  <2> SUFFICES ASSUME m + 1 <= Len(fns) PROVE Holds(m + 1, KeptOf(fns)[m + 1])
    OBVIOUS
  <2> DEFINE n == m + 1
             r == KeptOf(fns)[m]
  <2>1. m \in Nat /\ m <= Len(fns) /\ n \in 1..Len(fns) /\ n - 1 = m
    BY <1>0
  <2>2. Holds(m, r)
    BY <2>1
  <2>3. KeptOf(fns)[n] = IF Kept(fns[n]) THEN Append(r, fns[n]) ELSE r
    BY <1>0, <2>1, KeptOfUnfold
  <2>4. fns[n] \in FnType
    BY <2>1
  <2>5. 1..n = (1..m) \cup {n}
    BY <2>1
  <2> HIDE DEF n, r
  <2>6. CASE Kept(fns[n])
    <3>1. r \in Seq(FnType)
      BY <2>2
    <3>2. Append(r, fns[n]) \in Seq(FnType) /\ Range(Append(r, fns[n])) = Range(r) \cup {fns[n]}
      <4>1. /\ DOMAIN Append(r, fns[n]) = DOMAIN r \cup {Len(r) + 1}
            /\ Append(r, fns[n])[Len(r) + 1] = fns[n]
            /\ \A i \in DOMAIN r : Append(r, fns[n])[i] = r[i]
            /\ Append(r, fns[n]) \in Seq(FnType)
        BY <2>4, <3>1
      <4> QED
        BY <4>1 DEF Range
    <3>3. {j \in 1..n : Kept(fns[j])} = {j \in 1..m : Kept(fns[j])} \cup {n}
      BY <2>5, <2>6
    <3>4. Holds(n, Append(r, fns[n]))
      BY <2>2, <3>2, <3>3
    <3> QED
      BY <2>3, <2>6, <3>4 DEF n
  <2>7. CASE ~Kept(fns[n])
    <3>1. {j \in 1..n : Kept(fns[j])} = {j \in 1..m : Kept(fns[j])}
      BY <2>5, <2>7
    <3>2. Holds(n, r)
      BY <2>2, <3>1
    <3> QED
      BY <2>3, <2>7, <3>2 DEF n
  <2> QED
    BY <2>6, <2>7
<1>3. T = Nat
  <2>1. T \in SUBSET Nat
    OBVIOUS
  <2> HIDE DEF T
  <2> QED
    BY <1>1, <1>2, <2>1, LoopInduction
<1>4. Holds(Len(fns), KeptOf(fns)[Len(fns)])
  <2> HIDE DEF Holds
  <2>1. Len(fns) <= Len(fns)
    BY <1>0
  <2> QED
    BY <1>0, <1>3, <2>1
<1>5. {fn \in Range(fns) : Kept(fn)} = {fns[i] : i \in {j \in 1..Len(fns) : Kept(fns[j])}}
  BY <1>0 DEF Range
<1> QED
  BY <1>4, <1>5

\* A path of which no prefix is the path of an invisible module is public.
LEMMA PublicPath ==
  ASSUME TypeOK, ResolvedRight, Resolved = DOMAIN inner, NEW p \in Seq(Names),
         \A m \in invisible_mods : ~StartsWith(p, m)
  PROVE  Reachable(p)
<1> SUFFICES ASSUME NEW k \in 2..(Len(p) - 1), SubSeq(p, 1, k) \in DOMAIN inner,
                    ~inner[SubSeq(p, 1, k)]
             PROVE  FALSE
  BY DEF Reachable
<1>1. PICK m : m = SubSeq(p, 1, k)
  OBVIOUS
<1>2. Len(p) \in Nat /\ k \in Nat /\ k \in 1..Len(p) /\ k - 1 \in 1..Len(p) /\ k <= Len(p)
  OBVIOUS
<1>3. m \in Seq(Names) /\ m # <<>> /\ m \in DOMAIN inner /\ ~inner[m]
  BY <1>1 DEF TypeOK
<1>4. Len(m) = k /\ \A i \in 1..k : m[i] = p[i]
  <2>1. \A i \in 1..k : p[i] \in Names
    BY <1>2
  <2>2. Len(m) = k /\ \A i \in 1..k : m[i] = p[1 + i - 1]
    BY <1>1, <1>2, <2>1, SubSeqProperties
  <2> QED
    BY <2>2
<1>5. ~AllPublic(m)
  <2>1. SubSeq(m, 1, k) = m
    BY <1>3, <1>4, ParentPath
  <2>2. k \in 2..Len(m)
    BY <1>4
  <2> QED
    BY <1>3, <2>1, <2>2 DEF AllPublic
<1>6. m \in invisible_mods
  BY <1>3, <1>5 DEF invisible_mods, ResolvedRight
<1>7. SubSeq(p, 1, k - 1) = Front(m)
  <2>1. Front(m) = SubSeq(SubSeq(p, 1, k), 1, k - 1)
    BY <1>1, <1>4 DEF Front
  <2>2. /\ 1 \in 1..Len(p) /\ k \in 1..Len(p)
        /\ 1 \in 1..(k - 1 + 1) /\ k - 1 \in 1..(k - 1 + 1)
    BY <1>2
  <2>3. SubSeq(SubSeq(p, 1, k), 1, k - 1) = SubSeq(p, 1 + 1 - 1, 1 + (k - 1) - 1)
    BY <2>2, SubSeqOfSubSeq
  <2>4. 1 + 1 - 1 = 1 /\ 1 + (k - 1) - 1 = k - 1
    BY <1>2
  <2> QED
    BY <2>1, <2>3, <2>4
<1>8. p[k] = Last(m)
  BY <1>2, <1>4 DEF Last
<1>9. StartsWith(p, m)
  BY <1>2, <1>4, <1>7, <1>8 DEF StartsWith
<1> QED
  BY <1>6, <1>9

\* A public path starts with that of an invisible module, as a string, only
\* where a name begins with another, or if it is the same path.
LEMMA StartsInName ==
  ASSUME TypeOK, ResolvedRight, NEW p \in Seq(Names), Reachable(p),
         NEW m \in invisible_mods, StartsWith(p, m)
  PROVE  /\ Len(m) <= Len(p) /\ Front(m) = SubSeq(p, 1, Len(m) - 1)
         /\ <<Last(m), p[Len(m)]>> \in NamePrefixes \/ m = p
<1>1. /\ Len(m) <= Len(p) /\ Front(m) = SubSeq(p, 1, Len(m) - 1)
      /\ p[Len(m)] = Last(m) \/ <<Last(m), p[Len(m)]>> \in NamePrefixes
  BY DEF StartsWith
<1>2. /\ m \in DOMAIN inner /\ m \in Seq(Names) /\ m # <<>> /\ ~AllPublic(m)
  BY DEF invisible_mods, TypeOK, ResolvedRight
<1>3. ASSUME p[Len(m)] = Last(m) PROVE m = p
  <2>0. Len(m) \in Nat /\ Len(m) >= 1 /\ Len(p) \in Nat
    BY <1>2
  <2>1. ASSUME NEW i \in 1..Len(m) PROVE m[i] = p[i]
    <3>1. CASE i = Len(m)
      BY <1>3, <3>1 DEF Last
    <3>2. CASE i # Len(m)
      <4>1. i \in 1..(Len(m) - 1) /\ Len(m) - 1 \in Nat
        BY <2>0, <3>2
      <4>2. /\ \A j \in 1..(Len(m) - 1) : m[j] \in Names
            /\ \A j \in 1..(Len(m) - 1) : p[j] \in Names
        BY <1>1, <1>2, <2>0
      <4>3. SubSeq(m, 1, Len(m) - 1)[i] = m[1 + i - 1]
        BY <4>1, <4>2, SubSeqProperties
      <4>4. SubSeq(p, 1, Len(m) - 1)[i] = p[1 + i - 1]
        BY <4>1, <4>2, SubSeqProperties
      <4>5. 1 + i - 1 = i
        BY <2>0
      <4> QED
        BY <1>1, <4>3, <4>4, <4>5 DEF Front
    <3> QED
      BY <3>1, <3>2
  <2>2. PICK k \in 2..Len(m) : SubSeq(m, 1, k) \in DOMAIN inner /\ ~inner[SubSeq(m, 1, k)]
    BY <1>2 DEF AllPublic
  <2>3. k \in Nat /\ k \in 2..Len(p) /\ \A i \in 1..k : i \in 1..Len(m) /\ i \in 1..Len(p)
    BY <1>1, <2>0
  <2>4. SubSeq(m, 1, k) = SubSeq(p, 1, k)
    <3>1. \A i \in 1..k : m[i] \in Names /\ p[i] \in Names
      BY <1>2, <2>3
    <3>2. /\ SubSeq(m, 1, k) \in Seq(Names) /\ Len(SubSeq(m, 1, k)) = k
          /\ \A i \in 1..k : SubSeq(m, 1, k)[i] = m[1 + i - 1]
      BY <2>3, <3>1, SubSeqProperties
    <3>3. /\ SubSeq(p, 1, k) \in Seq(Names) /\ Len(SubSeq(p, 1, k)) = k
          /\ \A i \in 1..k : SubSeq(p, 1, k)[i] = p[1 + i - 1]
      BY <2>3, <3>1, SubSeqProperties
    <3>4. \A i \in 1..k : 1 + i - 1 = i
      BY <2>3
    <3>5. \A i \in 1..k : SubSeq(m, 1, k)[i] = SubSeq(p, 1, k)[i]
      BY <2>1, <2>3, <3>2, <3>3, <3>4
    <3> QED
      BY <3>2, <3>3, <3>5, SeqEqual
  <2>5. ~(k \in 2..(Len(p) - 1))
    BY <2>2, <2>4 DEF Reachable
  <2>6. Len(m) = Len(p)
    BY <1>1, <2>0, <2>3, <2>5
  <2> QED
    BY <1>2, <2>1, <2>6, SeqEqual
<1> QED
  BY <1>1, <1>3

\* The methods taken from an impl block have paths to be called by.
LEMMA AnalysedType ==
  ASSUME NEW impl \in Impls
  PROVE  Analysed(impl) \in Seq(FnType)
<1> DEFINE returns == {n \in DOMAIN impl.methods : Returns(impl, impl.methods[n])}
           before == IF returns = {} THEN Len(impl.methods) ELSE Min(returns) - 1
           Fn(n) == [full_name |-> Append(CHOOSE p \in MethodTypeName(impl, impl.methods[n]) : TRUE,
                                          impl.methods[n].name),
                     trait_full_path |-> impl.trait_name,
                     public          |-> impl.methods[n].public,
                     generic         |-> impl.methods[n].generic,
                     listing         |-> impl.methods[n].listing]
<1>1. /\ Len(impl.methods) \in Nat /\ DOMAIN impl.methods = 1..Len(impl.methods)
      /\ impl.type_name \subseteq Seq(Names) /\ impl.trait_name \subseteq Seq(Names)
      /\ \A n \in DOMAIN impl.methods :
           /\ impl.methods[n].name \in Names
           /\ impl.methods[n].public \in BOOLEAN /\ impl.methods[n].generic \in BOOLEAN
           /\ impl.methods[n].listing \in Listings
  BY ImplsAssumption
<1>2. returns \in SUBSET Nat /\ returns \subseteq 1..Len(impl.methods)
  BY <1>1
<1>3. /\ before \in Nat
      /\ \A n \in 1..before : n \in DOMAIN impl.methods /\ n \notin returns
  <2>1. CASE returns = {}
    BY <1>1, <2>1
  <2>2. CASE returns # {}
    <3>1. Min(returns) \in returns /\ \A y \in returns : Min(returns) <= y
      BY <1>2, <2>2, LeastNumber
    <3>2. PICK x : x = Min(returns)
      OBVIOUS
    <3>3. x \in 1..Len(impl.methods) /\ before = x - 1 /\ \A y \in returns : x <= y
      BY <1>2, <2>2, <3>1, <3>2
    <3> HIDE DEF returns, before
    <3> QED
      BY <1>1, <1>2, <3>3
  <2> QED
    BY <2>1, <2>2
<1>4. ASSUME NEW n \in 1..before PROVE Fn(n) \in FnType
  <2>1. n \in DOMAIN impl.methods /\ ~Returns(impl, impl.methods[n])
    BY <1>3
  <2>2. MethodTypeName(impl, impl.methods[n]) # {}
        /\ MethodTypeName(impl, impl.methods[n]) \subseteq Seq(Names)
    BY <1>1, <2>1 DEF Returns, MethodTypeName
  <2>3. (CHOOSE p \in MethodTypeName(impl, impl.methods[n]) : TRUE) \in Seq(Names)
    BY <2>2
  <2>4. /\ impl.methods[n].name \in Names
        /\ impl.methods[n].public \in BOOLEAN /\ impl.methods[n].generic \in BOOLEAN
        /\ impl.methods[n].listing \in Listings
    BY <1>1, <2>1
  <2>5. Append(CHOOSE p \in MethodTypeName(impl, impl.methods[n]) : TRUE,
               impl.methods[n].name) \in Seq(Names)
    BY <2>3, <2>4
  <2> QED
    BY <1>1, <2>4, <2>5 DEF FnType
<1>5. Analysed(impl) = [n \in 1..before |-> Fn(n)]
  BY DEF Analysed
<1> HIDE DEF before, Fn
<1> QED
  BY <1>3, <1>4, <1>5

\* The filters leave public paths only, and lose no other than those named.
LEMMA FilterStep ==
  ASSUME IInv, RoundInv, PathsInv, Filter
  PROVE  PathsInv'
<1>1. /\ pc = "filter" /\ pc' = "done" /\ UNCHANGED <<inner, found, new_mod_visibility>>
      /\ api_functions' = KeptOf(api_functions)[Len(api_functions)]
  BY DEF Filter
<1>2. /\ api_functions \in Seq(FnType) /\ found = api_functions
      /\ TypeOK /\ ResolvedRight /\ Resolved = DOMAIN inner
  BY <1>1 DEF PathsInv, IInv, RoundInv
<1>3. /\ api_functions' \in Seq(FnType)
      /\ Range(api_functions') = {fn \in Range(api_functions) : Kept(fn)}
  BY <1>1, <1>2, KeptOnes
<1>4. ASSUME NEW fn \in Range(api_functions)
      PROVE  fn \in FnType /\ fn.full_name \in Seq(Names) /\ fn.trait_full_path \subseteq Seq(Names)
  <2>1. fn \in FnType
    BY <1>2 DEF Range
  <2> QED
    BY <2>1 DEF FnType
<1>5. /\ \A p : Reachable(p)' = Reachable(p) /\ invisible_mods' = invisible_mods
      /\ \A fn : OnPreludeType(fn)' = OnPreludeType(fn)
  BY <1>1 DEF Reachable, invisible_mods, Resolved, OnPreludeType
<1>6. ASSUME NEW fn \in Range(api_functions), Kept(fn)
      PROVE  fn.public /\ Reachable(fn.full_name) /\ \A t \in fn.trait_full_path : Reachable(t)
  <2>1. fn.public /\ ~Invisible(fn)
    BY <1>6 DEF Kept
  <2>2. ASSUME NEW p \in {fn.full_name} \cup fn.trait_full_path PROVE Reachable(p)
    <3>1. p \in Seq(Names)
      BY <1>4
    <3>2. \A m \in invisible_mods : ~StartsWith(p, m)
      BY <2>1 DEF Invisible
    <3> QED
      BY <1>2, <3>1, <3>2, PublicPath
  <2> QED
    BY <2>1, <2>2
<1>7. OnlyPublicPaths'
  <2> SUFFICES ASSUME NEW n \in DOMAIN api_functions'
               PROVE  /\ api_functions'[n].public
                      /\ Reachable(api_functions'[n].full_name)
                      /\ \A t \in api_functions'[n].trait_full_path : Reachable(t)
    BY <1>5 DEF OnlyPublicPaths
  <2>1. api_functions'[n] \in Range(api_functions')
    BY DEF Range
  <2> QED
    BY <1>3, <1>6, <2>1
<1>8. ASSUME NEW fn \in Range(api_functions), Wanted(fn), ~Kept(fn)
      PROVE  \E m \in invisible_mods : \E p \in {fn.full_name} \cup fn.trait_full_path :
               /\ Len(m) <= Len(p)
               /\ Front(m) = SubSeq(p, 1, Len(m) - 1)
               /\ <<Last(m), p[Len(m)]>> \in NamePrefixes \/ m = p
  <2>1. Invisible(fn) /\ fn.listing # "hidden"
    BY <1>8 DEF Wanted, Kept
  <2>2. PICK m \in invisible_mods :
          StartsWith(fn.full_name, m) \/ \E t \in fn.trait_full_path : StartsWith(t, m)
    BY <2>1 DEF Invisible
  <2>3. PICK p \in {fn.full_name} \cup fn.trait_full_path : StartsWith(p, m)
    BY <2>2
  <2>4. p \in Seq(Names) /\ Reachable(p)
    BY <1>4, <1>8 DEF Wanted
  <2> QED
    BY <1>2, <2>3, <2>4, StartsInName
<1>9. LostByNameOnly'
  <2>1. ASSUME NEW n \in DOMAIN found, Wanted(found[n])', found[n] \notin Range(api_functions')
        PROVE  \E m \in invisible_mods :
                 \E p \in {found[n].full_name} \cup found[n].trait_full_path :
                   /\ Len(m) <= Len(p)
                   /\ Front(m) = SubSeq(p, 1, Len(m) - 1)
                   /\ <<Last(m), p[Len(m)]>> \in NamePrefixes \/ m = p
    <3>1. PICK fn : fn = found[n]
      OBVIOUS
    <3>2. fn \in Range(api_functions) /\ ~Kept(fn)
      BY <1>2, <1>3, <2>1, <3>1 DEF Range
    <3>3. Wanted(fn)
      BY <1>1, <1>5, <2>1, <3>1 DEF Wanted
    <3> QED
      BY <1>8, <3>1, <3>2, <3>3
  <2> QED
    BY <1>1, <1>5, <2>1 DEF LostByNameOnly
<1> QED
  BY <1>1, <1>3, <1>7, <1>9 DEF PathsInv

\* Each step keeps the paths of the functions.
LEMMA PathsStep == IInv /\ RoundInv /\ PathsInv /\ [Next]_vars => PathsInv'
<1> SUFFICES ASSUME IInv, RoundInv, PathsInv, [Next]_vars PROVE PathsInv'
  OBVIOUS
<1>1. ASSUME api_functions' \in Seq(FnType), pc' \notin {"round", "resolve", "filter", "done"}
      PROVE  PathsInv'
  BY <1>1 DEF PathsInv, OnlyPublicPaths, LostByNameOnly
<1>2. ASSUME UNCHANGED <<api_functions, found>>, pc' # "done",
             pc' \in {"round", "resolve", "filter"} => pc \in {"round", "resolve", "filter"}
      PROVE  PathsInv'
  BY <1>2 DEF PathsInv, OnlyPublicPaths, LostByNameOnly
<1>3. api_functions \in Seq(FnType)
  BY DEF PathsInv
<1>4. ASSUME NEW impl \in Impls, AnalyseImpl(impl) PROVE PathsInv'
  <2>1. api_functions' = api_functions \o Analysed(impl) /\ pc' = "impls"
    BY <1>4 DEF AnalyseImpl
  <2>2. api_functions' \in Seq(FnType)
    BY <1>3, <2>1, AnalysedType
  <2> QED
    BY <1>1, <2>1, <2>2
<1>5. CASE ImplsDone
  BY <1>2, <1>5 DEF ImplsDone
<1>6. CASE VisitMod
  BY <1>2, <1>6 DEF VisitMod
<1>7. CASE VisitFunction
  <2> DEFINE item == Head(work).item
  <2>1. /\ work # <<>> /\ item.kind = "function" /\ pc' = "walk"
        /\ api_functions' = Append(api_functions,
              [full_name       |-> Append(Head(work).current, item.name),
               trait_full_path |-> {},
               public          |-> item.public,
               generic         |-> item.generic,
               listing         |-> item.listing])
    BY <1>7 DEF VisitFunction
  <2>2. Head(work) \in WorkType
    <3>1. work \in Seq(WorkType)
      BY DEF IInv, TypeOK, WorkType
    <3> QED
      BY <2>1, <3>1, HeadTailProperties
  <2>3. /\ Head(work).current \in Seq(Names) /\ item.name \in Names
        /\ item.public \in BOOLEAN /\ item.generic \in BOOLEAN /\ item.listing \in Listings
    BY <2>1, <2>2, ItemsAssumption DEF WorkType
  <2> HIDE DEF item
  <2>4. Append(Head(work).current, item.name) \in Seq(Names)
    BY <2>3
  <2>5. api_functions' \in Seq(FnType)
    BY <1>3, <2>1, <2>3, <2>4 DEF FnType
  <2> QED
    BY <1>1, <2>1, <2>5
<1>8. CASE WalkDone
  <2>1. found' = api_functions /\ api_functions' = api_functions /\ pc' # "done"
    BY <1>8 DEF WalkDone
  <2> QED
    BY <1>3, <2>1 DEF PathsInv, OnlyPublicPaths, LostByNameOnly
<1>9. CASE NewRound
  BY <1>2, <1>9 DEF NewRound
<1>10. ASSUME NEW m \in DOMAIN inner, Resolve(m) PROVE PathsInv'
  BY <1>2, <1>10 DEF Resolve
<1>11. CASE EndRound
  BY <1>2, <1>11 DEF EndRound
<1>12. CASE Filter
  BY <1>12, FilterStep
<1>13. CASE UNCHANGED vars
  <2>1. UNCHANGED <<pc, api_functions, found, inner, new_mod_visibility>>
    BY <1>13 DEF vars
  <2>2. /\ OnlyPublicPaths' <=> OnlyPublicPaths
        /\ LostByNameOnly' <=> LostByNameOnly
    BY <2>1 DEF OnlyPublicPaths, LostByNameOnly, Reachable, Wanted, OnPreludeType,
                invisible_mods, Resolved
  <2> QED
    BY <2>1, <2>2 DEF PathsInv
<1> QED
  BY <1>4, <1>5, <1>6, <1>7, <1>8, <1>9, <1>10, <1>11, <1>12, <1>13 DEF Next, Terminating

\* The functions that are found have sequences of names for paths.
LEMMA PathsAlways == Spec => []PathsInv
<1>1. Init => PathsInv
  BY DEF Init, PathsInv, OnlyPublicPaths, LostByNameOnly
<1>2. IInv => TypeOK
  BY DEF IInv
<1> QED
  BY <1>1, <1>2, Initially, Step, TreeInitially, TreeStep, RoundInitially, RoundStep,
     PathsStep, PTL DEF Spec

\* Whatever the crate, filter_functions leaves no function in the graph to which,
\* or to whose trait, the path goes through a private module.
THEOREM NoPrivatePaths == Spec => []OnlyPublicPaths
<1>1. PathsInv => OnlyPublicPaths
  BY DEF PathsInv
<1> QED
  BY <1>1, PathsAlways, PTL

\* Whatever the crate, a function with public paths is lost only because the
\* code compares paths as strings.
THEOREM OnlyNamesLose == Spec => []LostByNameOnly
<1>1. PathsInv => LostByNameOnly
  BY DEF PathsInv
<1> QED
  BY <1>1, PathsAlways, PTL

=============================================================================
