---------------------------- MODULE ArgumentProofs ----------------------------
(***************************************************************************)
(* Proofs about AflLayout and Conversion: where the bytes of an argument   *)
(* come from, and which type it has when it is passed.                     *)
(*                                                                         *)
(* Lengths, regions, call types and declared types are defined by          *)
(* recursion over the constructors of a type.  That these functions exist, *)
(* and what they compute, rests on LeastNumber: from it follow induction   *)
(* on numbers, induction over a rank and the existence of a function whose *)
(* values depend on values of lower rank.  After that each of them has an  *)
(* Unfold lemma, its recursive equation, and what it computes is proved    *)
(* from the inside of a type to its outside.                               *)
(*                                                                         *)
(* AflLayout.  LInv says that the decoded variables take up the fixed part *)
(* of the input without gap or overlap up to fixed_start_index, and of the *)
(* rest the shares below dynamic_param_index.  The minimal length that the *)
(* closure asks for leaves room for both.                                  *)
(*                                                                         *)
(* Conversion.  ConversionInv says that the value is what the pieces       *)
(* written so far make of the variable.  The pieces make what the whole    *)
(* call type makes (SplitKeeps), and that is the type of the parameter     *)
(* when the variable is the result of an earlier call (SameTypeMakes) and  *)
(* when it is decoded (DecodedMakes).                                      *)
(***************************************************************************)
EXTENDS AflLayout, Conversion, FiniteSetTheorems, WellFoundedInduction, TLAPS

-----------------------------------------------------------------------------
(* Recursion and induction over the structure of types *)

\* A nonempty set of numbers has a least one.
LEMMA LeastNumber ==
  ASSUME NEW S \in SUBSET Nat, S # {}
  PROVE  \E x \in S : \A y \in S : x <= y
<1> DEFINE less == {ss \in Nat \X Nat : ss[1] < ss[2]}
<1>1. IsWellFoundedOn(less, Nat)
  BY NatLessThanWellFounded, Zenon DEF OpToRel
<1> HIDE DEF less
<1>2. PICK x \in S : \A y \in S : <<y, x>> \notin less
  BY <1>1, WFMin
<1>3. ASSUME NEW y \in S PROVE x <= y
  <2>1. <<y, x>> \notin less
    BY <1>2
  <2>2. <<y, x>> \in Nat \X Nat /\ <<y, x>>[1] = y /\ <<y, x>>[2] = x
    OBVIOUS
  <2>3. ~(<<y, x>>[1] < <<y, x>>[2])
    BY <2>1, <2>2, Zenon DEF less
  <2> QED
    BY <2>2, <2>3
<1> QED
  BY <1>3

\* What holds of 0, and with every number of the next one, holds of all.
LEMMA Induction ==
  ASSUME NEW T \in SUBSET Nat, 0 \in T, \A n \in T : n + 1 \in T
  PROVE  T = Nat
<1> SUFFICES ASSUME Nat \ T # {} PROVE FALSE
  OBVIOUS
<1>1. PICK x \in Nat \ T : \A y \in Nat \ T : x <= y
  BY LeastNumber
<1>2. x # 0 /\ x - 1 \in Nat
  BY <1>1
<1>3. x - 1 \in T
  BY <1>1, <1>2
<1>4. (x - 1) + 1 \in T
  BY <1>3
<1> QED
  BY <1>1, <1>4

\* An element is in P when all elements of D of lower rank are.
Progressive(D, rank, P) ==
  /\ rank \in [D -> Nat] /\ P \subseteq D
  /\ \A x \in D : (\A y \in D : rank[y] < rank[x] => y \in P) => x \in P

\* Then all elements of D are.
LEMMA RankInduction ==
  ASSUME NEW D, NEW rank, NEW P, Progressive(D, rank, P)
  PROVE  P = D
<1> USE DEF Progressive
<1> DEFINE T == {m \in Nat : \A x \in D : rank[x] < m => x \in P}
<1>1. 0 \in T
  OBVIOUS
<1>2. ASSUME NEW m \in T PROVE m + 1 \in T
  <2>1. ASSUME NEW x \in D, rank[x] < m + 1 PROVE x \in P
    <3>1. \A y \in D : rank[y] \in Nat /\ (rank[y] < rank[x] => rank[y] < m)
      BY <2>1
    <3> QED
      BY <3>1
  <2> QED
    BY <2>1
<1>3. T = Nat
  <2>1. T \in SUBSET Nat
    OBVIOUS
  <2> HIDE DEF T
  <2> QED
    BY <1>1, <1>2, <2>1, Induction
<1>4. ASSUME NEW x \in D PROVE x \in P
  <2>1. rank[x] + 1 \in T /\ rank[x] < rank[x] + 1
    BY <1>3
  <2> QED
    BY <2>1
<1> QED
  BY <1>4

\* step gives the values of a recursive function on D, from its values at
\* elements of lower rank.
Recursive(D, V, rank, bound, step) ==
  /\ V # {}
  /\ rank \in [D -> Nat] /\ bound \in Nat /\ \A x \in D : rank[x] < bound
  /\ step \in [D -> [[D -> V] -> V]]
  /\ \A x \in D : \A f, g \in [D -> V] :
       (\A y \in D : rank[y] < rank[x] => f[y] = g[y]) => step[x][f] = step[x][g]

\* A function on D with these values.
HasSolution(D, V, step) == \E f \in [D -> V] : \A x \in D : f[x] = step[x][f]

\* Such a function exists.
LEMMA Recursion ==
  ASSUME NEW D, NEW V, NEW rank, NEW bound, NEW step, Recursive(D, V, rank, bound, step)
  PROVE  HasSolution(D, V, step)
<1> USE DEF Recursive
<1> DEFINE T == {m \in Nat : \E f \in [D -> V] : \A x \in D : rank[x] < m => f[x] = step[x][f]}
<1>1. 0 \in T
  <2>1. PICK v \in V : TRUE
    OBVIOUS
  <2>2. [x \in D |-> v] \in [D -> V] /\ \A x \in D : ~(rank[x] < 0)
    OBVIOUS
  <2> QED
    BY <2>2
<1>2. ASSUME NEW m \in T PROVE m + 1 \in T
  <2>1. PICK f \in [D -> V] : \A x \in D : rank[x] < m => f[x] = step[x][f]
    OBVIOUS
  <2> DEFINE g == [x \in D |-> step[x][f]]
  <2>2. g \in [D -> V]
    OBVIOUS
  <2>3. ASSUME NEW x \in D, rank[x] < m + 1 PROVE g[x] = step[x][g]
    <3>1. ASSUME NEW y \in D, rank[y] < rank[x] PROVE f[y] = g[y]
      <4>1. rank[y] < m
        BY <2>3, <3>1
      <4> QED
        BY <2>1, <4>1
    <3>2. step[x][f] = step[x][g]
      BY <2>2, <3>1
    <3> QED
      BY <3>2
  <2> HIDE DEF g
  <2> QED
    BY <2>2, <2>3
<1>3. T = Nat
  <2>1. T \in SUBSET Nat
    OBVIOUS
  <2> HIDE DEF T
  <2> QED
    BY <1>1, <1>2, <2>1, Induction
<1>4. bound \in T
  BY <1>3
<1> QED
  BY <1>4 DEF HasSolution

\* A length that is computed from the inside of a type to its outside: at a leaf
\* (kind 0) it is given, around it it stays (1) or doubles (2).
NestedAt(kind, leaf, f, k) ==
  f[k] = IF kind[k] = 0 THEN leaf[k] ELSE IF kind[k] = 1 THEN f[k + 1] ELSE 2 * f[k + 1]

\* There is such a length, for every position.
LEMMA NestedExists ==
  ASSUME NEW n \in Nat, n # 0, NEW kind \in [1..n -> 0..2], NEW leaf \in [1..n -> Nat],
         kind[n] = 0
  PROVE  \E f \in [1..n -> Nat] : \A k \in 1..n : NestedAt(kind, leaf, f, k)
<1> DEFINE D == 1..n
           rank == [k \in D |-> n - k]
           body(k, f) ==
             IF kind[k] = 0 THEN leaf[k] ELSE IF kind[k] = 1 THEN f[k + 1] ELSE 2 * f[k + 1]
           step == [k \in D |-> [f \in [D -> Nat] |-> body(k, f)]]
<1>1. rank \in [D -> Nat] /\ \A k \in D : rank[k] < n
  OBVIOUS
<1>2. ASSUME NEW k \in D, kind[k] # 0 PROVE k + 1 \in D /\ rank[k + 1] < rank[k]
  <2>1. k # n
    BY <1>2
  <2> QED
    BY <2>1
<1>3. step \in [D -> [[D -> Nat] -> Nat]]
  <2>1. ASSUME NEW k \in D, NEW f \in [D -> Nat] PROVE body(k, f) \in Nat
    BY <1>2
  <2> QED
    BY <2>1
<1>4. ASSUME NEW k \in D, NEW f \in [D -> Nat], NEW g \in [D -> Nat],
             \A y \in D : rank[y] < rank[k] => f[y] = g[y]
      PROVE  step[k][f] = step[k][g]
  <2>1. body(k, f) = body(k, g)
    <3>1. CASE kind[k] = 0
      BY <3>1
    <3>2. CASE kind[k] # 0
      <4>1. f[k + 1] = g[k + 1]
        BY <1>2, <1>4, <3>2
      <4> QED
        BY <3>2, <4>1
    <3> QED
      BY <3>1, <3>2
  <2>2. step[k][f] = body(k, f) /\ step[k][g] = body(k, g)
    OBVIOUS
  <2> QED
    BY <2>1, <2>2
<1>5. HasSolution(D, Nat, step)
  <2> HIDE DEF D, rank, step
  <2>1. Recursive(D, Nat, rank, n, step)
    BY <1>1, <1>3, <1>4 DEF Recursive
  <2> QED
    BY <2>1, Recursion
<1> QED
  BY <1>5 DEF HasSolution, NestedAt

\* A position of a type is in P when the position after it is.
Inward(n, P) == P \subseteq 1..n /\ \A k \in 1..n : (k # n => k + 1 \in P) => k \in P

\* Then all positions are.
LEMMA InwardInduction ==
  ASSUME NEW n \in Nat, NEW P, Inward(n, P)
  PROVE  P = 1..n
<1> USE DEF Inward
<1> DEFINE D == 1..n
           rank == [k \in D |-> n - k]
<1>1. ASSUME NEW k \in D, \A y \in D : rank[y] < rank[k] => y \in P
      PROVE  k \in P
  BY <1>1
<1>2. rank \in [D -> Nat] /\ P \subseteq D
  OBVIOUS
<1> HIDE DEF rank, D
<1>3. P = D
  BY <1>1, <1>2, RankInduction DEF Progressive
<1> QED
  BY <1>3 DEF D

\* A nested length is a number wherever it starts.
LEMMA NestedType ==
  ASSUME NEW n \in Nat, n # 0, NEW kind \in [1..n -> 0..2], NEW leaf \in [1..n -> Nat],
         kind[n] = 0, NEW f, \A k \in 1..n : NestedAt(kind, leaf, f, k)
  PROVE  \A k \in 1..n : f[k] \in Nat
<1> DEFINE P == {k \in 1..n : f[k] \in Nat}
<1>1. ASSUME NEW k \in 1..n, k # n => k + 1 \in P PROVE k \in P
  BY <1>1 DEF NestedAt
<1>2. P = 1..n
  <2>1. P \subseteq 1..n
    OBVIOUS
  <2> HIDE DEF P
  <2> QED
    BY <1>1, <2>1, InwardInduction DEF Inward
<1> QED
  BY <1>2

-----------------------------------------------------------------------------
(* The lengths of fuzzable types *)

\* The constructors of fuzzable types.
FuzzableNames == PrimTypes \cup {"RefStr", "RefSlice", "Tuple", "NoFuzzable"}

\* What generate_fuzzable_type_and_call_type makes of a parameter type.
Fuzzable ==
  {ft \in Seq(FuzzableNames) :
     /\ ft # <<>>
     /\ \A k \in 1..(Len(ft) - 1) : ft[k] \in {"Tuple", "RefSlice"}
     /\ ft[Len(ft)] \in {"u8", "u16", "i32", "char", "bool", "RefStr"}}

\* What comes before the last constructor of a fuzzable type nests.
LEMMA FuzzableShape ==
  ASSUME NEW ft \in Fuzzable
  PROVE  /\ Len(ft) \in Nat /\ Len(ft) # 0 /\ DOMAIN ft = 1..Len(ft)
         /\ \A k \in 1..Len(ft) :
              \/ k + 1 \in 1..Len(ft) /\ ft[k] \in {"Tuple", "RefSlice"}
              \/ k = Len(ft) /\ ft[k] \in {"u8", "u16", "i32", "char", "bool", "RefStr"}
  BY DEF Fuzzable

\* The recursive definition of MinLengths.
LEMMA MinLengthsUnfold ==
  ASSUME NEW ft \in Fuzzable
  PROVE  /\ MinLengths(ft) \in [1..Len(ft) -> Nat]
         /\ \A k \in 1..Len(ft) :
              MinLengths(ft)[k] =
                IF ft[k] = "Tuple" THEN 2 * MinLengths(ft)[k + 1]
                ELSE IF ft[k] = "RefSlice" THEN MinLengths(ft)[k + 1]
                ELSE IF ft[k] = "RefStr" THEN 1 ELSE PrimLength(ft[k])
<1> DEFINE n == Len(ft)
           kind == [k \in 1..n |-> IF ft[k] = "Tuple" THEN 2 ELSE IF ft[k] = "RefSlice" THEN 1 ELSE 0]
           leaf == [k \in 1..n |-> IF ft[k] = "RefStr" THEN 1 ELSE PrimLength(ft[k])]
           Is(f) == f = [k \in DOMAIN ft |->
                           CASE ft[k] = "Tuple"    -> 2 * f[k + 1]
                             [] ft[k] = "RefSlice" -> f[k + 1]
                             [] ft[k] = "RefStr"   -> 1
                             [] OTHER              -> PrimLength(ft[k])]
<1>1. /\ n \in Nat /\ n # 0 /\ DOMAIN ft = 1..n
      /\ \A k \in 1..n : k + 1 \in 1..n \/ ft[k] \notin {"Tuple", "RefSlice"}
  BY FuzzableShape
<1>2. \A k \in 1..n : PrimLength(ft[k]) \in Nat
  BY DEF PrimLength
<1>3. kind \in [1..n -> 0..2] /\ leaf \in [1..n -> Nat] /\ kind[n] = 0
  BY <1>1, <1>2
<1>4. ASSUME NEW f
      PROVE  Is(f) <=> f = [k \in 1..n |-> f[k]] /\ \A k \in 1..n : NestedAt(kind, leaf, f, k)
  BY <1>1 DEF NestedAt
<1>5. \E f : Is(f)
  <2> HIDE DEF kind, leaf, n, Is
  <2>1. PICK f \in [1..n -> Nat] : \A k \in 1..n : NestedAt(kind, leaf, f, k)
    BY <1>1, <1>3, NestedExists
  <2>2. f = [k \in 1..n |-> f[k]]
    OBVIOUS
  <2> QED
    BY <1>4, <2>1, <2>2
<1>6. MinLengths(ft) = CHOOSE f : Is(f)
  BY DEF MinLengths
<1>7. Is(MinLengths(ft))
  <2> HIDE DEF Is
  <2> QED
    BY <1>5, <1>6
<1>8. \A k \in 1..n : NestedAt(kind, leaf, MinLengths(ft), k)
  <2> HIDE DEF kind, leaf, n, Is
  <2> QED
    BY <1>4, <1>7
<1>9. \A k \in 1..n : MinLengths(ft)[k] \in Nat
  <2> HIDE DEF kind, leaf, n, Is
  <2> QED
    BY <1>1, <1>3, <1>8, NestedType
<1> QED
  BY <1>1, <1>7, <1>9

\* The recursive definition of FixedPartLengths.
LEMMA FixedPartLengthsUnfold ==
  ASSUME NEW ft \in Fuzzable
  PROVE  /\ FixedPartLengths(ft) \in [1..Len(ft) -> Nat]
         /\ \A k \in 1..Len(ft) :
              FixedPartLengths(ft)[k] =
                IF ft[k] = "Tuple" THEN 2 * FixedPartLengths(ft)[k + 1]
                ELSE IF Dynamic(ft[k]) THEN 0 ELSE PrimLength(ft[k])
<1> DEFINE n == Len(ft)
           kind == [k \in 1..n |-> IF ft[k] = "Tuple" THEN 2 ELSE 0]
           leaf == [k \in 1..n |-> IF Dynamic(ft[k]) THEN 0 ELSE PrimLength(ft[k])]
           Is(f) == f = [k \in DOMAIN ft |->
                           CASE ft[k] = "Tuple"                  -> 2 * f[k + 1]
                             [] ft[k] \in {"RefSlice", "RefStr"} -> 0
                             [] OTHER                            -> PrimLength(ft[k])]
<1>1. /\ n \in Nat /\ n # 0 /\ DOMAIN ft = 1..n
      /\ \A k \in 1..n : k + 1 \in 1..n \/ ft[k] \notin {"Tuple", "RefSlice"}
  BY FuzzableShape
<1>2. \A k \in 1..n : PrimLength(ft[k]) \in Nat
  BY DEF PrimLength
<1>3. kind \in [1..n -> 0..2] /\ leaf \in [1..n -> Nat] /\ kind[n] = 0
  BY <1>1, <1>2
<1>4. ASSUME NEW f
      PROVE  Is(f) <=> f = [k \in 1..n |-> f[k]] /\ \A k \in 1..n : NestedAt(kind, leaf, f, k)
  BY <1>1 DEF NestedAt, Dynamic
<1>5. \E f : Is(f)
  <2> HIDE DEF kind, leaf, n, Is
  <2>1. PICK f \in [1..n -> Nat] : \A k \in 1..n : NestedAt(kind, leaf, f, k)
    BY <1>1, <1>3, NestedExists
  <2>2. f = [k \in 1..n |-> f[k]]
    OBVIOUS
  <2> QED
    BY <1>4, <2>1, <2>2
<1>6. FixedPartLengths(ft) = CHOOSE f : Is(f)
  BY DEF FixedPartLengths
<1>7. Is(FixedPartLengths(ft))
  <2> HIDE DEF Is
  <2> QED
    BY <1>5, <1>6
<1>8. \A k \in 1..n : NestedAt(kind, leaf, FixedPartLengths(ft), k)
  <2> HIDE DEF kind, leaf, n, Is
  <2> QED
    BY <1>4, <1>7
<1>9. \A k \in 1..n : FixedPartLengths(ft)[k] \in Nat
  <2> HIDE DEF kind, leaf, n, Is
  <2> QED
    BY <1>1, <1>3, <1>8, NestedType
<1> QED
  BY <1>1, <1>7, <1>9 DEF Dynamic

\* The recursive definition of DynamicLengthParamNumbers.
LEMMA DynamicLengthParamNumbersUnfold ==
  ASSUME NEW ft \in Fuzzable
  PROVE  /\ DynamicLengthParamNumbers(ft) \in [1..Len(ft) -> Nat]
         /\ \A k \in 1..Len(ft) :
              DynamicLengthParamNumbers(ft)[k] =
                IF ft[k] = "Tuple" THEN 2 * DynamicLengthParamNumbers(ft)[k + 1]
                ELSE IF Dynamic(ft[k]) THEN 1 ELSE 0
<1> DEFINE n == Len(ft)
           kind == [k \in 1..n |-> IF ft[k] = "Tuple" THEN 2 ELSE 0]
           leaf == [k \in 1..n |-> IF Dynamic(ft[k]) THEN 1 ELSE 0]
           Is(f) == f = [k \in DOMAIN ft |->
                           CASE ft[k] = "Tuple"                  -> 2 * f[k + 1]
                             [] ft[k] \in {"RefSlice", "RefStr"} -> 1
                             [] OTHER                            -> 0]
<1>1. /\ n \in Nat /\ n # 0 /\ DOMAIN ft = 1..n
      /\ \A k \in 1..n : k + 1 \in 1..n \/ ft[k] \notin {"Tuple", "RefSlice"}
  BY FuzzableShape
<1>3. kind \in [1..n -> 0..2] /\ leaf \in [1..n -> Nat] /\ kind[n] = 0
  BY <1>1
<1>4. ASSUME NEW f
      PROVE  Is(f) <=> f = [k \in 1..n |-> f[k]] /\ \A k \in 1..n : NestedAt(kind, leaf, f, k)
  BY <1>1 DEF NestedAt, Dynamic
<1>5. \E f : Is(f)
  <2> HIDE DEF kind, leaf, n, Is
  <2>1. PICK f \in [1..n -> Nat] : \A k \in 1..n : NestedAt(kind, leaf, f, k)
    BY <1>1, <1>3, NestedExists
  <2>2. f = [k \in 1..n |-> f[k]]
    OBVIOUS
  <2> QED
    BY <1>4, <2>1, <2>2
<1>6. DynamicLengthParamNumbers(ft) = CHOOSE f : Is(f)
  BY DEF DynamicLengthParamNumbers
<1>7. Is(DynamicLengthParamNumbers(ft))
  <2> HIDE DEF Is
  <2> QED
    BY <1>5, <1>6
<1>8. \A k \in 1..n : NestedAt(kind, leaf, DynamicLengthParamNumbers(ft), k)
  <2> HIDE DEF kind, leaf, n, Is
  <2> QED
    BY <1>4, <1>7
<1>9. \A k \in 1..n : DynamicLengthParamNumbers(ft)[k] \in Nat
  <2> HIDE DEF kind, leaf, n, Is
  <2> QED
    BY <1>1, <1>3, <1>8, NestedType
<1> QED
  BY <1>1, <1>7, <1>9 DEF Dynamic

\* A value takes at least the bytes of its fixed part and one for each part of
\* dynamic length.
LEMMA MinLengthsSuffice ==
  ASSUME NEW ft \in Fuzzable
  PROVE  \A k \in 1..Len(ft) :
           /\ MinLengths(ft)[k] >= 1
           /\ MinLengths(ft)[k] >= FixedPartLengths(ft)[k] + DynamicLengthParamNumbers(ft)[k]
<1> DEFINE n == Len(ft)
           min == MinLengths(ft)
           fixed == FixedPartLengths(ft)
           number == DynamicLengthParamNumbers(ft)
           P == {k \in 1..n : min[k] >= 1 /\ min[k] >= fixed[k] + number[k]}
<1>1. ASSUME NEW k \in 1..n, k # n => k + 1 \in P PROVE k \in P
  <2>1. min \in [1..n -> Nat] /\ fixed \in [1..n -> Nat] /\ number \in [1..n -> Nat]
    BY MinLengthsUnfold, FixedPartLengthsUnfold, DynamicLengthParamNumbersUnfold
  <2>2. /\ min[k] = IF ft[k] = "Tuple" THEN 2 * min[k + 1]
                    ELSE IF ft[k] = "RefSlice" THEN min[k + 1]
                    ELSE IF ft[k] = "RefStr" THEN 1 ELSE PrimLength(ft[k])
        /\ fixed[k] = IF ft[k] = "Tuple" THEN 2 * fixed[k + 1]
                      ELSE IF Dynamic(ft[k]) THEN 0 ELSE PrimLength(ft[k])
        /\ number[k] = IF ft[k] = "Tuple" THEN 2 * number[k + 1]
                       ELSE IF Dynamic(ft[k]) THEN 1 ELSE 0
    BY MinLengthsUnfold, FixedPartLengthsUnfold, DynamicLengthParamNumbersUnfold
  <2> HIDE DEF n, min, fixed, number
  <2>3. CASE k + 1 \in 1..n /\ ft[k] \in {"Tuple", "RefSlice"}
    <3>1. /\ min[k + 1] \in Nat /\ fixed[k + 1] \in Nat /\ number[k + 1] \in Nat
          /\ min[k + 1] >= 1 /\ min[k + 1] >= fixed[k + 1] + number[k + 1]
      BY <1>1, <2>1, <2>3 DEF n
    <3> QED
      BY <2>2, <2>3, <3>1 DEF Dynamic
  <2>4. CASE k = n /\ ft[k] \in {"u8", "u16", "i32", "char", "bool", "RefStr"}
    BY <2>2, <2>4 DEF Dynamic, PrimLength
  <2> QED
    BY <2>3, <2>4, FuzzableShape DEF n
<1>2. P = 1..n
  <2>1. P \subseteq 1..n /\ n \in Nat
    BY FuzzableShape
  <2> HIDE DEF P, n
  <2> QED
    BY <1>1, <2>1, InwardInduction DEF Inward
<1> QED
  BY <1>2

\* A value of fixed length has no other bytes than its fixed part.
LEMMA FixedLengthsExact ==
  ASSUME NEW ft \in Fuzzable, IsFixedLength(ft)
  PROVE  \A k \in 1..Len(ft) :
           /\ MinLengths(ft)[k] = FixedPartLengths(ft)[k]
           /\ DynamicLengthParamNumbers(ft)[k] = 0
<1> DEFINE n == Len(ft)
           min == MinLengths(ft)
           fixed == FixedPartLengths(ft)
           number == DynamicLengthParamNumbers(ft)
           P == {k \in 1..n : min[k] = fixed[k] /\ number[k] = 0}
<1>1. ASSUME NEW k \in 1..n, k # n => k + 1 \in P PROVE k \in P
  <2>1. /\ min[k] = IF ft[k] = "Tuple" THEN 2 * min[k + 1]
                    ELSE IF ft[k] = "RefSlice" THEN min[k + 1]
                    ELSE IF ft[k] = "RefStr" THEN 1 ELSE PrimLength(ft[k])
        /\ fixed[k] = IF ft[k] = "Tuple" THEN 2 * fixed[k + 1]
                      ELSE IF Dynamic(ft[k]) THEN 0 ELSE PrimLength(ft[k])
        /\ number[k] = IF ft[k] = "Tuple" THEN 2 * number[k + 1]
                       ELSE IF Dynamic(ft[k]) THEN 1 ELSE 0
    BY MinLengthsUnfold, FixedPartLengthsUnfold, DynamicLengthParamNumbersUnfold
  <2>2. ft[k] \notin {"RefSlice", "RefStr"}
    BY FuzzableShape DEF IsFixedLength
  <2>3. k + 1 \in 1..n \/ ft[k] # "Tuple"
    BY FuzzableShape
  <2> HIDE DEF n, min, fixed, number
  <2> QED
    BY <1>1, <2>1, <2>2, <2>3 DEF Dynamic
<1>2. P = 1..n
  <2>1. P \subseteq 1..n /\ n \in Nat
    BY FuzzableShape
  <2> HIDE DEF P, n
  <2> QED
    BY <1>1, <2>1, InwardInduction DEF Inward
<1> QED
  BY <1>2

\* A value of dynamic length has a part of dynamic length.
LEMMA DynamicPartExists ==
  ASSUME NEW ft \in Fuzzable, ~IsFixedLength(ft)
  PROVE  DynamicLengthParamNumber(ft) >= 1
<1> DEFINE n == Len(ft)
           number == DynamicLengthParamNumbers(ft)
           P == {k \in 1..n : (\E j \in k..n : Dynamic(ft[j])) => number[k] >= 1}
<1>1. ASSUME NEW k \in 1..n, k # n => k + 1 \in P PROVE k \in P
  <2>1. number[k] = IF ft[k] = "Tuple" THEN 2 * number[k + 1]
                    ELSE IF Dynamic(ft[k]) THEN 1 ELSE 0
    BY DynamicLengthParamNumbersUnfold
  <2>2. number \in [1..n -> Nat]
    BY DynamicLengthParamNumbersUnfold
  <2>3. k # n => ft[k] \in {"Tuple", "RefSlice"}
    BY FuzzableShape
  <2>4. n \in Nat
    BY FuzzableShape
  <2> HIDE DEF n, number
  <2> SUFFICES ASSUME NEW j \in k..n, Dynamic(ft[j]) PROVE number[k] >= 1
    OBVIOUS
  <2>5. CASE j = k
    BY <2>1, <2>4, <2>5 DEF Dynamic
  <2>6. CASE j # k
    <3>1. k # n /\ j \in (k + 1)..n
      BY <2>4, <2>6
    <3>2. number[k + 1] >= 1 /\ number[k + 1] \in Nat
      BY <1>1, <2>2, <2>4, <3>1
    <3> QED
      BY <2>1, <2>3, <3>1, <3>2 DEF Dynamic
  <2> QED
    BY <2>5, <2>6
<1>2. P = 1..n
  <2>1. P \subseteq 1..n /\ n \in Nat
    BY FuzzableShape
  <2> HIDE DEF P, n
  <2> QED
    BY <1>1, <2>1, InwardInduction DEF Inward
<1>3. \E j \in 1..n : Dynamic(ft[j])
  BY FuzzableShape DEF IsFixedLength, Dynamic
<1>4. 1 \in P
  BY <1>2, FuzzableShape
<1> QED
  BY <1>3, <1>4 DEF DynamicLengthParamNumber

-----------------------------------------------------------------------------
(* Totals over the variables of a sequence *)

\* The recursive definition of Totals.
LEMMA TotalsUnfold ==
  ASSUME NEW lengths \in Seq(Nat)
  PROVE  /\ Totals(lengths) \in [0..Len(lengths) -> Nat]
         /\ Totals(lengths)[0] = 0
         /\ \A n \in 1..Len(lengths) : Totals(lengths)[n] = Totals(lengths)[n - 1] + lengths[n]
<1> DEFINE D == 0..Len(lengths)
           rank == [n \in D |-> n]
           step == [n \in D |-> [f \in [D -> Nat] |->
                                   IF n = 0 THEN 0 ELSE f[n - 1] + lengths[n]]]
           Is(f) == f = [n \in D |-> IF n = 0 THEN 0 ELSE f[n - 1] + lengths[n]]
<1>1. Len(lengths) \in Nat /\ \A n \in 1..Len(lengths) : lengths[n] \in Nat
  OBVIOUS
<1>2. \E f : Is(f)
  <2>1. HasSolution(D, Nat, step)
    <3>1. rank \in [D -> Nat] /\ \A n \in D : rank[n] < Len(lengths) + 1
      BY <1>1
    <3>2. step \in [D -> [[D -> Nat] -> Nat]]
      <4>1. ASSUME NEW n \in D, NEW f \in [D -> Nat]
            PROVE  (IF n = 0 THEN 0 ELSE f[n - 1] + lengths[n]) \in Nat
        BY <1>1
      <4> QED
        BY <4>1
    <3>3. ASSUME NEW n \in D, NEW f \in [D -> Nat], NEW g \in [D -> Nat],
                 \A y \in D : rank[y] < rank[n] => f[y] = g[y]
          PROVE  step[n][f] = step[n][g]
      BY <1>1, <3>3
    <3>4. Len(lengths) + 1 \in Nat
      BY <1>1
    <3> HIDE DEF D, rank, step
    <3>5. Recursive(D, Nat, rank, Len(lengths) + 1, step)
      BY <3>1, <3>2, <3>3, <3>4 DEF Recursive
    <3> QED
      BY <3>5, Recursion
  <2>2. PICK f \in [D -> Nat] : \A n \in D : f[n] = step[n][f]
    BY <2>1 DEF HasSolution
  <2>3. Is(f)
    BY <2>2
  <2> QED
    BY <2>3
<1>3. Totals(lengths) = CHOOSE f : Is(f)
  BY DEF Totals
<1>4. Is(Totals(lengths))
  <2> HIDE DEF Is
  <2> QED
    BY <1>2, <1>3
<1> DEFINE P == {n \in D : Totals(lengths)[n] \in Nat}
<1>5. P = D
  <2>1. ASSUME NEW n \in D, \A y \in D : rank[y] < rank[n] => y \in P PROVE n \in P
    BY <1>1, <1>4, <2>1
  <2>2. rank \in [D -> Nat] /\ P \subseteq D
    BY <1>1
  <2> HIDE DEF D, rank, P, Is
  <2> QED
    BY <2>1, <2>2, RankInduction DEF Progressive
<1>6. /\ Totals(lengths) = [n \in D |-> Totals(lengths)[n]]
      /\ \A n \in D : Totals(lengths)[n] =
                        IF n = 0 THEN 0 ELSE Totals(lengths)[n - 1] + lengths[n]
  BY <1>4
<1>7. Totals(lengths) \in [D -> Nat]
  BY <1>5, <1>6
<1> QED
  BY <1>1, <1>6, <1>7

\* Totals of longer prefixes are at least as large.
LEMMA TotalsMonotone ==
  ASSUME NEW lengths \in Seq(Nat), NEW i \in 0..Len(lengths), NEW j \in i..Len(lengths)
  PROVE  Totals(lengths)[i] <= Totals(lengths)[j]
<1> DEFINE t == Totals(lengths)
           N == Len(lengths)
           T == {m \in Nat : i + m <= N => t[i] <= t[i + m]}
<1>1. N \in Nat /\ t \in [0..N -> Nat] /\ \A n \in 1..N : t[n] = t[n - 1] + lengths[n]
  BY TotalsUnfold
<1>2. \A n \in 1..N : lengths[n] \in Nat
  OBVIOUS
<1> HIDE DEF t, N
<1>3. i \in 0..N /\ j \in i..N
  BY DEF N
<1>4. 0 \in T
  BY <1>1, <1>3
<1>5. ASSUME NEW m \in T PROVE m + 1 \in T
  <2> SUFFICES ASSUME i + (m + 1) <= N PROVE t[i] <= t[i + (m + 1)]
    OBVIOUS
  <2>1. i + (m + 1) \in 1..N /\ (i + (m + 1)) - 1 = i + m /\ i + m \in 0..N
    BY <1>1, <1>3
  <2>2. t[i + (m + 1)] = t[i + m] + lengths[i + (m + 1)] /\ lengths[i + (m + 1)] \in Nat
    BY <1>1, <1>2, <2>1
  <2>3. t[i] <= t[i + m] /\ t[i] \in Nat /\ t[i + m] \in Nat
    BY <1>1, <1>3, <2>1
  <2> QED
    BY <2>2, <2>3
<1>6. T = Nat
  <2>1. T \in SUBSET Nat
    OBVIOUS
  <2> HIDE DEF T
  <2> QED
    BY <1>4, <1>5, <2>1, Induction
<1>7. j - i \in T /\ i + (j - i) = j
  <2>1. j - i \in Nat /\ i + (j - i) = j
    BY <1>1, <1>3
  <2> QED
    BY <1>6, <2>1
<1> QED
  BY <1>1, <1>3, <1>7 DEF t

\* Bounds by sums add up.
LEMMA SumsOrdered ==
  ASSUME NEW x \in Nat, NEW y \in Nat, NEW z \in Nat, NEW u \in Nat, NEW v \in Nat, NEW w \in Nat,
         x >= y + z, u >= v + w
  PROVE  x + u >= (y + v) + (z + w)
  OBVIOUS

\* If every length is at least the sum of two others, so is their total.
LEMMA TotalsAdd ==
  ASSUME NEW a \in Seq(Nat), NEW b \in Seq(Nat), NEW c \in Seq(Nat),
         Len(b) = Len(a), Len(c) = Len(a), \A n \in 1..Len(a) : a[n] >= b[n] + c[n]
  PROVE  Total(a) >= Total(b) + Total(c)
<1> DEFINE N == Len(a)
           ta == Totals(a)
           tb == Totals(b)
           tc == Totals(c)
           T == {m \in Nat : m <= N => ta[m] >= tb[m] + tc[m]}
<1>1. /\ N \in Nat
      /\ ta \in [0..N -> Nat] /\ tb \in [0..N -> Nat] /\ tc \in [0..N -> Nat]
      /\ ta[0] = 0 /\ tb[0] = 0 /\ tc[0] = 0
  BY TotalsUnfold
<1>2. \A n \in 1..N : /\ ta[n] = ta[n - 1] + a[n] /\ tb[n] = tb[n - 1] + b[n]
                       /\ tc[n] = tc[n - 1] + c[n]
  BY TotalsUnfold
<1>3. \A n \in 1..N : a[n] \in Nat /\ b[n] \in Nat /\ c[n] \in Nat /\ a[n] >= b[n] + c[n]
  OBVIOUS
<1> HIDE DEF N, ta, tb, tc
<1>4. 0 \in T
  BY <1>1
<1>5. ASSUME NEW m \in T PROVE m + 1 \in T
  <2> SUFFICES ASSUME m + 1 <= N PROVE ta[m + 1] >= tb[m + 1] + tc[m + 1]
    OBVIOUS
  <2>1. m + 1 \in 1..N /\ m \in 0..N /\ (m + 1) - 1 = m /\ ta[m] >= tb[m] + tc[m]
    BY <1>1
  <2>2. /\ ta[m + 1] = ta[m] + a[m + 1] /\ tb[m + 1] = tb[m] + b[m + 1]
        /\ tc[m + 1] = tc[m] + c[m + 1]
    BY <1>2, <2>1
  <2>3. ta[m] \in Nat /\ tb[m] \in Nat /\ tc[m] \in Nat
    BY <1>1, <2>1
  <2>4. a[m + 1] \in Nat /\ b[m + 1] \in Nat /\ c[m + 1] \in Nat /\ a[m + 1] >= b[m + 1] + c[m + 1]
    BY <1>3, <2>1
  <2>5. ta[m] + a[m + 1] >= (tb[m] + b[m + 1]) + (tc[m] + c[m + 1])
    BY <2>1, <2>3, <2>4, SumsOrdered
  <2> QED
    BY <2>2, <2>5, Zenon
<1>6. T = Nat
  <2>1. T \in SUBSET Nat
    OBVIOUS
  <2> HIDE DEF T
  <2> QED
    BY <1>4, <1>5, <2>1, Induction
<1>7. N \in T
  BY <1>1, <1>6
<1> QED
  BY <1>1, <1>7 DEF Total, N, ta, tb, tc

\* The total of zeros is 0.
LEMMA TotalZero ==
  ASSUME NEW a \in Seq(Nat), \A n \in 1..Len(a) : a[n] = 0
  PROVE  Total(a) = 0
<1> DEFINE N == Len(a)
           T == {m \in Nat : m <= N => Totals(a)[m] = 0}
<1>1. 0 \in T
  BY TotalsUnfold
<1>2. ASSUME NEW m \in T PROVE m + 1 \in T
  <2> SUFFICES ASSUME m + 1 <= N PROVE Totals(a)[m + 1] = 0
    OBVIOUS
  <2>1. m + 1 \in 1..N /\ (m + 1) - 1 = m /\ Totals(a)[m] = 0
    OBVIOUS
  <2>2. Totals(a)[m + 1] = Totals(a)[m] + a[m + 1] /\ a[m + 1] = 0
    BY <2>1, TotalsUnfold
  <2> QED
    BY <2>1, <2>2
<1>3. T = Nat
  <2>1. T \in SUBSET Nat
    OBVIOUS
  <2> HIDE DEF T
  <2> QED
    BY <1>1, <1>2, <2>1, Induction
<1>4. N \in T
  BY <1>3
<1> QED
  BY <1>4 DEF Total

\* A total is at least each of its terms.
LEMMA TotalAtLeast ==
  ASSUME NEW a \in Seq(Nat), NEW n \in 1..Len(a)
  PROVE  Total(a) >= a[n]
<1>1. Totals(a)[n] = Totals(a)[n - 1] + a[n] /\ Totals(a)[n - 1] \in Nat /\ a[n] \in Nat
  BY TotalsUnfold
<1>2. Totals(a)[n] <= Totals(a)[Len(a)]
  BY TotalsMonotone
<1>3. Totals(a)[Len(a)] \in Nat /\ Totals(a)[n] \in Nat
  <2>1. Totals(a) \in [0..Len(a) -> Nat] /\ Len(a) \in 0..Len(a) /\ n \in 0..Len(a)
    BY TotalsUnfold
  <2> QED
    BY <2>1
<1> QED
  BY <1>1, <1>2, <1>3 DEF Total

-----------------------------------------------------------------------------
(* The variables that parameters are decoded into *)

\* Types of parameters that the fuzzer can fill.
ParamTyOk(ty) ==
  /\ Len(ty) \in Nat /\ Len(ty) # 0
  /\ \A k \in 1..(Len(ty) - 1) : ty[k] \in TypeWrappers
  /\ ty[Len(ty)] \in PrimTypes

\* What generate_fuzzable_type_and_call_type returns.
GeneratedRecords == [fuzzable_type : Seq(FuzzableNames), call_type : Seq(Wrappers \cup Leaves)]

\* The last constructor is a primitive type, and what comes before it is not.
LEMMA ParamTyShape ==
  ASSUME NEW ty, ParamTyOk(ty)
  PROVE  /\ Len(ty) \in Nat /\ Len(ty) # 0
         /\ \A k \in 1..Len(ty) :
              \/ k + 1 \in 1..Len(ty) /\ ty[k] \notin PrimTypes
              \/ k = Len(ty) /\ ty[k] \in PrimTypes
         /\ \A k \in 1..(Len(ty) - 1) : ty[k + 1] = "Slice" => k + 2 \in 1..Len(ty)
<1>1. Len(ty) \in Nat /\ Len(ty) # 0
  BY DEF ParamTyOk
<1>2. \A w \in TypeWrappers : w \notin PrimTypes
  BY DEF TypeWrappers, PrimTypes, Preludes, Pointers, Numbers
<1>3. "Slice" \notin PrimTypes
  BY DEF PrimTypes, Numbers
<1> QED
  BY <1>1, <1>2, <1>3 DEF ParamTyOk

\* A direct call is a call type.
LEMMA DirectCallType == DirectCall \in Seq(Wrappers \cup Leaves)
  BY DEF DirectCall, Leaves

\* What stands for a type that cannot be decoded is a record like the others.
LEMMA NotGeneratedType == NotGenerated \in GeneratedRecords
<1>1. NoFuzzable \in Seq(FuzzableNames)
  BY DEF NoFuzzable, FuzzableNames
<1>2. NotCompatible \in Seq(Wrappers \cup Leaves)
  BY DEF NotCompatible, Leaves
<1> QED
  BY <1>1, <1>2 DEF NotGenerated, GeneratedRecords

\* One level of what is generated has its type when the levels inside have.
LEMMA GeneratedFromType ==
  ASSUME NEW ty, ParamTyOk(ty), NEW gen, NEW k \in 1..Len(ty),
         \A m \in 1..Len(ty) : m > k => gen[m] \in GeneratedRecords
  PROVE  GeneratedFrom(ty, gen, k) \in GeneratedRecords
<1> DEFINE Names == Wrappers \cup Leaves
<1>1. NotGenerated \in GeneratedRecords
  BY NotGeneratedType
<1>2. ASSUME NEW c \in Names, NEW r \in GeneratedRecords
      PROVE  Wrapped(c, r) \in GeneratedRecords
  <2>1. r.call_type \in Seq(Names) /\ r.fuzzable_type \in Seq(FuzzableNames)
    BY <1>2 DEF GeneratedRecords
  <2> HIDE DEF Names
  <2>2. <<c>> \o r.call_type \in Seq(Names)
    BY <1>2, <2>1
  <2>3. [r EXCEPT !.call_type = <<c>> \o @] \in GeneratedRecords
    BY <2>1, <2>2 DEF GeneratedRecords, Names
  <2> QED
    BY <1>1, <2>3 DEF Wrapped
<1>3. CASE ty[k] \in PrimTypes
  <2>1. <<ty[k]>> \in Seq(FuzzableNames)
    BY <1>3 DEF FuzzableNames
  <2>2. GeneratedFrom(ty, gen, k) = [fuzzable_type |-> <<ty[k]>>, call_type |-> DirectCall]
    BY <1>3 DEF GeneratedFrom, PrimTypes, Numbers, Pointers
  <2> QED
    BY <2>1, <2>2, DirectCallType DEF GeneratedRecords
<1>4. CASE ty[k] \notin PrimTypes
  <2>1. k + 1 \in 1..Len(ty) /\ k + 1 > k
    BY <1>4, ParamTyShape
  <2>2. gen[k + 1] \in GeneratedRecords
    BY <2>1
  <2>3. CASE ty[k] = "Tuple"
    <3>1. GeneratedFrom(ty, gen, k) = AsTuple(gen[k + 1])
      BY <1>4, <2>3 DEF GeneratedFrom, Pointers
    <3>2. <<"Tuple">> \o gen[k + 1].fuzzable_type \in Seq(FuzzableNames)
      <4>1. "Tuple" \in FuzzableNames /\ gen[k + 1].fuzzable_type \in Seq(FuzzableNames)
        BY <2>2 DEF GeneratedRecords, FuzzableNames
      <4> QED
        BY <4>1
    <3>3. [gen[k + 1] EXCEPT !.fuzzable_type = <<"Tuple">> \o @] \in GeneratedRecords
      BY <2>2, <3>2 DEF GeneratedRecords
    <3> QED
      BY <1>1, <3>1, <3>3 DEF AsTuple
  <2>4. CASE ty[k] = "Ref" /\ ty[k + 1] = "str"
    <3>1. GeneratedFrom(ty, gen, k) = [fuzzable_type |-> <<"RefStr">>, call_type |-> DirectCall]
      BY <1>4, <2>4 DEF GeneratedFrom
    <3>2. <<"RefStr">> \in Seq(FuzzableNames)
      BY DEF FuzzableNames
    <3> QED
      BY <3>1, <3>2, DirectCallType DEF GeneratedRecords
  <2>5. CASE ty[k] = "Ref" /\ ty[k + 1] = "Slice"
    <3>1. k \in 1..(Len(ty) - 1) /\ k + 2 > k
      BY <2>1, ParamTyShape
    <3>2. k + 2 \in 1..Len(ty)
      BY <2>5, <3>1, ParamTyShape
    <3>3. gen[k + 2] \in GeneratedRecords
      BY <3>1, <3>2
    <3>4. GeneratedFrom(ty, gen, k) = AsSlice(gen[k + 2])
      BY <1>4, <2>5 DEF GeneratedFrom
    <3>5. <<"RefSlice">> \o gen[k + 2].fuzzable_type \in Seq(FuzzableNames)
      <4>1. "RefSlice" \in FuzzableNames /\ gen[k + 2].fuzzable_type \in Seq(FuzzableNames)
        BY <3>3 DEF GeneratedRecords, FuzzableNames
      <4> QED
        BY <4>1
    <3>6. [fuzzable_type |-> <<"RefSlice">> \o gen[k + 2].fuzzable_type, call_type |-> DirectCall]
            \in GeneratedRecords
      BY <3>5, DirectCallType DEF GeneratedRecords
    <3> QED
      BY <1>1, <3>4, <3>6 DEF AsSlice
  <2>6. CASE ty[k] = "Ref" /\ ty[k + 1] \notin {"str", "Slice"}
    <3>1. GeneratedFrom(ty, gen, k) = Wrapped("BorrowedRef", gen[k + 1])
      BY <1>4, <2>6 DEF GeneratedFrom
    <3>2. "BorrowedRef" \in Names
      BY DEF Wrappers
    <3> QED
      BY <1>2, <2>2, <3>1, <3>2
  <2>7. CASE ty[k] \in Pointers \ {"Ref"}
    <3>1. GeneratedFrom(ty, gen, k) = Wrapped(PointerCallType(ty[k]), gen[k + 1])
      BY <1>4, <2>7 DEF GeneratedFrom, Pointers
    <3>2. PointerCallType(ty[k]) \in Names
      BY <2>7 DEF PointerCallType, Pointers, Wrappers
    <3> QED
      BY <1>2, <2>2, <3>1, <3>2
  <2>8. CASE ty[k] = "Option"
    <3>1. GeneratedFrom(ty, gen, k) = Wrapped("ToOption", gen[k + 1])
      BY <1>4, <2>8 DEF GeneratedFrom, Pointers
    <3>2. "ToOption" \in Names
      BY DEF Wrappers
    <3> QED
      BY <1>2, <2>2, <3>1, <3>2
  <2>9. CASE ty[k] \notin {"Tuple", "Ref", "Option"} \cup Pointers
    <3>1. GeneratedFrom(ty, gen, k) = NotGenerated
      BY <1>4, <2>9 DEF GeneratedFrom
    <3> QED
      BY <1>1, <3>1
  <2> QED
    BY <2>3, <2>4, <2>5, <2>6, <2>7, <2>8, <2>9
<1> QED
  BY <1>3, <1>4

\* It only depends on the levels inside.
LEMMA GeneratedFromLocal ==
  ASSUME NEW ty, ParamTyOk(ty), NEW f, NEW g, NEW k \in 1..Len(ty),
         \A m \in 1..Len(ty) : m > k => f[m] = g[m]
  PROVE  GeneratedFrom(ty, f, k) = GeneratedFrom(ty, g, k)
<1>1. CASE ty[k] \in PrimTypes
  BY <1>1 DEF GeneratedFrom
<1>2. CASE ty[k] \notin PrimTypes
  <2>1. k + 1 \in 1..Len(ty) /\ k + 1 > k /\ k \in 1..(Len(ty) - 1) /\ k + 2 > k
    BY <1>2, ParamTyShape
  <2>2. f[k + 1] = g[k + 1]
    BY <2>1
  <2>3. ty[k + 1] = "Slice" => f[k + 2] = g[k + 2]
    BY <2>1, ParamTyShape
  <2>4. CASE ty[k + 1] = "Slice"
    BY <1>2, <2>2, <2>3, <2>4 DEF GeneratedFrom
  <2>5. CASE ty[k + 1] # "Slice"
    BY <1>2, <2>2, <2>5 DEF GeneratedFrom
  <2> QED
    BY <2>4, <2>5
<1> QED
  BY <1>1, <1>2

\* The recursive definition of Generated.
LEMMA GeneratedUnfold ==
  ASSUME NEW ty, ParamTyOk(ty)
  PROVE  /\ Generated(ty) \in [1..Len(ty) -> GeneratedRecords]
         /\ \A k \in 1..Len(ty) : Generated(ty)[k] = GeneratedFrom(ty, Generated(ty), k)
<1> DEFINE n == Len(ty)
           D == 1..n
           V == GeneratedRecords
           rank == [k \in D |-> n - k]
           step == [k \in D |-> [f \in [D -> V] |-> GeneratedFrom(ty, f, k)]]
           Is(f) == f = [k \in D |-> GeneratedFrom(ty, f, k)]
<1>1. n \in Nat
  BY ParamTyShape
<1>2. \E f : Is(f)
  <2>1. HasSolution(D, V, step)
    <3>1. rank \in [D -> Nat] /\ \A k \in D : rank[k] < n + 1
      BY <1>1
    <3>2. step \in [D -> [[D -> V] -> V]]
      <4>1. ASSUME NEW k \in D, NEW f \in [D -> V] PROVE GeneratedFrom(ty, f, k) \in V
        BY GeneratedFromType
      <4> QED
        BY <4>1
    <3>3. ASSUME NEW k \in D, NEW f \in [D -> V], NEW g \in [D -> V],
                 \A y \in D : rank[y] < rank[k] => f[y] = g[y]
          PROVE  step[k][f] = step[k][g]
      <4>1. \A y \in D : y > k => f[y] = g[y]
        BY <1>1, <3>3
      <4>2. GeneratedFrom(ty, f, k) = GeneratedFrom(ty, g, k)
        BY <4>1, GeneratedFromLocal
      <4> QED
        BY <4>2
    <3>4. n + 1 \in Nat /\ V # {}
      <4>1. NotGenerated \in V
        BY NotGeneratedType
      <4> QED
        BY <1>1, <4>1
    <3> HIDE DEF n, D, V, rank, step
    <3>5. Recursive(D, V, rank, n + 1, step)
      BY <3>1, <3>2, <3>3, <3>4 DEF Recursive
    <3> QED
      BY <3>5, Recursion
  <2>2. PICK f \in [D -> V] : \A k \in D : f[k] = step[k][f]
    BY <2>1 DEF HasSolution
  <2>3. Is(f)
    BY <2>2
  <2> QED
    BY <2>3
<1>3. Generated(ty) = CHOOSE f : Is(f)
  BY DEF Generated
<1>4. Is(Generated(ty))
  <2> HIDE DEF Is
  <2> QED
    BY <1>2, <1>3
<1> DEFINE P == {k \in D : Generated(ty)[k] \in V}
<1>5. P = D
  <2>1. ASSUME NEW k \in D, \A y \in D : rank[y] < rank[k] => y \in P PROVE k \in P
    <3>1. \A y \in D : y > k => Generated(ty)[y] \in V
      BY <1>1, <2>1
    <3>2. GeneratedFrom(ty, Generated(ty), k) \in V
      BY <3>1, GeneratedFromType
    <3> QED
      BY <1>4, <3>2
  <2>2. rank \in [D -> Nat] /\ P \subseteq D
    BY <1>1
  <2> HIDE DEF D, rank, P, Is
  <2> QED
    BY <2>1, <2>2, RankInduction DEF Progressive
<1> QED
  BY <1>4, <1>5

\* What a variable is decoded as; a parameter may ask for an unsized str.
Decodable ==
  {ft \in Seq(FuzzableNames) :
     /\ ft # <<>> /\ \A k \in 1..(Len(ft) - 1) : ft[k] \in {"RefSlice", "Tuple"}
     /\ ft[Len(ft)] \in PrimTypes \cup {"RefStr"}}

\* The shape of what is decoded.
LEMMA DecodableShape ==
  ASSUME NEW ft \in Decodable
  PROVE  /\ ft \in Seq(FuzzableNames) /\ ft # <<>> /\ Len(ft) \in Nat /\ Len(ft) # 0
         /\ \A k \in 1..Len(ft) :
              /\ k # Len(ft) => ft[k] \in {"RefSlice", "Tuple"}
              /\ k = Len(ft) => ft[k] \in PrimTypes \cup {"RefStr"}
              /\ ft[k] \in {"RefSlice", "Tuple"} => k # Len(ft)
<1>1. /\ ft \in Seq(FuzzableNames) /\ ft # <<>>
      /\ \A k \in 1..(Len(ft) - 1) : ft[k] \in {"RefSlice", "Tuple"}
      /\ ft[Len(ft)] \in PrimTypes \cup {"RefStr"}
  BY DEF Decodable
<1>2. Len(ft) \in Nat /\ Len(ft) # 0
  BY <1>1
<1>3. \A k \in 1..Len(ft) : k # Len(ft) => k \in 1..(Len(ft) - 1)
  BY <1>2
<1>4. "RefSlice" \notin PrimTypes \cup {"RefStr"} /\ "Tuple" \notin PrimTypes \cup {"RefStr"}
  BY DEF PrimTypes, Numbers
<1> QED
  BY <1>1, <1>2, <1>3, <1>4

\* Primitive values and strings are.
LEMMA DecodableLeaf ==
  ASSUME NEW p \in PrimTypes \cup {"RefStr"}
  PROVE  <<p>> \in Decodable
<1>1. p \in FuzzableNames
  BY DEF FuzzableNames
<1>2. <<p>> \in Seq(FuzzableNames) /\ <<p>> # <<>> /\ Len(<<p>>) = 1 /\ <<p>>[1] = p
  BY <1>1
<1> QED
  BY <1>2 DEF Decodable

\* Tuples and slices of it are decoded, too.
LEMMA DecodableAround ==
  ASSUME NEW ft \in Decodable, NEW c \in {"RefSlice", "Tuple"}
  PROVE  <<c>> \o ft \in Decodable
<1>1. c \in FuzzableNames /\ ft \in Seq(FuzzableNames)
  BY DEF FuzzableNames, Decodable
<1> DEFINE s == <<c>> \o ft
<1>2. /\ s \in Seq(FuzzableNames) /\ Len(s) = Len(ft) + 1 /\ s[1] = c
      /\ \A k \in 1..Len(ft) : s[k + 1] = ft[k]
  BY <1>1
<1>3. Len(ft) \in Nat /\ Len(ft) # 0
  BY DecodableShape
<1>4. \A k \in 2..Len(s) : k - 1 \in 1..Len(ft) /\ s[(k - 1) + 1] = ft[k - 1] /\ (k - 1) + 1 = k
  BY <1>2, <1>3
<1> HIDE DEF s
<1>5. s # <<>>
  BY <1>2, <1>3
<1>6. ASSUME NEW k \in 1..(Len(s) - 1) PROVE s[k] \in {"RefSlice", "Tuple"}
  <2>1. CASE k = 1
    BY <1>2, <2>1
  <2>2. CASE k # 1
    <3>1. k \in 2..Len(s) /\ k - 1 \in 1..(Len(ft) - 1)
      BY <1>2, <1>3, <2>2
    <3>2. s[k] = ft[k - 1]
      BY <1>4, <3>1
    <3> QED
      BY <3>1, <3>2 DEF Decodable
  <2> QED
    BY <2>1, <2>2
<1>7. s[Len(s)] = ft[Len(ft)]
  BY <1>2, <1>3
<1>8. s \in Decodable
  BY <1>2, <1>5, <1>6, <1>7 DEF Decodable
<1> QED
  BY <1>8 DEF s

\* What has a decoder are the types that do not end in str.
LEMMA DecoderExists ==
  ASSUME NEW ft \in Decodable, Last(ft) # "str"
  PROVE  ft \in Fuzzable
<1>1. ft[Len(ft)] \in {"u8", "u16", "i32", "char", "bool", "RefStr"}
  BY DEF Decodable, Last, PrimTypes, Numbers
<1> QED
  BY <1>1 DEF Decodable, Fuzzable

\* The type of the variable that a parameter is decoded into.
LEMMA GeneratedDecodable ==
  ASSUME NEW ty, ParamTyOk(ty)
  PROVE  \A k \in 1..Len(ty) :
           Generated(ty)[k] = NotGenerated \/ Generated(ty)[k].fuzzable_type \in Decodable
<1> DEFINE n == Len(ty)
           D == 1..n
           gen == Generated(ty)
           rank == [k \in D |-> n - k]
           P == {k \in D : gen[k] = NotGenerated \/ gen[k].fuzzable_type \in Decodable}
<1>1. n \in Nat
  BY ParamTyShape
<1>2. ASSUME NEW r \in GeneratedRecords, NEW c, r = NotGenerated \/ r.fuzzable_type \in Decodable
      PROVE  Wrapped(c, r) = NotGenerated \/ Wrapped(c, r).fuzzable_type \in Decodable
  BY <1>2 DEF Wrapped, GeneratedRecords
<1>3. ASSUME NEW k \in D, \A y \in D : rank[y] < rank[k] => y \in P PROVE k \in P
  <2>1. \A y \in D : y > k => y \in P
    BY <1>1, <1>3
  <2>2. gen[k] = GeneratedFrom(ty, gen, k)
    BY GeneratedUnfold
  <2>3. CASE ty[k] \in PrimTypes
    <3>1. <<ty[k]>> \in Decodable
      BY <2>3, DecodableLeaf
    <3>2. gen[k] = [fuzzable_type |-> <<ty[k]>>, call_type |-> DirectCall]
      BY <2>2, <2>3 DEF GeneratedFrom, PrimTypes, Numbers, Pointers
    <3> QED
      BY <3>1, <3>2
  <2>4. CASE ty[k] \notin PrimTypes
    <3>1. k + 1 \in 1..n /\ k + 1 > k /\ (k + 1) - 1 = k /\ k \in 1..(n - 1) /\ k + 2 > k
      BY <1>1, <2>4, ParamTyShape
    <3>3. gen[k + 1] \in GeneratedRecords
      BY <3>1, GeneratedUnfold
    <3>4. k + 1 \in P
      BY <2>1, <3>1
    <3>5. CASE ty[k] = "Tuple"
      <4>1. gen[k] = AsTuple(gen[k + 1])
        BY <2>2, <2>4, <3>5 DEF GeneratedFrom, Pointers
      <4>2. CASE gen[k + 1].call_type # DirectCall
        BY <4>1, <4>2 DEF AsTuple
      <4>3. CASE gen[k + 1].call_type = DirectCall
        <5>1. gen[k + 1] # NotGenerated
          BY <4>3 DEF NotGenerated, DirectCall, NotCompatible
        <5>2. gen[k + 1].fuzzable_type \in Decodable
          BY <3>4, <3>5, <5>1
        <5>3. <<"Tuple">> \o gen[k + 1].fuzzable_type \in Decodable
          BY <5>2, DecodableAround
        <5>4. gen[k].fuzzable_type = <<"Tuple">> \o gen[k + 1].fuzzable_type
          BY <3>3, <4>1, <4>3 DEF AsTuple, GeneratedRecords
        <5> QED
          BY <5>3, <5>4
      <4> QED
        BY <4>2, <4>3
    <3>6. CASE ty[k] = "Ref" /\ ty[k + 1] = "str"
      <4>1. gen[k] = [fuzzable_type |-> <<"RefStr">>, call_type |-> DirectCall]
        BY <2>2, <2>4, <3>6 DEF GeneratedFrom
      <4>2. <<"RefStr">> \in Decodable
        BY DecodableLeaf
      <4> QED
        BY <4>1, <4>2
    <3>7. CASE ty[k] = "Ref" /\ ty[k + 1] = "Slice"
      <4>1. k + 2 \in 1..n
        BY <3>1, <3>7, ParamTyShape
      <4>2. k + 2 \in P
        BY <2>1, <3>1, <4>1
      <4>4. gen[k] = AsSlice(gen[k + 2])
        BY <2>2, <2>4, <3>7 DEF GeneratedFrom
      <4>5. CASE gen[k + 2] = NotGenerated
        BY <4>4, <4>5 DEF AsSlice
      <4>6. CASE gen[k + 2] # NotGenerated
        <5>1. <<"RefSlice">> \o gen[k + 2].fuzzable_type \in Decodable
          BY <4>2, <4>6, DecodableAround
        <5>2. gen[k].fuzzable_type = <<"RefSlice">> \o gen[k + 2].fuzzable_type
          BY <4>4, <4>6 DEF AsSlice
        <5> QED
          BY <5>1, <5>2
      <4> QED
        BY <4>5, <4>6
    <3>8. CASE ty[k] = "Ref" /\ ty[k + 1] \notin {"str", "Slice"}
      <4>1. gen[k] = Wrapped("BorrowedRef", gen[k + 1])
        BY <2>2, <2>4, <3>8 DEF GeneratedFrom
      <4>2. gen[k + 1] = NotGenerated \/ gen[k + 1].fuzzable_type \in Decodable
        BY <3>4, <3>8
      <4> QED
        BY <1>2, <3>3, <4>1, <4>2
    <3>9. CASE ty[k] \in Pointers \ {"Ref"}
      <4>1. gen[k] = Wrapped(PointerCallType(ty[k]), gen[k + 1])
        BY <2>2, <2>4, <3>9 DEF GeneratedFrom, Pointers
      <4>2. gen[k + 1] = NotGenerated \/ gen[k + 1].fuzzable_type \in Decodable
        BY <3>4, <3>9
      <4> QED
        BY <1>2, <3>3, <4>1, <4>2
    <3>10. CASE ty[k] = "Option"
      <4>1. gen[k] = Wrapped("ToOption", gen[k + 1])
        BY <2>2, <2>4, <3>10 DEF GeneratedFrom, Pointers
      <4>2. gen[k + 1] = NotGenerated \/ gen[k + 1].fuzzable_type \in Decodable
        BY <3>4, <3>10
      <4> QED
        BY <1>2, <3>3, <4>1, <4>2
    <3>11. CASE ty[k] \notin {"Tuple", "Ref", "Option"} \cup Pointers
      BY <2>2, <2>4, <3>11 DEF GeneratedFrom
    <3> QED
      BY <3>5, <3>6, <3>7, <3>8, <3>9, <3>10, <3>11
  <2> QED
    BY <2>3, <2>4
<1>4. P = D
  <2>1. rank \in [D -> Nat] /\ P \subseteq D
    BY <1>1
  <2> HIDE DEF D, rank, P, gen
  <2> QED
    BY <1>3, <2>1, RankInduction DEF Progressive
<1> QED
  BY <1>4

-----------------------------------------------------------------------------
(* The regions of one variable *)

\* Regions of variables, for all places where a part of ft can start.
RegionSet(ft) ==
  {WithValue(ft, k, Region(ft[k], at[1], at[2])) : k \in 1..Len(ft), at \in Nat \X Nat}
RegionFunctions(ft) == [Nat \X Nat -> Seq(RegionSet(ft))]

\* The start of the second component of a tuple.
LEMMA SecondComponent ==
  ASSUME NEW ft \in Fuzzable, NEW k \in 1..Len(ft), ft[k] = "Tuple", NEW at \in Nat \X Nat
  PROVE  /\ k + 1 \in 1..Len(ft)
         /\ <<at[1] + FixedPartLengths(ft)[k + 1],
              at[2] + DynamicLengthParamNumbers(ft)[k + 1]>> \in Nat \X Nat
<1>1. k + 1 \in 1..Len(ft)
  BY FuzzableShape
<1>2. FixedPartLengths(ft)[k + 1] \in Nat /\ DynamicLengthParamNumbers(ft)[k + 1] \in Nat
  BY <1>1, FixedPartLengthsUnfold, DynamicLengthParamNumbersUnfold
<1> QED
  BY <1>1, <1>2

\* The regions of one level have their type when those inside have.
LEMMA RegionsFromType ==
  ASSUME NEW ft \in Fuzzable, NEW of, NEW k \in 1..Len(ft),
         k + 1 \in 1..Len(ft) => of[k + 1] \in RegionFunctions(ft)
  PROVE  RegionsFrom(ft, of, k) \in RegionFunctions(ft)
<1> DEFINE second(at) == <<at[1] + FixedPartLengths(ft)[k + 1],
                           at[2] + DynamicLengthParamNumbers(ft)[k + 1]>>
           R == RegionSet(ft)
<1>1. ASSUME NEW at \in Nat \X Nat, ft[k] # "Tuple"
      PROVE  <<WithValue(ft, k, Region(ft[k], at[1], at[2]))>> \in Seq(R)
  <2>1. WithValue(ft, k, Region(ft[k], at[1], at[2])) \in R
    BY DEF RegionSet
  <2> HIDE DEF R
  <2> QED
    BY <2>1
<1>2. ASSUME NEW at \in Nat \X Nat, ft[k] = "Tuple"
      PROVE  of[k + 1][at] \o of[k + 1][second(at)] \in Seq(R)
  <2>1. k + 1 \in 1..Len(ft) /\ second(at) \in Nat \X Nat
    BY <1>2, SecondComponent
  <2> HIDE DEF second
  <2>2. of[k + 1][at] \in Seq(R) /\ of[k + 1][second(at)] \in Seq(R)
    BY <2>1 DEF RegionFunctions
  <2> HIDE DEF R
  <2> QED
    BY <2>2
<1> HIDE DEF R
<1> QED
  BY <1>1, <1>2 DEF RegionsFrom, RegionFunctions, R

\* They only depend on those inside.
LEMMA RegionsFromLocal ==
  ASSUME NEW ft \in Fuzzable, NEW f, NEW g, NEW k \in 1..Len(ft),
         k + 1 \in 1..Len(ft) => f[k + 1] = g[k + 1]
  PROVE  RegionsFrom(ft, f, k) = RegionsFrom(ft, g, k)
<1>1. CASE ft[k] = "Tuple"
  <2>1. f[k + 1] = g[k + 1]
    BY <1>1, FuzzableShape
  <2> QED
    BY <2>1 DEF RegionsFrom
<1>2. CASE ft[k] # "Tuple"
  BY <1>2 DEF RegionsFrom
<1> QED
  BY <1>1, <1>2

\* The recursive definition of RegionsOf.
LEMMA RegionsOfUnfold ==
  ASSUME NEW ft \in Fuzzable
  PROVE  /\ RegionsOf(ft) \in [1..Len(ft) -> RegionFunctions(ft)]
         /\ \A k \in 1..Len(ft) : RegionsOf(ft)[k] = RegionsFrom(ft, RegionsOf(ft), k)
<1> DEFINE n == Len(ft)
           D == 1..n
           V == RegionFunctions(ft)
           rank == [k \in D |-> n - k]
           step == [k \in D |-> [f \in [D -> V] |-> RegionsFrom(ft, f, k)]]
           Is(f) == f = [k \in D |-> RegionsFrom(ft, f, k)]
<1>1. n \in Nat /\ DOMAIN ft = D
  BY FuzzableShape
<1>2. \E f : Is(f)
  <2>1. HasSolution(D, V, step)
    <3>1. rank \in [D -> Nat] /\ \A k \in D : rank[k] < n + 1
      BY <1>1
    <3>2. step \in [D -> [[D -> V] -> V]]
      <4>1. ASSUME NEW k \in D, NEW f \in [D -> V] PROVE RegionsFrom(ft, f, k) \in V
        BY RegionsFromType
      <4> QED
        BY <4>1
    <3>3. ASSUME NEW k \in D, NEW f \in [D -> V], NEW g \in [D -> V],
                 \A y \in D : rank[y] < rank[k] => f[y] = g[y]
          PROVE  step[k][f] = step[k][g]
      <4>1. k + 1 \in D => f[k + 1] = g[k + 1]
        BY <1>1, <3>3
      <4>2. RegionsFrom(ft, f, k) = RegionsFrom(ft, g, k)
        BY <4>1, RegionsFromLocal
      <4> QED
        BY <4>2
    <3>4. n + 1 \in Nat
      BY <1>1
    <3>5. V # {}
      <4>1. [at \in Nat \X Nat |-> <<>>] \in V
        BY DEF RegionFunctions
      <4> QED
        BY <4>1
    <3> HIDE DEF n, D, V, rank, step
    <3>6. Recursive(D, V, rank, n + 1, step)
      BY <3>1, <3>2, <3>3, <3>4, <3>5 DEF Recursive
    <3> QED
      BY <3>6, Recursion
  <2>2. PICK f \in [D -> V] : \A k \in D : f[k] = step[k][f]
    BY <2>1 DEF HasSolution
  <2>3. Is(f)
    BY <2>2
  <2> QED
    BY <2>3
<1>3. RegionsOf(ft) = CHOOSE f : Is(f)
  BY <1>1 DEF RegionsOf
<1>4. Is(RegionsOf(ft))
  <2> HIDE DEF Is
  <2> QED
    BY <1>2, <1>3
<1> DEFINE P == {k \in 1..n : RegionsOf(ft)[k] \in V}
<1>5. P = 1..n
  <2>1. ASSUME NEW k \in 1..n, k # n => k + 1 \in P PROVE k \in P
    <3>1. k + 1 \in 1..n => RegionsOf(ft)[k + 1] \in V
      <4>1. k + 1 \in 1..n => k # n
        <5> HIDE DEF n
        <5> QED
          BY <1>1
      <4> QED
        BY <2>1, <4>1
    <3>2. RegionsFrom(ft, RegionsOf(ft), k) \in V
      BY <3>1, RegionsFromType
    <3> QED
      BY <1>4, <3>2
  <2>2. P \subseteq 1..n
    OBVIOUS
  <2> HIDE DEF P, n
  <2> QED
    BY <1>1, <2>1, <2>2, InwardInduction DEF Inward, n
<1> QED
  BY <1>4, <1>5

-----------------------------------------------------------------------------
(* Which bytes regions take *)

\* Where the share of a variable of dynamic length ends.
ShareEnd(i) == IF i = TotalDynamicParams - 1 THEN data_len ELSE ShareStart(i + 1)

\* The bytes of r are some of a..(b - 1) of the fixed part.
FixedIn(r, a, b) ==
  /\ r.type \in {"u8", "u16", "i32", "char", "bool"}
  /\ r.from \in Nat /\ a <= r.from /\ r.to = r.from + DecoderReads(r.type) /\ r.to <= b

\* r is share number i of the bytes after the fixed part.
IsShare(r, i) == Dynamic(r.type) /\ r.from = ShareStart(i) /\ r.to = ShareEnd(i)

\* r has what its decoder makes of its bytes, and the elements of a slice have a
\* size and an alignment.
HasValue(r) ==
  /\ r.value = IF Dynamic(r.type) \/ r.to > data_len THEN <<>>
               ELSE Decoded(r.type, SubSeq(data, r.from + 1, r.to))
  /\ r.type = "RefSlice" => ElementSize(r) \in Nat \ {0} /\ Alignment(r) \in Nat \ {0}

\* Two regions of the fixed part without a common byte, two shares, or one of each.
Apart(r, s) ==
  \/ Dynamic(r.type) /\ ~Dynamic(s.type)
  \/ ~Dynamic(r.type) /\ Dynamic(s.type)
  \/ ~Dynamic(r.type) /\ ~Dynamic(s.type) /\ (r.to <= s.from \/ s.to <= r.from)
  \/ \E i, j \in Nat : i # j /\ IsShare(r, i) /\ IsShare(s, j)

\* The regions rs are those of the bytes a..(b - 1) and of the shares c..(d - 1).
Covers(rs, a, b, c, d) ==
  /\ a \in Nat /\ b \in Nat /\ c \in Nat /\ d \in Nat /\ a <= b /\ c <= d
  /\ \A n \in 1..Len(rs) :
       /\ HasValue(rs[n])
       /\ FixedIn(rs[n], a, b) \/ \E i \in c..(d - 1) : IsShare(rs[n], i)
  /\ \A x \in a..(b - 1) : \E n \in 1..Len(rs) : FixedIn(rs[n], a, b) /\ x \in Bytes(rs[n])
  /\ \A i \in c..(d - 1) : \E n \in 1..Len(rs) : IsShare(rs[n], i)
  /\ \A m, n \in 1..Len(rs) : m # n => Apart(rs[m], rs[n])

\* The elements of two sequences, one after the other.
LEMMA Concatenated ==
  ASSUME NEW S, NEW p \in Seq(S), NEW q \in Seq(S)
  PROVE  /\ p \o q \in Seq(S) /\ Len(p \o q) = Len(p) + Len(q)
         /\ \A n \in 1..Len(p) : n \in 1..Len(p \o q) /\ (p \o q)[n] = p[n]
         /\ \A n \in 1..Len(q) : Len(p) + n \in 1..Len(p \o q) /\ (p \o q)[Len(p) + n] = q[n]
         /\ \A n \in 1..Len(p \o q) :
              \/ n \in 1..Len(p) /\ (p \o q)[n] = p[n]
              \/ n - Len(p) \in 1..Len(q) /\ (p \o q)[n] = q[n - Len(p)]
  OBVIOUS

\* No region is both of the fixed part and a share.
LEMMA FixedNotDynamic ==
  ASSUME NEW r, NEW a, NEW b, FixedIn(r, a, b)
  PROVE  ~Dynamic(r.type) /\ r.from \in Nat /\ r.to \in Nat /\ r.from <= r.to
  BY DEF FixedIn, Dynamic, DecoderReads

\* A region in a part of the fixed bytes is in every larger part.
LEMMA FixedInWider ==
  ASSUME NEW r, NEW a \in Nat, NEW b \in Nat, NEW u \in Nat, NEW v \in Nat,
         u <= a, b <= v, FixedIn(r, a, b)
  PROVE  FixedIn(r, u, v)
<1>1. r.from \in Nat /\ r.to \in Nat
  BY FixedNotDynamic
<1> QED
  BY <1>1 DEF FixedIn

\* What is cut at b and at d can be put together.
LEMMA CoversConcatenated ==
  ASSUME NEW S, NEW p \in Seq(S), NEW q \in Seq(S), NEW a, NEW b, NEW c, NEW d, NEW e, NEW g,
         Covers(p, a, b, c, d), Covers(q, b, e, d, g)
  PROVE  Covers(p \o q, a, e, c, g)
<1> DEFINE rs == p \o q
           N == 1..Len(rs)
<1>1. /\ a \in Nat /\ b \in Nat /\ c \in Nat /\ d \in Nat /\ e \in Nat /\ g \in Nat
      /\ a <= b /\ b <= e /\ c <= d /\ d <= g
  BY DEF Covers
<1>2. /\ Len(p) \in Nat /\ Len(q) \in Nat /\ Len(rs) = Len(p) + Len(q)
      /\ \A n \in 1..Len(p) : n \in N /\ rs[n] = p[n]
      /\ \A n \in 1..Len(q) : Len(p) + n \in N /\ rs[Len(p) + n] = q[n]
  BY Concatenated
<1>3. \A n \in N : \/ n \in 1..Len(p) /\ rs[n] = p[n]
                   \/ n - Len(p) \in 1..Len(q) /\ rs[n] = q[n - Len(p)]
  BY Concatenated
<1> HIDE DEF rs, N
<1>4. ASSUME NEW n \in 1..Len(p)
      PROVE  /\ HasValue(p[n])
             /\ FixedIn(p[n], a, b) \/ \E i \in c..(d - 1) : IsShare(p[n], i)
  BY DEF Covers
<1>5. ASSUME NEW n \in 1..Len(q)
      PROVE  /\ HasValue(q[n])
             /\ FixedIn(q[n], b, e) \/ \E i \in d..(g - 1) : IsShare(q[n], i)
  BY DEF Covers
<1>6. ASSUME NEW n \in N
      PROVE  /\ HasValue(rs[n])
             /\ FixedIn(rs[n], a, e) \/ \E i \in c..(g - 1) : IsShare(rs[n], i)
  <2>1. CASE n \in 1..Len(p) /\ rs[n] = p[n]
    <3>1. FixedIn(p[n], a, b) => FixedIn(p[n], a, e)
      BY <1>1, FixedInWider
    <3>2. \A i \in c..(d - 1) : i \in c..(g - 1)
      BY <1>1
    <3> QED
      BY <1>4, <2>1, <3>1, <3>2
  <2>2. CASE n - Len(p) \in 1..Len(q) /\ rs[n] = q[n - Len(p)]
    <3>1. FixedIn(rs[n], b, e) => FixedIn(rs[n], a, e)
      BY <1>1, FixedInWider
    <3>2. \A i \in d..(g - 1) : i \in c..(g - 1)
      BY <1>1
    <3> QED
      BY <1>5, <2>2, <3>1, <3>2
  <2> QED
    BY <1>3, <2>1, <2>2
<1>7. ASSUME NEW x \in a..(e - 1)
      PROVE  \E n \in N : FixedIn(rs[n], a, e) /\ x \in Bytes(rs[n])
  <2>1. CASE x < b
    <3>1. x \in a..(b - 1)
      BY <1>1, <2>1
    <3>2. PICK n \in 1..Len(p) : FixedIn(p[n], a, b) /\ x \in Bytes(p[n])
      BY <3>1 DEF Covers
    <3>3. FixedIn(p[n], a, e)
      BY <1>1, <3>2, FixedInWider
    <3> QED
      BY <1>2, <3>2, <3>3
  <2>2. CASE x >= b
    <3>1. x \in b..(e - 1)
      BY <1>1, <2>2
    <3>2. PICK n \in 1..Len(q) : FixedIn(q[n], b, e) /\ x \in Bytes(q[n])
      BY <3>1 DEF Covers
    <3>3. FixedIn(q[n], a, e)
      BY <1>1, <3>2, FixedInWider
    <3> QED
      BY <1>2, <3>2, <3>3
  <2> QED
    BY <1>1, <2>1, <2>2
<1>8. ASSUME NEW i \in c..(g - 1) PROVE \E n \in N : IsShare(rs[n], i)
  <2>1. CASE i < d
    <3>1. i \in c..(d - 1)
      BY <1>1, <2>1
    <3>2. PICK n \in 1..Len(p) : IsShare(p[n], i)
      BY <3>1 DEF Covers
    <3> QED
      BY <1>2, <3>2
  <2>2. CASE i >= d
    <3>1. i \in d..(g - 1)
      BY <1>1, <2>2
    <3>2. PICK n \in 1..Len(q) : IsShare(q[n], i)
      BY <3>1 DEF Covers
    <3> QED
      BY <1>2, <3>2
  <2> QED
    BY <1>1, <2>1, <2>2
<1>9. ASSUME NEW m \in 1..Len(p), NEW n \in 1..Len(q) PROVE Apart(p[m], q[n]) /\ Apart(q[n], p[m])
  <2>1. CASE FixedIn(p[m], a, b) /\ FixedIn(q[n], b, e)
    <3>1. ~Dynamic(p[m].type) /\ ~Dynamic(q[n].type) /\ p[m].to \in Nat /\ q[n].from \in Nat
      BY <2>1, FixedNotDynamic
    <3>2. p[m].to <= b /\ b <= q[n].from
      BY <2>1 DEF FixedIn
    <3>3. p[m].to <= q[n].from
      BY <1>1, <3>1, <3>2
    <3> QED
      BY <3>1, <3>3 DEF Apart
  <2>2. CASE FixedIn(p[m], a, b) /\ \E i \in d..(g - 1) : IsShare(q[n], i)
    <3>1. ~Dynamic(p[m].type) /\ Dynamic(q[n].type)
      BY <2>2, FixedNotDynamic DEF IsShare
    <3> QED
      BY <3>1 DEF Apart
  <2>3. CASE FixedIn(q[n], b, e) /\ \E i \in c..(d - 1) : IsShare(p[m], i)
    <3>1. ~Dynamic(q[n].type) /\ Dynamic(p[m].type)
      BY <2>3, FixedNotDynamic DEF IsShare
    <3> QED
      BY <3>1 DEF Apart
  <2>4. ASSUME NEW i \in c..(d - 1), NEW j \in d..(g - 1), IsShare(p[m], i), IsShare(q[n], j)
        PROVE  Apart(p[m], q[n]) /\ Apart(q[n], p[m])
    <3>1. i \in Nat /\ j \in Nat /\ i # j
      BY <1>1
    <3> QED
      BY <2>4, <3>1 DEF Apart
  <2> QED
    BY <1>4, <1>5, <2>1, <2>2, <2>3, <2>4
<1>10. ASSUME NEW m \in N, NEW n \in N, m # n PROVE Apart(rs[m], rs[n])
  <2>1. CASE m \in 1..Len(p) /\ rs[m] = p[m] /\ n \in 1..Len(p) /\ rs[n] = p[n]
    BY <1>10, <2>1 DEF Covers
  <2>2. CASE m \in 1..Len(p) /\ rs[m] = p[m] /\ n - Len(p) \in 1..Len(q) /\ rs[n] = q[n - Len(p)]
    BY <1>9, <2>2
  <2>3. CASE n \in 1..Len(p) /\ rs[n] = p[n] /\ m - Len(p) \in 1..Len(q) /\ rs[m] = q[m - Len(p)]
    BY <1>9, <2>3
  <2>4. CASE /\ m - Len(p) \in 1..Len(q) /\ rs[m] = q[m - Len(p)]
             /\ n - Len(p) \in 1..Len(q) /\ rs[n] = q[n - Len(p)]
    <3>1. m - Len(p) # n - Len(p)
      BY <1>2, <1>10 DEF N
    <3> QED
      BY <2>4, <3>1 DEF Covers
  <2> QED
    BY <1>3, <2>1, <2>2, <2>3, <2>4
<1>11. Covers(rs, a, e, c, g)
  <2>1. a <= e /\ c <= g
    BY <1>1
  <2> QED
    BY <1>1, <1>6, <1>7, <1>8, <1>10, <2>1 DEF Covers, N
<1> QED
  BY <1>11 DEF rs

\* In a variable that is_fun_satisfied adds, nothing in a slice is of dynamic length.
LEMMA SliceElements ==
  ASSUME NEW ft \in Fuzzable, ~IsMultipleDynamicLength(ft), NEW k \in 1..Len(ft), ft[k] = "RefSlice"
  PROVE  \A m \in (k + 1)..Len(ft) : ~Dynamic(ft[m])
<1> DEFINE n == Len(ft)
           S == {x \in Nat : x \in 1..n /\ ft[x] = "RefSlice"}
<1>1. n \in Nat /\ DOMAIN ft = 1..n /\ ft \in Seq(FuzzableNames)
  BY FuzzableShape DEF Fuzzable
<1>2. S \in SUBSET Nat /\ k \in S
  BY <1>1
<1>3. PICK d \in S : \A y \in S : d <= y
  BY <1>2, LeastNumber
<1>4. d \in 1..n /\ ft[d] = "RefSlice" /\ d <= k
  BY <1>2, <1>3
<1>5. d + 1 \in 1..n
  BY <1>4, FuzzableShape
<1>6. \A m \in 1..(d - 1) : ft[m] = "Tuple"
  <2> SUFFICES ASSUME NEW m \in 1..(d - 1) PROVE ft[m] = "Tuple"
    OBVIOUS
  <2>1. m \in 1..n /\ m # n /\ m \in Nat /\ ~(d <= m)
    <3>1. m \in 1..(d - 1) /\ d \in 1..n /\ n \in Nat
      BY <1>1, <1>4
    <3> HIDE DEF n
    <3> QED
      BY <3>1
  <2>2. m \notin S
    BY <1>3, <2>1
  <2> QED
    BY <2>1, <2>2, FuzzableShape
<1>7. IsFixedLength(Suffix(ft, d + 1))
  BY <1>1, <1>4, <1>6 DEF IsMultipleDynamicLength
<1>8. SUFFICES ASSUME NEW m \in (k + 1)..n PROVE ~Dynamic(ft[m])
  OBVIOUS
<1>9. /\ Suffix(ft, d + 1) \in Seq(FuzzableNames) /\ Len(Suffix(ft, d + 1)) = n - d
      /\ \A i \in 1..(n - d) : Suffix(ft, d + 1)[i] = ft[d + i]
  BY <1>1, <1>4, <1>5 DEF Suffix
<1>10. m - d \in 1..(n - d) /\ d + (m - d) = m
  BY <1>1, <1>4, <1>8
<1>11. m - d \in DOMAIN Suffix(ft, d + 1) /\ Suffix(ft, d + 1)[m - d] = ft[m]
  <2>1. DOMAIN Suffix(ft, d + 1) = 1..(n - d)
    BY <1>9
  <2> QED
    BY <1>9, <1>10, <2>1
<1> QED
  BY <1>7, <1>11 DEF IsFixedLength, Dynamic

\* The elements of a slice have a size and an alignment.
LEMMA ElementSizes ==
  ASSUME NEW ft \in Fuzzable, ~IsMultipleDynamicLength(ft), NEW k \in 1..Len(ft),
         ft[k] = "RefSlice", NEW e, e = Suffix(ft, k + 1)
  PROVE  MinLength(e) \in Nat \ {0} /\ PrimLength(Last(e)) \in Nat \ {0}
<1> DEFINE n == Len(ft)
<1>1. /\ n \in Nat /\ ft \in Seq(FuzzableNames) /\ k + 1 \in 1..n
      /\ \A i \in 1..(n - 1) : ft[i] \in {"Tuple", "RefSlice"}
      /\ ft[n] \in {"u8", "u16", "i32", "char", "bool", "RefStr"}
  BY FuzzableShape DEF Fuzzable
<1>2. /\ e \in Seq(FuzzableNames) /\ Len(e) = n - k /\ Len(e) # 0 /\ Len(e) \in Nat
      /\ \A i \in 1..(n - k) : e[i] = ft[k + i]
  BY <1>1 DEF Suffix
<1>3. e[Len(e)] = ft[n]
  <2>1. n - k \in 1..(n - k) /\ k + (n - k) = n
    BY <1>1, <1>2
  <2> QED
    BY <1>2, <2>1
<1>4. e \in Fuzzable
  <2>1. ASSUME NEW i \in 1..(Len(e) - 1) PROVE e[i] \in {"Tuple", "RefSlice"}
    <3>1. k + i \in 1..(n - 1) /\ i \in 1..(n - k)
      BY <1>1, <1>2
    <3> QED
      BY <1>1, <1>2, <3>1
  <2>2. e # <<>>
    BY <1>2
  <2> QED
    BY <1>1, <1>2, <1>3, <2>1, <2>2 DEF Fuzzable
<1>5. 1 \in 1..Len(e)
  BY <1>2
<1>6. MinLengths(e)[1] \in Nat /\ MinLengths(e)[1] >= 1
  BY <1>4, <1>5, MinLengthsUnfold, MinLengthsSuffice
<1>7. ~Dynamic(ft[n])
  BY <1>1, SliceElements
<1>8. PrimLength(ft[n]) \in {1, 2, 4}
  BY <1>1, <1>7 DEF Dynamic, PrimLength
<1> QED
  BY <1>3, <1>6, <1>8 DEF MinLength, Last

\* The region of what is no tuple.
LEMMA OneRegionCovers ==
  ASSUME NEW ft \in Fuzzable, ~IsMultipleDynamicLength(ft), NEW k \in 1..Len(ft), ft[k] # "Tuple", NEW at \in Nat \X Nat
  PROVE  Covers(<<WithValue(ft, k, Region(ft[k], at[1], at[2]))>>,
                at[1], at[1] + FixedPartLengths(ft)[k],
                at[2], at[2] + DynamicLengthParamNumbers(ft)[k])
<1> DEFINE c == ft[k]
           r == WithValue(ft, k, Region(c, at[1], at[2]))
           rs == <<r>>
           fixed == FixedPartLengths(ft)[k]
           number == DynamicLengthParamNumbers(ft)[k]
<1>1. fixed = (IF Dynamic(c) THEN 0 ELSE PrimLength(c)) /\ number = IF Dynamic(c) THEN 1 ELSE 0
  BY FixedPartLengthsUnfold, DynamicLengthParamNumbersUnfold
<1>2. c \in {"u8", "u16", "i32", "char", "bool"} \/ Dynamic(c)
  BY FuzzableShape DEF Dynamic
<1>3. at[1] \in Nat /\ at[2] \in Nat
  OBVIOUS
<1>4. r.type = c /\ r.from = Region(c, at[1], at[2]).from /\ r.to = Region(c, at[1], at[2]).to
  BY DEF WithValue
<1>5. HasValue(r)
  <2>1. c = "RefSlice" => r.element = Suffix(ft, k + 1)
    BY DEF WithValue
  <2>2. r.value = IF Dynamic(c) \/ r.to > data_len THEN <<>>
                  ELSE Decoded(c, SubSeq(data, r.from + 1, r.to))
    BY DEF WithValue
  <2> HIDE DEF r
  <2>3. c = "RefSlice" => ElementSize(r) \in Nat \ {0} /\ Alignment(r) \in Nat \ {0}
    BY <2>1, ElementSizes DEF ElementSize, Alignment
  <2> QED
    BY <1>4, <2>2, <2>3 DEF HasValue
<1>6. Len(rs) = 1 /\ rs[1] = r
  OBVIOUS
<1> HIDE DEF c, r, rs, fixed, number
<1>7. CASE Dynamic(c)
  <2>1. IsShare(r, at[2])
    BY <1>4, <1>7 DEF Region, IsShare, ShareEnd
  <2>2. fixed = 0 /\ number = 1
    BY <1>1, <1>7
  <2>3. at[2]..((at[2] + number) - 1) = {at[2]} /\ at[1]..((at[1] + fixed) - 1) = {}
    BY <1>3, <2>2
  <2> QED
    BY <1>3, <1>5, <1>6, <2>1, <2>2, <2>3 DEF Covers, c, r, rs, fixed, number
<1>8. CASE ~Dynamic(c)
  <2>1. r.from = at[1] /\ r.to = at[1] + DecoderReads(c)
    BY <1>4, <1>8 DEF Region
  <2>2. DecoderReads(c) = PrimLength(c) /\ PrimLength(c) \in Nat
    BY <1>2, <1>8 DEF DecoderReads, PrimLength
  <2>3. fixed = DecoderReads(c) /\ fixed \in Nat /\ number = 0
    BY <1>1, <1>8, <2>2
  <2>4. FixedIn(r, at[1], at[1] + fixed)
    BY <1>2, <1>3, <1>4, <1>8, <2>1, <2>3 DEF FixedIn
  <2>5. at[2]..((at[2] + number) - 1) = {} /\ at[1] + fixed \in Nat /\ at[1] <= at[1] + fixed
    BY <1>3, <2>3
  <2>6. Bytes(r) = at[1]..((at[1] + fixed) - 1)
    BY <2>1, <2>3 DEF Bytes
  <2> QED
    BY <1>3, <1>5, <1>6, <2>3, <2>4, <2>5, <2>6 DEF Covers, c, r, rs, fixed, number
<1> QED
  BY <1>7, <1>8

\* The regions of a variable: as many bytes of the fixed part as it has, and as
\* many shares, from where it starts.
LEMMA RegionsCover ==
  ASSUME NEW ft \in Fuzzable, ~IsMultipleDynamicLength(ft)
  PROVE  \A k \in 1..Len(ft) : \A at \in Nat \X Nat :
           Covers(RegionsOf(ft)[k][at], at[1], at[1] + FixedPartLengths(ft)[k],
                  at[2], at[2] + DynamicLengthParamNumbers(ft)[k])
<1> DEFINE n == Len(ft)
           fixed == FixedPartLengths(ft)
           number == DynamicLengthParamNumbers(ft)
           of == RegionsOf(ft)
           Good(k) == \A at \in Nat \X Nat :
                        Covers(of[k][at], at[1], at[1] + fixed[k], at[2], at[2] + number[k])
           P == {k \in 1..n : Good(k)}
<1>1. ASSUME NEW k \in 1..n, k # n => k + 1 \in P PROVE Good(k)
  <2> SUFFICES ASSUME NEW at \in Nat \X Nat
               PROVE  Covers(of[k][at], at[1], at[1] + fixed[k], at[2], at[2] + number[k])
    OBVIOUS
  <2>1. of[k] = RegionsFrom(ft, of, k)
    BY RegionsOfUnfold
  <2>2. CASE ft[k] # "Tuple"
    <3>1. of[k][at] = <<WithValue(ft, k, Region(ft[k], at[1], at[2]))>>
      BY <2>1, <2>2 DEF RegionsFrom
    <3> QED
      BY <2>2, <3>1, OneRegionCovers
  <2>3. CASE ft[k] = "Tuple"
    <3> DEFINE second == <<at[1] + fixed[k + 1], at[2] + number[k + 1]>>
    <3>1. k + 1 \in 1..n /\ second \in Nat \X Nat /\ k # n
      <4>1. k + 1 \in 1..n /\ second \in Nat \X Nat
        BY <2>3, SecondComponent
      <4>2. n \in Nat
        BY FuzzableShape
      <4> HIDE DEF second, n
      <4> QED
        BY <4>1, <4>2
    <3>2. of[k][at] = of[k + 1][at] \o of[k + 1][second]
      BY <2>1, <2>3 DEF RegionsFrom
    <3>3. /\ fixed[k] = 2 * fixed[k + 1] /\ fixed[k + 1] \in Nat
          /\ number[k] = 2 * number[k + 1] /\ number[k + 1] \in Nat
      BY <2>3, <3>1, FixedPartLengthsUnfold, DynamicLengthParamNumbersUnfold
    <3>4. of[k + 1][at] \in Seq(RegionSet(ft)) /\ of[k + 1][second] \in Seq(RegionSet(ft))
      <4>1. of[k + 1] \in [Nat \X Nat -> Seq(RegionSet(ft))]
        BY <3>1, RegionsOfUnfold DEF RegionFunctions
      <4> HIDE DEF second, of
      <4> QED
        BY <3>1, <4>1
    <3>5. Good(k + 1)
      BY <1>1, <3>1
    <3>6. second[1] = at[1] + fixed[k + 1] /\ second[2] = at[2] + number[k + 1]
      OBVIOUS
    <3> HIDE DEF second, of, fixed, number
    <3>7. Covers(of[k + 1][at], at[1], second[1], at[2], second[2])
      BY <3>5, <3>6
    <3>8. Covers(of[k + 1][second], second[1], second[1] + fixed[k + 1],
                 second[2], second[2] + number[k + 1])
      BY <3>1, <3>5
    <3>9. Covers(of[k][at], at[1], second[1] + fixed[k + 1], at[2], second[2] + number[k + 1])
      BY <3>2, <3>4, <3>7, <3>8, CoversConcatenated
    <3>10. second[1] + fixed[k + 1] = at[1] + fixed[k] /\ second[2] + number[k + 1] = at[2] + number[k]
      BY <3>3, <3>6
    <3> QED
      BY <3>9, <3>10
  <2> QED
    BY <2>2, <2>3
<1>2. P = 1..n
  <2>1. P \subseteq 1..n /\ n \in Nat
    BY FuzzableShape
  <2>2. \A k \in 1..n : (k # n => k + 1 \in P) => k \in P
    BY <1>1
  <2> HIDE DEF P, n
  <2> QED
    BY <2>1, <2>2, InwardInduction DEF Inward
<1> QED
  BY <1>2

-----------------------------------------------------------------------------
(* The input is long enough *)

\* More shares are at least as long.
LEMMA TimesMonotone ==
  ASSUME NEW i \in Nat, NEW j \in Nat, i <= j, NEW m \in Nat
  PROVE  i * m \in Nat /\ j * m \in Nat /\ i * m <= j * m
  OBVIOUS

\* One more share is one share longer.
LEMMA TimesNext ==
  ASSUME NEW i \in Nat, NEW m \in Nat
  PROVE  (i + 1) * m = i * m + m /\ i * m \in Nat
  OBVIOUS

\* Shares start in their order.
LEMMA OffsetsOrdered ==
  ASSUME NEW f \in Nat, NEW u \in Nat, NEW v \in Nat, NEW w \in Nat, NEW l \in Nat,
         NEW q \in Nat, v = u + q, v <= w, f + w <= l
  PROVE  /\ f + v <= l /\ f + v \in Nat /\ f + u \in Nat
         /\ f + u <= f + v /\ f <= f + u /\ f + u <= l
  OBVIOUS

\* What the division of the bytes among the shares leaves over.
LEMMA Quotient ==
  ASSUME NEW n \in Nat, NEW m \in Nat, m # 0
  PROVE  /\ n \div m \in Nat /\ (n \div m) * m <= n /\ n < (n \div m) * m + m
         /\ m * (n \div m) <= n /\ (m <= n => n \div m >= 1)
  OBVIOUS

\* The lengths of the variables of a sequence.
LEMMA ParamLengths ==
  ASSUME NEW params \in Seq(Fuzzable)
  PROVE  /\ MinLengthsOf(params) \in Seq(Nat) /\ Len(MinLengthsOf(params)) = Len(params)
         /\ FixedPartsOf(params) \in Seq(Nat) /\ Len(FixedPartsOf(params)) = Len(params)
         /\ DynamicPartsOf(params) \in Seq(Nat) /\ Len(DynamicPartsOf(params)) = Len(params)
         /\ Len(params) \in Nat
<1>1. ASSUME NEW ft \in Fuzzable
      PROVE  MinLength(ft) \in Nat /\ FixedPartLength(ft) \in Nat /\ DynamicLengthParamNumber(ft) \in Nat
  <2>1. 1 \in 1..Len(ft)
    BY FuzzableShape
  <2>2. /\ MinLengths(ft) \in [1..Len(ft) -> Nat] /\ FixedPartLengths(ft) \in [1..Len(ft) -> Nat]
        /\ DynamicLengthParamNumbers(ft) \in [1..Len(ft) -> Nat]
    BY MinLengthsUnfold, FixedPartLengthsUnfold, DynamicLengthParamNumbersUnfold
  <2> QED
    BY <2>1, <2>2 DEF MinLength, FixedPartLength, DynamicLengthParamNumber
<1>2. /\ MinLengthsOf(params) = [n \in 1..Len(params) |-> MinLength(params[n])]
      /\ FixedPartsOf(params) = [n \in 1..Len(params) |-> FixedPartLength(params[n])]
      /\ DynamicPartsOf(params) = [n \in 1..Len(params) |-> DynamicLengthParamNumber(params[n])]
  BY DEF MinLengthsOf, FixedPartsOf, DynamicPartsOf
<1>3. Len(params) \in Nat /\ \A n \in 1..Len(params) : params[n] \in Fuzzable
  OBVIOUS
<1> QED
  BY <1>1, <1>2, <1>3

\* The totals of the lengths of the variables.
LEMMA TotalLengths ==
  ASSUME NEW params \in Seq(Fuzzable)
  PROVE  /\ Total(MinLengthsOf(params)) \in Nat /\ Total(FixedPartsOf(params)) \in Nat
         /\ Total(DynamicPartsOf(params)) \in Nat
         /\ Total(MinLengthsOf(params)) >=
              Total(FixedPartsOf(params)) + Total(DynamicPartsOf(params))
         /\ (\A n \in DOMAIN params : IsFixedLength(params[n])) =>
              /\ Total(MinLengthsOf(params)) = Total(FixedPartsOf(params))
              /\ Total(DynamicPartsOf(params)) = 0
         /\ ~(\A n \in DOMAIN params : IsFixedLength(params[n])) =>
              Total(DynamicPartsOf(params)) >= 1
<1> DEFINE min == MinLengthsOf(params)
           fixed == FixedPartsOf(params)
           number == DynamicPartsOf(params)
<1>1. /\ min \in Seq(Nat) /\ fixed \in Seq(Nat) /\ number \in Seq(Nat) /\ Len(params) \in Nat
      /\ Len(min) = Len(params) /\ Len(fixed) = Len(params) /\ Len(number) = Len(params)
  BY ParamLengths
<1>2. ASSUME NEW s \in Seq(Nat) PROVE Total(s) \in Nat
  <2>1. Totals(s) \in [0..Len(s) -> Nat] /\ Len(s) \in 0..Len(s)
    BY TotalsUnfold
  <2> QED
    BY <2>1 DEF Total
<1>3. /\ min = [n \in DOMAIN params |-> MinLength(params[n])]
      /\ fixed = [n \in DOMAIN params |-> FixedPartLength(params[n])]
      /\ number = [n \in DOMAIN params |-> DynamicLengthParamNumber(params[n])]
      /\ DOMAIN params = 1..Len(params)
  BY DEF MinLengthsOf, FixedPartsOf, DynamicPartsOf
<1>4. \A n \in 1..Len(params) : params[n] \in Fuzzable /\ 1 \in 1..Len(params[n])
  BY FuzzableShape
<1> HIDE DEF min, fixed, number
<1>5. \A n \in 1..Len(min) : min[n] >= fixed[n] + number[n]
  <2> SUFFICES ASSUME NEW n \in 1..Len(params) PROVE min[n] >= fixed[n] + number[n]
    BY <1>1
  <2>1. MinLength(params[n]) >= FixedPartLength(params[n]) + DynamicLengthParamNumber(params[n])
    BY <1>4, MinLengthsSuffice DEF MinLength, FixedPartLength, DynamicLengthParamNumber
  <2> QED
    BY <1>3, <2>1
<1>6. Total(min) >= Total(fixed) + Total(number)
  BY <1>1, <1>5, TotalsAdd
<1>7. ASSUME \A n \in DOMAIN params : IsFixedLength(params[n])
      PROVE  Total(min) = Total(fixed) /\ Total(number) = 0
  <2>1. \A n \in 1..Len(params) :
          /\ MinLength(params[n]) = FixedPartLength(params[n])
          /\ DynamicLengthParamNumber(params[n]) = 0
    BY <1>3, <1>4, <1>7, FixedLengthsExact DEF MinLength, FixedPartLength, DynamicLengthParamNumber
  <2>2. min = fixed
    BY <1>3, <2>1
  <2>3. \A n \in 1..Len(number) : number[n] = 0
    BY <1>1, <1>3, <2>1
  <2> QED
    BY <1>1, <2>2, <2>3, TotalZero
<1>8. ASSUME NEW n \in DOMAIN params, ~IsFixedLength(params[n]) PROVE Total(number) >= 1
  <2>1. n \in 1..Len(number) /\ number[n] = DynamicLengthParamNumber(params[n])
    BY <1>1, <1>3
  <2>2. number[n] >= 1 /\ number[n] \in Nat
    BY <1>1, <1>3, <1>4, <1>8, <2>1, DynamicPartExists
  <2>3. Total(number) >= number[n] /\ Total(number) \in Nat
    BY <1>1, <1>2, <2>1, TotalAtLeast
  <2> QED
    BY <2>2, <2>3
<1> QED
  BY <1>1, <1>2, <1>6, <1>7, <1>8 DEF min, fixed, number

\* An input of accepted length has the bytes of the fixed part, and at least one
\* for every share of the rest; without shares there is no rest.
LEMMA InputFits ==
  ASSUME fuzzable_params \in Seq(Fuzzable), data \in Seq(0..255), Accepts(data_len)
  PROVE  /\ FuzzableFixedPartLength \in Nat /\ TotalDynamicParams \in Nat /\ data_len \in Nat
         /\ FuzzableFixedPartLength <= data_len
         /\ TotalDynamicParams = 0 => FuzzableFixedPartLength = data_len
         /\ TotalDynamicParams # 0 =>
              /\ DynamicLength \in Nat /\ DynamicLength >= 1
              /\ FuzzableFixedPartLength + TotalDynamicParams * DynamicLength <= data_len
<1> DEFINE F == FuzzableFixedPartLength
           N == TotalDynamicParams
           L == data_len
           M == FuzzablesMinLength
<1>1. F \in Nat /\ N \in Nat /\ M \in Nat /\ M >= F + N
  BY TotalLengths DEF FuzzableFixedPartLength, TotalDynamicParams, FuzzablesMinLength
<1>2. IsFuzzablesFixedLength => M = F /\ N = 0
  BY TotalLengths DEF FuzzableFixedPartLength, TotalDynamicParams, FuzzablesMinLength, IsFuzzablesFixedLength
<1>3. ~IsFuzzablesFixedLength => N >= 1
  BY TotalLengths DEF TotalDynamicParams, IsFuzzablesFixedLength
<1>4. L \in Nat
  BY DEF data_len
<1>5. IF IsFuzzablesFixedLength THEN L = M ELSE L >= M
  BY DEF Accepts
<1>6. DynamicLength = (L - F) \div N
  BY DEF DynamicLength
<1> HIDE DEF F, N, L, M
<1>7. F <= L /\ (N = 0 => F = L) /\ (N # 0 => L - F \in Nat /\ N <= L - F)
  BY <1>1, <1>2, <1>3, <1>4, <1>5
<1>8. ASSUME N # 0
      PROVE  DynamicLength \in Nat /\ DynamicLength >= 1 /\ F + N * DynamicLength <= L
  <2> DEFINE Q == (L - F) \div N
  <2>1. Q \in Nat /\ N * Q <= L - F /\ Q >= 1
    BY <1>1, <1>7, <1>8, Quotient
  <2> HIDE DEF Q
  <2>2. N * Q \in Nat
    BY <1>1, <2>1
  <2>3. F + N * Q <= L
    BY <1>1, <1>4, <2>1, <2>2
  <2> QED
    BY <1>6, <2>1, <2>3 DEF Q
<1> QED
  BY <1>1, <1>4, <1>7, <1>8 DEF F, N, L

\* The shares follow each other within the rest of the input.
LEMMA SharesFit ==
  ASSUME fuzzable_params \in Seq(Fuzzable), data \in Seq(0..255), Accepts(data_len),
         NEW i \in Nat, i < TotalDynamicParams
  PROVE  /\ ShareStart(i) \in Nat /\ ShareEnd(i) \in Nat
         /\ FuzzableFixedPartLength <= ShareStart(i)
         /\ ShareStart(i) <= ShareEnd(i) /\ ShareEnd(i) <= data_len
         /\ \A j \in Nat : i < j /\ j < TotalDynamicParams => ShareEnd(i) <= ShareStart(j)
<1> DEFINE F == FuzzableFixedPartLength
           N == TotalDynamicParams
           L == data_len
           Q == DynamicLength
<1>1. /\ F \in Nat /\ N \in Nat /\ L \in Nat /\ N # 0 /\ i < N
      /\ Q \in Nat /\ F + N * Q <= L
  <2>1. N \in Nat /\ N # 0
    BY InputFits
  <2> QED
    BY <2>1, InputFits
<1>2. \A j \in Nat : ShareStart(j) = F + j * Q
  BY DEF ShareStart
<1>3. ShareEnd(i) = IF i = N - 1 THEN L ELSE ShareStart(i + 1)
  BY DEF ShareEnd
<1> HIDE DEF F, N, L, Q
<1>4. i * Q \in Nat /\ (i + 1) * Q = i * Q + Q
  BY <1>1, TimesNext
<1>5. (i + 1) * Q \in Nat /\ N * Q \in Nat /\ (i + 1) * Q <= N * Q
  BY <1>1, TimesMonotone
<1>6. ShareStart(i + 1) = F + (i + 1) * Q /\ ShareStart(i) = F + i * Q
  BY <1>2
<1>7. /\ F + (i + 1) * Q <= L /\ F + (i + 1) * Q \in Nat /\ F + i * Q \in Nat
      /\ F + i * Q <= F + (i + 1) * Q /\ F <= F + i * Q /\ F + i * Q <= L
  BY <1>1, <1>4, <1>5, OffsetsOrdered
<1>8. ASSUME NEW j \in Nat, i < j, j < N PROVE ShareEnd(i) <= ShareStart(j)
  <2>1. i # N - 1 /\ i + 1 <= j
    BY <1>1, <1>8
  <2>2. (i + 1) * Q <= j * Q /\ j * Q \in Nat
    BY <1>1, <2>1, TimesMonotone
  <2>3. F + (i + 1) * Q <= F + j * Q
    BY <1>1, <1>5, <2>2
  <2> QED
    BY <1>2, <1>3, <1>6, <2>1, <2>3
<1> QED
  <2>1. ShareStart(i) \in Nat /\ F <= ShareStart(i)
    BY <1>6, <1>7
  <2>2. ShareEnd(i) \in Nat /\ ShareStart(i) <= ShareEnd(i) /\ ShareEnd(i) <= L
    <3>1. L <= L
      BY <1>1
    <3> QED
      BY <1>1, <1>3, <1>6, <1>7, <3>1, Zenon
  <2> QED
    BY <1>8, <2>1, <2>2 DEF F, N, L

\* Every byte of the rest is one of a share.
LEMMA ShareOfByte ==
  ASSUME fuzzable_params \in Seq(Fuzzable), data \in Seq(0..255), Accepts(data_len),
         NEW x \in Nat, FuzzableFixedPartLength <= x, x < data_len
  PROVE  \E i \in 0..(TotalDynamicParams - 1) : ShareStart(i) <= x /\ x < ShareEnd(i)
<1> DEFINE F == FuzzableFixedPartLength
           N == TotalDynamicParams
           L == data_len
           Q == DynamicLength
           q == (x - F) \div Q
<1>1. F \in Nat /\ N \in Nat /\ L \in Nat /\ F <= x /\ x < L /\ (N = 0 => F = L)
  BY InputFits
<1>2. N # 0 /\ Q \in Nat /\ Q # 0
  <2>1. N # 0
    BY <1>1
  <2>2. Q \in Nat /\ Q >= 1
    BY <2>1, InputFits
  <2> QED
    BY <2>1, <2>2
<1>3. \A j \in Nat : ShareStart(j) = F + j * Q
  BY DEF ShareStart
<1>4. \A j \in Nat : ShareEnd(j) = IF j = N - 1 THEN L ELSE ShareStart(j + 1)
  BY DEF ShareEnd
<1> HIDE DEF F, N, L, Q
<1>5. x - F \in Nat
  BY <1>1
<1>6. q \in Nat /\ q * Q <= x - F /\ x - F < q * Q + Q
  BY <1>2, <1>5, Quotient
<1> HIDE DEF q
<1>7. CASE q < N - 1
  <2>1. q * Q \in Nat /\ (q + 1) * Q = q * Q + Q
    BY <1>2, <1>6, TimesNext
  <2>2. ShareStart(q) = F + q * Q /\ ShareEnd(q) = F + (q + 1) * Q
    BY <1>1, <1>3, <1>4, <1>6, <1>7
  <2>3. ShareStart(q) <= x /\ x < ShareEnd(q)
    BY <1>1, <1>2, <1>6, <2>1, <2>2
  <2>4. q \in 0..(N - 1)
    BY <1>1, <1>6, <1>7
  <2> QED
    BY <2>3, <2>4 DEF N
<1>8. CASE ~(q < N - 1)
  <2>1. N - 1 \in Nat /\ N - 1 <= q
    BY <1>1, <1>2, <1>6, <1>8
  <2>2. (N - 1) * Q <= q * Q /\ (N - 1) * Q \in Nat /\ q * Q \in Nat
    BY <1>2, <1>6, <2>1, TimesMonotone
  <2>3. ShareStart(N - 1) = F + (N - 1) * Q /\ ShareEnd(N - 1) = L
    BY <1>3, <1>4, <2>1
  <2>4. ShareStart(N - 1) <= x /\ x < ShareEnd(N - 1)
    BY <1>1, <1>6, <2>2, <2>3
  <2>5. N - 1 \in 0..(N - 1)
    BY <2>1
  <2> QED
    BY <2>4, <2>5 DEF N
<1> QED
  BY <1>7, <1>8

-----------------------------------------------------------------------------
(* The inductive invariant *)

\* The variables that is_fun_satisfied adds.
Addable == {ft \in Decodable : ~IsMultipleDynamicLength(ft)}

\* The input is being decoded, or was.
Fed == pc \in {"decode", "exited", "called"}

\* The types of the variables.
LTypeOK ==
  /\ pc \in {"generate", "rejected", "decode", "returned", "exited", "called"}
  /\ fuzzable_params \in Seq(Addable)
  /\ data \in Seq(0..255)
  /\ address \in Nat
  /\ next \in 1..(Len(fuzzable_params) + 1)
  /\ regions \in Seq(Range(regions))

\* The variables before next are decoded: fixed_start_index and
\* dynamic_param_index are the totals of their lengths, and regions has their
\* bytes and shares.
LInv ==
  /\ LTypeOK
  /\ ~Fed => regions = <<>> /\ next = 1 /\ fixed_start_index = 0 /\ dynamic_param_index = 0
  /\ Fed => /\ fuzzable_params \in Seq(Fuzzable)
            /\ Accepts(data_len)
            /\ fixed_start_index = Totals(FixedPartsOf(fuzzable_params))[next - 1]
            /\ dynamic_param_index = Totals(DynamicPartsOf(fuzzable_params))[next - 1]
  /\ pc = "called" => next = Len(fuzzable_params) + 1
  /\ Covers(regions, 0, fixed_start_index, 0, dynamic_param_index)

\* The elements of a sequence are in its set.
LEMMA ElementOfSequence ==
  ASSUME NEW S, NEW s \in Seq(S), NEW k \in 1..Len(s)
  PROVE  s[k] \in S
  OBVIOUS

\* A sequence is one of its own elements, and stays one with others appended.
LEMMA SequenceOfOwn ==
  ASSUME NEW S, NEW s \in Seq(S)
  PROVE  s \in Seq(Range(s))
  BY DEF Range

\* What appending an element keeps and adds.
LEMMA AppendedOwn ==
  ASSUME NEW p, NEW S, NEW q \in Seq(S), p \in Seq(Range(p))
  PROVE  /\ p \in Seq(Range(p) \cup S) /\ q \in Seq(Range(p) \cup S)
         /\ p \o q \in Seq(Range(p \o q))
<1>1. p \in Seq(Range(p) \cup S) /\ q \in Seq(Range(p) \cup S)
  <2> DEFINE R == Range(p)
  <2>1. p \in Seq(R)
    OBVIOUS
  <2> HIDE DEF R
  <2>2. p \in Seq(R \cup S) /\ q \in Seq(R \cup S)
    BY <2>1
  <2> QED
    BY <2>2 DEF R
<1>2. p \o q \in Seq(Range(p) \cup S)
  BY <1>1, Concatenated
<1> QED
  BY <1>1, <1>2, SequenceOfOwn

\* A step that leaves the variables and the input alone leaves the meaning of
\* Covers alone.
LEMMA CoversUnchanged ==
  ASSUME UNCHANGED <<fuzzable_params, data>>, NEW rs, NEW a, NEW b, NEW c, NEW d,
         Covers(rs, a, b, c, d)
  PROVE  Covers(rs, a, b, c, d)'
<1>1. \A i : ShareStart(i)' = ShareStart(i) /\ ShareEnd(i)' = ShareEnd(i)
  BY DEF ShareStart, ShareEnd, DynamicLength, TotalDynamicParams, FuzzableFixedPartLength, data_len
<1>2. \A r : HasValue(r)' <=> HasValue(r)
  BY DEF HasValue, data_len, ElementSize, Alignment
<1>3. \A r, i : IsShare(r, i)' <=> IsShare(r, i)
  BY <1>1 DEF IsShare
<1>4. \A r, s : Apart(r, s)' <=> Apart(r, s)
  BY <1>3 DEF Apart
<1> QED
  BY <1>2, <1>3, <1>4 DEF Covers

\* An accepted length stays accepted.
LEMMA AcceptsUnchanged ==
  ASSUME UNCHANGED <<fuzzable_params, data>>
  PROVE  Accepts(data_len)' <=> Accepts(data_len)
  BY DEF Accepts, data_len, IsFuzzablesFixedLength, FuzzablesMinLength

\* The layout begins without parameters and input.
LEMMA LInit == Init => LInv
<1> SUFFICES ASSUME Init PROVE LInv
  OBVIOUS
<1> USE DEF Init
<1>1. LTypeOK
  BY DEF LTypeOK, Range
<1>2. Covers(regions, 0, fixed_start_index, 0, dynamic_param_index)
  BY DEF Covers
<1> QED
  BY <1>1, <1>2 DEF LInv, Fed

\* The types that AddParam adds.
LEMMA AddedDecodable ==
  ASSUME NEW ty \in ParamTys, IsFuzzableType(ty),
         GenerateFuzzableTypeAndCallType(ty).fuzzable_type # NoFuzzable
  PROVE  GenerateFuzzableTypeAndCallType(ty).fuzzable_type \in Decodable
<1>1. IsType(ty)
  BY ParamTysAssumption
<1>2. ty[Len(ty)] \in PrimTypes
  BY DEF IsFuzzableType, Last
<1>3. Len(ty) \in Nat /\ DOMAIN ty = 1..Len(ty) /\ Len(ty) # 0
  BY <1>1 DEF IsType
<1>4. ParamTyOk(ty) /\ 1 \in 1..Len(ty)
  BY <1>1, <1>2, <1>3 DEF ParamTyOk, IsType
<1>5. Generated(ty)[1] # NotGenerated
  BY DEF GenerateFuzzableTypeAndCallType, NotGenerated
<1> QED
  BY <1>4, <1>5, GeneratedDecodable DEF GenerateFuzzableTypeAndCallType

\* A parameter is added.
LEMMA LAddParam ==
  ASSUME LInv, NEW ty \in ParamTys, AddParam(ty)
  PROVE  LInv'
<1> DEFINE ft == GenerateFuzzableTypeAndCallType(ty).fuzzable_type
<1>1. ft \in Addable
  BY AddedDecodable DEF AddParam, Addable
<1>2. /\ pc = "generate" /\ pc' = pc /\ fuzzable_params' = Append(fuzzable_params, ft)
      /\ data' = data /\ address' = address /\ next' = next /\ regions' = regions
      /\ fixed_start_index' = fixed_start_index /\ dynamic_param_index' = dynamic_param_index
  BY DEF AddParam
<1> HIDE DEF ft
<1>3. /\ regions = <<>> /\ next = 1 /\ LTypeOK
      /\ fixed_start_index = 0 /\ dynamic_param_index = 0
  BY <1>2 DEF LInv, Fed
<1>4. fuzzable_params' \in Seq(Addable)
  <2>1. fuzzable_params \in Seq(Addable)
    BY <1>3 DEF LTypeOK
  <2> QED
    BY <1>1, <1>2, <2>1
<1>5. LTypeOK'
  BY <1>2, <1>3, <1>4 DEF LTypeOK
<1>6. Covers(regions, 0, fixed_start_index, 0, dynamic_param_index)'
  BY <1>2, <1>3 DEF Covers
<1> QED
  BY <1>2, <1>3, <1>5, <1>6 DEF LInv, Fed

\* An input is fed to the program.
LEMMA LFeed ==
  ASSUME LInv, NEW n \in 0..MaxData, NEW pattern \in Patterns, NEW start \in Addresses,
         Feed(n, pattern, start)
  PROVE  LInv'
<1>1. /\ pc = "generate" /\ fuzzable_params' = fuzzable_params /\ next' = next /\ regions' = regions
      /\ fixed_start_index' = fixed_start_index /\ dynamic_param_index' = dynamic_param_index
      /\ data' = [i \in 1..n |-> pattern[((i - 1) % Len(pattern)) + 1]] /\ address' = start
      /\ pc' = IF Accepts(n) THEN "decode" ELSE "returned"
      /\ Compiles
  BY DEF Feed
<1>2. /\ regions = <<>> /\ next = 1 /\ LTypeOK
      /\ fixed_start_index = 0 /\ dynamic_param_index = 0
  BY <1>1 DEF LInv, Fed
<1>3. data' \in Seq(0..255) /\ Len(data') = n
  <2>1. pattern \in Seq(0..255) /\ pattern # <<>> /\ MaxData \in Nat
    BY BoundsAssumption
  <2>2. Len(pattern) \in Nat /\ Len(pattern) > 0 /\ n \in Nat
    BY <2>1
  <2>3. \A i \in 1..n : ((i - 1) % Len(pattern)) + 1 \in 1..Len(pattern)
    BY <2>2
  <2>4. ASSUME NEW i \in 1..n PROVE pattern[((i - 1) % Len(pattern)) + 1] \in 0..255
    <3> DEFINE k == ((i - 1) % Len(pattern)) + 1
    <3>1. k \in 1..Len(pattern)
      BY <2>3
    <3> HIDE DEF k
    <3>2. pattern[k] \in 0..255
      BY <2>1, <3>1, ElementOfSequence
    <3> QED
      BY <3>2 DEF k
  <2> QED
    BY <1>1, <2>2, <2>4
<1>4. LTypeOK'
  <2>1. start \in Nat
    BY BoundsAssumption
  <2> QED
    BY <1>1, <1>2, <1>3, <2>1 DEF LTypeOK
<1>5. fuzzable_params \in Seq(Fuzzable)
  <2>1. fuzzable_params \in Seq(Addable)
    BY <1>2 DEF LTypeOK
  <2>2. ASSUME NEW m \in 1..Len(fuzzable_params) PROVE fuzzable_params[m] \in Fuzzable
    <3>1. fuzzable_params[m] \in Addable
      BY <2>1, ElementOfSequence
    <3>2. Last(fuzzable_params[m]) # "str"
      BY <1>1, <2>1 DEF Compiles
    <3> QED
      BY <3>1, <3>2, DecoderExists DEF Addable
  <2> QED
    BY <2>1, <2>2
<1>6. Covers(regions, 0, fixed_start_index, 0, dynamic_param_index)'
  BY <1>1, <1>2 DEF Covers
<1>7. pc' = "decode" => Accepts(data_len)'
  BY <1>1, <1>3 DEF Accepts, data_len, IsFuzzablesFixedLength, FuzzablesMinLength
<1>8. /\ fixed_start_index' = Totals(FixedPartsOf(fuzzable_params'))[next' - 1]
      /\ dynamic_param_index' = Totals(DynamicPartsOf(fuzzable_params'))[next' - 1]
  <2>1. /\ Totals(FixedPartsOf(fuzzable_params))[0] = 0
        /\ Totals(DynamicPartsOf(fuzzable_params))[0] = 0
    BY <1>5, ParamLengths, TotalsUnfold
  <2>2. next' - 1 = 0
    BY <1>1, <1>2
  <2> QED
    BY <1>1, <1>2, <2>1, <2>2
<1> QED
  BY <1>1, <1>2, <1>4, <1>5, <1>6, <1>7, <1>8 DEF LInv, Fed

\* The main function decodes the parameters of an input.
LEMMA LDecode ==
  ASSUME LInv, Decode
  PROVE  LInv'
<1> DEFINE ft == fuzzable_params[next]
           decoded == ParamRegions(ft)
           at == <<fixed_start_index, dynamic_param_index>>
<1>1. /\ pc = "decode" /\ pc' = pc /\ next <= Len(fuzzable_params) /\ next' = next + 1
      /\ fuzzable_params' = fuzzable_params /\ data' = data /\ address' = address
      /\ regions' = regions \o decoded
      /\ fixed_start_index' = fixed_start_index + FixedPartLength(ft)
      /\ dynamic_param_index' = dynamic_param_index + DynamicLengthParamNumber(ft)
  BY DEF Decode
<1>2. /\ LTypeOK /\ Covers(regions, 0, fixed_start_index, 0, dynamic_param_index)
      /\ fixed_start_index = Totals(FixedPartsOf(fuzzable_params))[next - 1]
      /\ dynamic_param_index = Totals(DynamicPartsOf(fuzzable_params))[next - 1]
      /\ Accepts(data_len) /\ fuzzable_params \in Seq(Fuzzable)
  BY <1>1 DEF LInv, Fed
<1>3. fixed_start_index \in Nat /\ dynamic_param_index \in Nat
  BY <1>2 DEF Covers
<1>4. fuzzable_params \in Seq(Fuzzable) /\ next \in 1..Len(fuzzable_params)
  BY <1>1, <1>2 DEF LTypeOK
<1>5. ft \in Fuzzable /\ ~IsMultipleDynamicLength(ft)
  <2>1. fuzzable_params \in Seq(Addable)
    BY <1>2 DEF LTypeOK
  <2>2. ft \in Addable
    BY <1>4, <2>1, ElementOfSequence
  <2> QED
    BY <1>4, <2>2, ElementOfSequence DEF Addable
<1>6. 1 \in 1..Len(ft) /\ at \in Nat \X Nat
      /\ at[1] = fixed_start_index /\ at[2] = dynamic_param_index
  BY <1>3, <1>5, FuzzableShape
<1>7. decoded = RegionsOf(ft)[1][at]
  BY DEF ParamRegions
<1> HIDE DEF ft, decoded, at
<1>8. decoded \in Seq(RegionSet(ft))
  <2>1. RegionsOf(ft)[1] \in [Nat \X Nat -> Seq(RegionSet(ft))]
    BY <1>5, <1>6, RegionsOfUnfold DEF RegionFunctions
  <2> QED
    BY <1>6, <1>7, <2>1
<1>9. Covers(decoded, fixed_start_index, fixed_start_index', dynamic_param_index, dynamic_param_index')
  <2>1. Covers(RegionsOf(ft)[1][at], at[1], at[1] + FixedPartLengths(ft)[1],
               at[2], at[2] + DynamicLengthParamNumbers(ft)[1])
    BY <1>5, <1>6, RegionsCover
  <2> QED
    BY <1>1, <1>6, <1>7, <2>1 DEF FixedPartLength, DynamicLengthParamNumber
<1>10. regions \in Seq(Range(regions))
  BY <1>2 DEF LTypeOK
<1>11. Covers(regions \o decoded, 0, fixed_start_index', 0, dynamic_param_index')
  <2> DEFINE S == Range(regions) \cup RegionSet(ft)
  <2>1. regions \in Seq(S) /\ decoded \in Seq(S)
    BY <1>8, <1>10, AppendedOwn
  <2> HIDE DEF S
  <2> QED
    BY <1>2, <1>9, <2>1, CoversConcatenated
<1>12. Covers(regions, 0, fixed_start_index, 0, dynamic_param_index)'
  <2>1. PICK rs, a, b : rs = regions' /\ a = fixed_start_index' /\ b = dynamic_param_index'
    OBVIOUS
  <2>2. Covers(rs, 0, a, 0, b)
    BY <1>1, <1>11, <2>1
  <2>3. Covers(rs, 0, a, 0, b)'
    BY <1>1, <2>2, CoversUnchanged
  <2> QED
    BY <2>1, <2>3
<1>13. LTypeOK'
  <2>1. regions' \in Seq(Range(regions'))
    BY <1>1, <1>8, <1>10, AppendedOwn
  <2>2. next' \in 1..(Len(fuzzable_params') + 1)
    BY <1>1, <1>4
  <2> QED
    BY <1>1, <1>2, <2>1, <2>2 DEF LTypeOK
<1>14. /\ fixed_start_index' = Totals(FixedPartsOf(fuzzable_params'))[next' - 1]
       /\ dynamic_param_index' = Totals(DynamicPartsOf(fuzzable_params'))[next' - 1]
  <2> DEFINE fixed == FixedPartsOf(fuzzable_params)
             number == DynamicPartsOf(fuzzable_params)
  <2>1. /\ fixed \in Seq(Nat) /\ Len(fixed) = Len(fuzzable_params)
        /\ number \in Seq(Nat) /\ Len(number) = Len(fuzzable_params)
    BY <1>4, ParamLengths
  <2>2. fixed[next] = FixedPartLength(ft) /\ number[next] = DynamicLengthParamNumber(ft)
    BY <1>4 DEF FixedPartsOf, DynamicPartsOf, ft
  <2> HIDE DEF fixed, number
  <2>3. /\ Totals(fixed)[next] = Totals(fixed)[next - 1] + fixed[next]
        /\ Totals(number)[next] = Totals(number)[next - 1] + number[next]
    BY <1>4, <2>1, TotalsUnfold
  <2>4. next' - 1 = next
    BY <1>1, <1>4
  <2> QED
    BY <1>1, <1>2, <2>2, <2>3, <2>4 DEF fixed, number
<1>15. Accepts(data_len)'
  BY <1>1, <1>2, AcceptsUnchanged
<1> QED
  BY <1>1, <1>2, <1>12, <1>13, <1>14, <1>15 DEF LInv, Fed

\* Steps that only change pc.
LEMMA LUnchanged ==
  ASSUME LInv,
         UNCHANGED <<fuzzable_params, data, address, next, fixed_start_index, dynamic_param_index,
                     regions>>,
         \/ pc = "generate" /\ pc' = "rejected"
         \/ pc = "decode" /\ pc' = "exited"
         \/ pc = "decode" /\ next > Len(fuzzable_params) /\ pc' = "called"
         \/ pc' = pc
  PROVE  LInv'
<1>1. /\ fuzzable_params' = fuzzable_params /\ data' = data /\ address' = address /\ next' = next /\ regions' = regions
      /\ fixed_start_index' = fixed_start_index /\ dynamic_param_index' = dynamic_param_index
  OBVIOUS
<1>2. LTypeOK /\ LTypeOK'
  BY <1>1 DEF LInv, LTypeOK
<1>3. Covers(regions, 0, fixed_start_index, 0, dynamic_param_index)'
  <2>1. PICK rs, a, b : rs = regions' /\ a = fixed_start_index' /\ b = dynamic_param_index'
    OBVIOUS
  <2>2. Covers(rs, 0, a, 0, b)
    BY <1>1, <2>1 DEF LInv
  <2>3. Covers(rs, 0, a, 0, b)'
    BY <1>1, <2>2, CoversUnchanged
  <2> QED
    BY <2>1, <2>3
<1>4. Accepts(data_len)' <=> Accepts(data_len)
  BY <1>1, AcceptsUnchanged
<1>5. Len(fuzzable_params) \in Nat /\ next \in 1..(Len(fuzzable_params) + 1)
  BY <1>2 DEF LTypeOK
<1>6. next > Len(fuzzable_params) => next = Len(fuzzable_params) + 1
  BY <1>5
<1> QED
  BY <1>1, <1>2, <1>3, <1>4, <1>6 DEF LInv, Fed

\* Every step keeps the invariant.
LEMMA LNext == LInv /\ [Next]_vars => LInv'
<1> SUFFICES ASSUME LInv, [Next]_vars PROVE LInv'
  OBVIOUS
<1>1. ASSUME NEW ty \in ParamTys, AddParam(ty) PROVE LInv'
  BY <1>1, LAddParam
<1>2. ASSUME NEW n \in 0..MaxData, NEW pattern \in Patterns, NEW start \in Addresses,
             Feed(n, pattern, start)
      PROVE  LInv'
  BY <1>2, LFeed
<1>3. CASE Decode
  BY <1>3, LDecode
<1>4. CASE Exit
  BY <1>4, LUnchanged DEF Exit
<1>5. CASE CallTest
  BY <1>5, LUnchanged DEF CallTest
<1>6. CASE Terminating \/ UNCHANGED vars
  BY <1>6, LUnchanged DEF Terminating, vars
<1>7. CASE Reject
  BY <1>7, LUnchanged DEF Reject
<1> QED
  BY <1>1, <1>2, <1>3, <1>4, <1>5, <1>6, <1>7 DEF Next

\* The invariant holds in every state of the closure: the regions are those of
\* the variables decoded so far.
THEOREM LayoutInvariant == Spec => []LInv
  BY LInit, LNext, PTL DEF Spec

-----------------------------------------------------------------------------
(* The input is divided among the variables *)

\* What is decoded is part of what there is to decode.
LEMMA PrefixBounds ==
  ASSUME LInv, Fed
  PROVE  /\ fixed_start_index \in Nat /\ fixed_start_index <= FuzzableFixedPartLength
         /\ dynamic_param_index \in Nat /\ dynamic_param_index <= TotalDynamicParams
         /\ pc = "called" => /\ fixed_start_index = FuzzableFixedPartLength
                             /\ dynamic_param_index = TotalDynamicParams
<1> DEFINE fixed == FixedPartsOf(fuzzable_params)
           number == DynamicPartsOf(fuzzable_params)
           L == Len(fuzzable_params)
<1>1. fuzzable_params \in Seq(Fuzzable) /\ next \in 1..(L + 1) /\ L \in Nat
  BY DEF LInv, LTypeOK
<1>2. /\ fixed \in Seq(Nat) /\ Len(fixed) = L
      /\ number \in Seq(Nat) /\ Len(number) = L
  BY <1>1, ParamLengths
<1>3. /\ FuzzableFixedPartLength = Totals(fixed)[L] /\ TotalDynamicParams = Totals(number)[L]
  BY <1>2 DEF FuzzableFixedPartLength, TotalDynamicParams, Total
<1>4. fixed_start_index = Totals(fixed)[next - 1] /\ dynamic_param_index = Totals(number)[next - 1]
  BY DEF LInv
<1>5. pc = "called" => next = L + 1
  BY DEF LInv
<1> HIDE DEF fixed, number, L
<1>6. next - 1 \in 0..L /\ L \in (next - 1)..L /\ (next = L + 1 => next - 1 = L)
  BY <1>1
<1>7. Totals(fixed)[next - 1] <= Totals(fixed)[L] /\ Totals(number)[next - 1] <= Totals(number)[L]
  BY <1>2, <1>6, TotalsMonotone
<1>8. Totals(fixed)[next - 1] \in Nat /\ Totals(number)[next - 1] \in Nat
  <2>1. Totals(fixed) \in [0..L -> Nat] /\ Totals(number) \in [0..L -> Nat]
    BY <1>2, TotalsUnfold
  <2> QED
    BY <1>6, <2>1
<1> QED
  BY <1>3, <1>4, <1>5, <1>6, <1>7, <1>8

\* Every region is one of the fixed part or one of the shares, within the input.
LEMMA RegionWithin ==
  ASSUME LInv, NEW n \in DOMAIN regions
  PROVE  LET r == regions[n] IN
         /\ r.from \in Nat /\ r.to \in Nat /\ r.from <= r.to /\ r.to <= data_len
         /\ HasValue(r)
         /\ \/ FixedIn(r, 0, fixed_start_index)
            \/ \E i \in 0..(TotalDynamicParams - 1) : IsShare(r, i)
<1> DEFINE r == regions[n]
<1>1. regions \in Seq(Range(regions))
  BY DEF LInv, LTypeOK
<1>2. n \in 1..Len(regions)
  BY <1>1
<1>3. Covers(regions, 0, fixed_start_index, 0, dynamic_param_index)
  BY DEF LInv
<1>4. /\ HasValue(r)
      /\ \/ FixedIn(r, 0, fixed_start_index)
         \/ \E i \in 0..(dynamic_param_index - 1) : IsShare(r, i)
  BY <1>2, <1>3 DEF Covers
<1>5. fuzzable_params \in Seq(Fuzzable) /\ data \in Seq(0..255) /\ Accepts(data_len) /\ Fed
  <2>1. regions # <<>>
    BY <1>1
  <2> QED
    BY <2>1 DEF LInv, LTypeOK
<1>6. /\ fixed_start_index \in Nat /\ fixed_start_index <= FuzzableFixedPartLength
      /\ dynamic_param_index \in Nat /\ dynamic_param_index <= TotalDynamicParams
  BY <1>5, PrefixBounds
<1>7. /\ FuzzableFixedPartLength \in Nat /\ TotalDynamicParams \in Nat /\ data_len \in Nat
      /\ FuzzableFixedPartLength <= data_len
  BY <1>5, InputFits
<1> HIDE DEF r
<1>8. CASE FixedIn(r, 0, fixed_start_index)
  <2>1. r.from \in Nat /\ r.to \in Nat /\ r.from <= r.to
    BY <1>8, FixedNotDynamic
  <2>2. r.to <= fixed_start_index
    BY <1>8 DEF FixedIn
  <2>3. r.to <= data_len
    BY <1>6, <1>7, <2>1, <2>2
  <2> QED
    BY <1>4, <1>8, <2>1, <2>3 DEF r
<1>9. ASSUME NEW i \in 0..(dynamic_param_index - 1), IsShare(r, i)
      PROVE  /\ r.from \in Nat /\ r.to \in Nat /\ r.from <= r.to /\ r.to <= data_len
             /\ i \in 0..(TotalDynamicParams - 1)
  <2>1. i \in Nat /\ i < TotalDynamicParams /\ i \in 0..(TotalDynamicParams - 1)
    BY <1>6, <1>7
  <2>2. r.from = ShareStart(i) /\ r.to = ShareEnd(i)
    BY <1>9 DEF IsShare
  <2> QED
    BY <1>5, <2>1, <2>2, SharesFit
<1> QED
  BY <1>4, <1>8, <1>9 DEF r

\* No decoder reads beyond the end of an input of accepted length: for every
\* crate and every input, the closure does not panic before it calls the test.
THEOREM ReadsInBoundsHolds == Spec => []ReadsInBounds
<1>1. LInv => ReadsInBounds
  BY RegionWithin DEF ReadsInBounds
<1> QED
  BY <1>1, LayoutInvariant, PTL

\* Shares start at different bytes.
LEMMA ShareInjective ==
  ASSUME fuzzable_params \in Seq(Fuzzable), data \in Seq(0..255), Accepts(data_len),
         TotalDynamicParams # 0, NEW i \in Nat, NEW j \in Nat, ShareStart(i) = ShareStart(j)
  PROVE  i = j
<1> DEFINE F == FuzzableFixedPartLength
           Q == DynamicLength
<1>1. F \in Nat /\ Q \in Nat /\ Q >= 1
  BY InputFits
<1>2. F + i * Q = F + j * Q
  BY DEF ShareStart
<1> HIDE DEF F, Q
<1>3. ASSUME NEW k \in Nat, NEW l \in Nat, k < l PROVE F + k * Q # F + l * Q
  <2>1. k + 1 \in Nat /\ k + 1 <= l
    BY <1>3
  <2>2. (k + 1) * Q <= l * Q /\ l * Q \in Nat
    BY <1>1, <2>1, TimesMonotone
  <2>3. (k + 1) * Q = k * Q + Q /\ k * Q \in Nat
    BY <1>1, TimesNext
  <2> DEFINE x == k * Q
             y == l * Q
  <2>4. x \in Nat /\ y \in Nat /\ x + Q <= y
    BY <2>2, <2>3
  <2> HIDE DEF x, y
  <2>5. F + x # F + y
    BY <1>1, <2>4
  <2> QED
    BY <2>5 DEF x, y
<1> QED
  BY <1>2, <1>3

\* Regions that are apart have no byte in common.
LEMMA ApartDisjoint ==
  ASSUME LInv, NEW m \in DOMAIN regions, NEW n \in DOMAIN regions, m # n
  PROVE  Bytes(regions[m]) \cap Bytes(regions[n]) = {}
<1> DEFINE r == regions[m]
           s == regions[n]
<1>1. regions \in Seq(Range(regions))
  BY DEF LInv, LTypeOK
<1>2. Apart(r, s)
  <2>1. Covers(regions, 0, fixed_start_index, 0, dynamic_param_index)
    BY DEF LInv
  <2> QED
    BY <1>1, <2>1 DEF Covers
<1>3. fuzzable_params \in Seq(Fuzzable) /\ data \in Seq(0..255) /\ Accepts(data_len) /\ Fed
  <2>1. regions # <<>>
    BY <1>1
  <2> QED
    BY <2>1 DEF LInv, LTypeOK
<1>4. /\ r.from \in Nat /\ r.to \in Nat /\ s.from \in Nat /\ s.to \in Nat
      /\ FixedIn(r, 0, fixed_start_index) \/ \E i \in 0..(TotalDynamicParams - 1) : IsShare(r, i)
      /\ FixedIn(s, 0, fixed_start_index) \/ \E i \in 0..(TotalDynamicParams - 1) : IsShare(s, i)
  BY RegionWithin
<1>5. /\ FuzzableFixedPartLength \in Nat /\ TotalDynamicParams \in Nat
      /\ fixed_start_index \in Nat /\ fixed_start_index <= FuzzableFixedPartLength
  BY <1>3, InputFits, PrefixBounds
<1> HIDE DEF r, s
<1>6. SUFFICES r.to <= s.from \/ s.to <= r.from
  BY <1>4 DEF Bytes, r, s
<1>7. ASSUME NEW x, NEW y, FixedIn(x, 0, fixed_start_index),
             NEW j \in 0..(TotalDynamicParams - 1), IsShare(y, j)
      PROVE  x.to <= y.from
  <2>1. x.to \in Nat /\ x.to <= fixed_start_index
    BY <1>7, FixedNotDynamic DEF FixedIn
  <2>2. j \in Nat /\ j < TotalDynamicParams
    BY <1>5
  <2>3. ShareStart(j) \in Nat /\ FuzzableFixedPartLength <= ShareStart(j) /\ y.from = ShareStart(j)
    BY <1>3, <1>7, <2>2, SharesFit DEF IsShare
  <2> QED
    BY <1>5, <2>1, <2>3
<1>8. CASE Dynamic(r.type) /\ ~Dynamic(s.type)
  BY <1>4, <1>7, <1>8, FixedNotDynamic DEF IsShare
<1>9. CASE ~Dynamic(r.type) /\ Dynamic(s.type)
  BY <1>4, <1>7, <1>9, FixedNotDynamic DEF IsShare
<1>10. CASE ~Dynamic(r.type) /\ ~Dynamic(s.type)
  BY <1>2, <1>10 DEF Apart, IsShare
<1>11. CASE Dynamic(r.type) /\ Dynamic(s.type)
  <2>1. PICK i \in Nat, j \in Nat : i # j /\ IsShare(r, i) /\ IsShare(s, j)
    BY <1>2, <1>11 DEF Apart
  <2>2. PICK k \in 0..(TotalDynamicParams - 1) : IsShare(r, k)
    BY <1>4, <1>11, FixedNotDynamic
  <2>3. PICK l \in 0..(TotalDynamicParams - 1) : IsShare(s, l)
    BY <1>4, <1>11, FixedNotDynamic
  <2>4. /\ k \in Nat /\ k < TotalDynamicParams /\ l \in Nat /\ l < TotalDynamicParams
    BY <1>5
  <2>5. ShareStart(k) = ShareStart(i) /\ ShareStart(l) = ShareStart(j)
    BY <2>1, <2>2, <2>3 DEF IsShare
  <2>6. TotalDynamicParams # 0
    BY <1>5, <2>4
  <2>7. k = i /\ l = j
    BY <1>3, <2>1, <2>4, <2>5, <2>6, ShareInjective
  <2>8. CASE i < j
    <3>1. ShareEnd(i) <= ShareStart(j)
      BY <1>3, <2>1, <2>4, <2>7, <2>8, SharesFit
    <3> QED
      BY <2>1, <3>1 DEF IsShare
  <2>9. CASE j < i
    <3>1. ShareEnd(j) <= ShareStart(i)
      BY <1>3, <2>1, <2>4, <2>7, <2>9, SharesFit
    <3> QED
      BY <2>1, <3>1 DEF IsShare
  <2> QED
    BY <2>1, <2>8, <2>9
<1> QED
  BY <1>8, <1>9, <1>10, <1>11

\* The shares and the fixed part have all bytes of the input.
LEMMA SharesCoverInput ==
  ASSUME LInv, pc = "called", NEW x \in 0..(data_len - 1)
  PROVE  \E n \in DOMAIN regions : x \in Bytes(regions[n])
<1>1. fuzzable_params \in Seq(Fuzzable) /\ data \in Seq(0..255) /\ Accepts(data_len) /\ Fed
  BY DEF LInv, LTypeOK, Fed
<1>2. /\ FuzzableFixedPartLength \in Nat /\ TotalDynamicParams \in Nat /\ data_len \in Nat
      /\ FuzzableFixedPartLength <= data_len
  BY <1>1, InputFits
<1>3. Covers(regions, 0, FuzzableFixedPartLength, 0, TotalDynamicParams)
  BY <1>1, PrefixBounds DEF LInv
<1>4. DOMAIN regions = 1..Len(regions)
  BY DEF LInv, LTypeOK
<1>5. CASE x < FuzzableFixedPartLength
  <2>1. x \in 0..(FuzzableFixedPartLength - 1)
    BY <1>2, <1>5
  <2> QED
    BY <1>3, <1>4, <2>1 DEF Covers
<1>6. CASE ~(x < FuzzableFixedPartLength)
  <2>1. x \in Nat /\ FuzzableFixedPartLength <= x /\ x < data_len
    BY <1>2, <1>6
  <2>2. PICK i \in 0..(TotalDynamicParams - 1) : ShareStart(i) <= x /\ x < ShareEnd(i)
    BY <1>1, <2>1, ShareOfByte
  <2>3. PICK n \in 1..Len(regions) : IsShare(regions[n], i)
    BY <1>3 DEF Covers
  <2>4. regions[n].from <= x /\ x < regions[n].to
    BY <2>2, <2>3 DEF IsShare
  <2>5. regions[n].from \in Nat /\ regions[n].to \in Nat
    BY <1>4, RegionWithin
  <2>6. x \in Bytes(regions[n])
    BY <2>1, <2>4, <2>5 DEF Bytes
  <2> QED
    BY <1>4, <2>6
<1> QED
  BY <1>5, <1>6

\* How far the next aligned address is.
LEMMA OffsetBelowAlignment ==
  ASSUME NEW start \in Nat, NEW align \in Nat \ {0}
  PROVE  AlignOffset(start, align) \in 0..(align - 1)
<1> DEFINE d == align - (start % align)
<1>1. start % align \in 0..(align - 1)
  OBVIOUS
<1>2. d \in Nat
  BY <1>1
<1> HIDE DEF d
<1>3. d % align \in 0..(align - 1)
  BY <1>2
<1> QED
  BY <1>3 DEF AlignOffset, d

\* What a slice does not keep of its share is at an end of it.
LEMMA KeptOfSlice ==
  ASSUME NEW r, r.type = "RefSlice", r.from \in Nat, r.to \in Nat, address \in Nat,
         ElementSize(r) \in Nat \ {0}, Alignment(r) \in Nat \ {0}
  PROVE  /\ Kept(r) \subseteq Bytes(r)
         /\ \A x \in Bytes(r) :
              \/ x \in Kept(r)
              \/ x - r.from < Alignment(r) - 1
              \/ r.to - x < ElementSize(r)
<1> DEFINE from == r.from
           to == r.to
           size == ElementSize(r)
           align == Alignment(r)
           offset == AlignOffset(address + r.from, Alignment(r))
           first == from + offset
           q == (to - first) \div size
<1>1. from \in Nat /\ to \in Nat /\ size \in Nat \ {0} /\ align \in Nat \ {0}
  OBVIOUS
<1>2. offset \in 0..(align - 1)
  BY OffsetBelowAlignment
<1>3. Kept(r) = IF first > to THEN {} ELSE first..(first + q * size - 1)
  BY DEF Kept
<1>4. Bytes(r) = from..(to - 1)
  BY DEF Bytes
<1> HIDE DEF from, to, size, align, offset
<1>5. first \in Nat /\ from <= first /\ first <= from + (align - 1)
  BY <1>1, <1>2
<1>6. CASE first > to
  <2>1. ASSUME NEW x \in from..(to - 1) PROVE x - from < align - 1
    BY <1>1, <1>5, <1>6
  <2> QED
    BY <1>3, <1>4, <1>6, <2>1 DEF from, to, size, align
<1>7. CASE ~(first > to)
  <2>1. to - first \in Nat
    BY <1>1, <1>5, <1>7
  <2>2. q \in Nat /\ q * size <= to - first /\ to - first < q * size + size
    BY <1>1, <2>1, Quotient
  <2> DEFINE p == q * size
  <2>3. p \in Nat
    BY <1>1, <2>2
  <2> HIDE DEF first, q
  <2>4. p <= to - first /\ to - first < p + size
    BY <2>2
  <2>5. Kept(r) = first..(first + p - 1)
    BY <1>3, <1>7
  <2> HIDE DEF p
  <2>6. first..(first + p - 1) \subseteq from..(to - 1)
    BY <1>1, <1>5, <2>3, <2>4
  <2>7. ASSUME NEW x \in from..(to - 1)
        PROVE  x \in first..(first + p - 1) \/ x - from < align - 1 \/ to - x < size
    BY <1>1, <1>5, <2>3, <2>4
  <2> QED
    BY <1>4, <2>5, <2>6, <2>7 DEF from, to, size, align
<1> QED
  BY <1>6, <1>7

\* When the test is called, no byte of the input is used for two variables, and the
\* only bytes that are not used are at the ends of the shares of slices, fewer than
\* the alignment or the size of an element: whatever the variables are, however deep
\* their tuples nest and wherever the input is in memory.
THEOREM InputPartitionedHolds == Spec => []InputPartitioned
<1>1. ASSUME LInv PROVE InputPartitioned
  <2> SUFFICES ASSUME pc = "called" PROVE InputPartitioned
    BY DEF InputPartitioned
  <2>1. ASSUME NEW n \in DOMAIN regions
        PROVE  /\ Kept(regions[n]) \subseteq Bytes(regions[n])
               /\ \A x \in Bytes(regions[n]) :
                    \/ x \in Kept(regions[n])
                    \/ /\ regions[n].type = "RefSlice"
                       /\ \/ x - regions[n].from < Alignment(regions[n]) - 1
                          \/ regions[n].to - x < ElementSize(regions[n])
    <3> DEFINE r == regions[n]
    <3>1. r.from \in Nat /\ r.to \in Nat /\ HasValue(r)
      BY <1>1, RegionWithin
    <3>2. address \in Nat
      BY <1>1 DEF LInv, LTypeOK
    <3> HIDE DEF r
    <3>3. CASE r.type = "RefSlice"
      <4>1. ElementSize(r) \in Nat \ {0} /\ Alignment(r) \in Nat \ {0}
        BY <3>1, <3>3 DEF HasValue
      <4> QED
        BY <3>1, <3>2, <3>3, <4>1, KeptOfSlice DEF r
    <3>4. CASE r.type # "RefSlice"
      <4>1. Kept(r) = Bytes(r)
        BY <3>4 DEF Kept
      <4> QED
        BY <4>1 DEF r
    <3> QED
      BY <3>3, <3>4
  <2>2. \A m, n \in DOMAIN regions : m # n => Kept(regions[m]) \cap Kept(regions[n]) = {}
    <3> SUFFICES ASSUME NEW m \in DOMAIN regions, NEW n \in DOMAIN regions, m # n
                 PROVE  Kept(regions[m]) \cap Kept(regions[n]) = {}
      OBVIOUS
    <3>1. Bytes(regions[m]) \cap Bytes(regions[n]) = {}
      BY <1>1, ApartDisjoint
    <3>2. Kept(regions[m]) \subseteq Bytes(regions[m]) /\ Kept(regions[n]) \subseteq Bytes(regions[n])
      BY <2>1
    <3> QED
      BY <3>1, <3>2
  <2>3. ASSUME NEW x \in 0..(data_len - 1)
        PROVE  \E n \in DOMAIN regions :
                 \/ x \in Kept(regions[n])
                 \/ /\ regions[n].type = "RefSlice"
                    /\ x \in Bytes(regions[n])
                    /\ \/ x - regions[n].from < Alignment(regions[n]) - 1
                       \/ regions[n].to - x < ElementSize(regions[n])
    <3>1. PICK n \in DOMAIN regions : x \in Bytes(regions[n])
      BY <1>1, SharesCoverInput
    <3> QED
      BY <2>1, <3>1
  <2> QED
    BY <2>2, <2>3 DEF InputPartitioned
<1> QED
  BY <1>1, LayoutInvariant, PTL

-----------------------------------------------------------------------------
(* The values of integers *)

\* The byte that fills up a widened value.
Fill(int, signed) == IF signed /\ int[1] >= 128 THEN 255 ELSE 0

\* A widened value: its fill, then its bytes.
LEMMA WidenedElements ==
  ASSUME NEW m \in Nat, NEW int \in Seq(0..255), Len(int) = m, NEW signed \in BOOLEAN
  PROVE  /\ Len(Widened(int, signed)) = m + m
         /\ DOMAIN Widened(int, signed) = 1..(m + m)
         /\ \A i \in 1..m : Widened(int, signed)[i] = Fill(int, signed)
         /\ \A i \in (m + 1)..(m + m) : Widened(int, signed)[i] = int[i - m]
<1> DEFINE fills == [i \in 1..m |-> Fill(int, signed)]
           w == fills \o int
<1>1. Fill(int, signed) \in 0..255
  BY DEF Fill
<1>2. fills \in Seq(0..255) /\ Len(fills) = m /\ \A i \in 1..m : fills[i] = Fill(int, signed)
  BY <1>1
<1>3. Widened(int, signed) = w
  BY DEF Widened, Fill
<1> HIDE DEF fills
<1>4. /\ w \in Seq(0..255) /\ Len(w) = m + m
      /\ \A i \in 1..m : w[i] = fills[i]
      /\ \A i \in 1..m : w[m + i] = int[i]
  <2> DEFINE B == 0..255
  <2>1. fills \in Seq(B) /\ int \in Seq(B) /\ Len(fills) = m /\ Len(int) = m
    BY <1>2
  <2> HIDE DEF B
  <2>2. /\ w \in Seq(B) /\ Len(w) = m + m
        /\ \A i \in 1..m : w[i] = fills[i]
        /\ \A i \in 1..m : w[m + i] = int[i]
    BY <2>1
  <2> QED
    BY <2>2 DEF B
<1> HIDE DEF w
<1>5. DOMAIN w = 1..(m + m)
  BY <1>4
<1>6. ASSUME NEW i \in (m + 1)..(m + m) PROVE w[i] = int[i - m]
  <2>1. i - m \in 1..m /\ m + (i - m) = i
    OBVIOUS
  <2>2. w[m + (i - m)] = int[i - m]
    BY <1>4, <2>1
  <2> QED
    BY <2>1, <2>2
<1> QED
  BY <1>2, <1>3, <1>4, <1>5, <1>6

\* A byte or one that is all zeros or all ones.
LEMMA BytesOr ==
  ASSUME NEW x \in 0..255, NEW y \in {0, 255}
  PROVE  /\ (IF 255 \in {x, y} THEN 255 ELSE x + y) = (IF y = 255 THEN 255 ELSE x)
         /\ (IF 255 \in {0, x} THEN 255 ELSE 0 + x) = x
  OBVIOUS

\* Two halves joined: the lower one as it is, before it the higher one, unless
\* the sign of the lower one fills its bytes with ones.
JoinedOf(m, high, low, signed, j) ==
  /\ j = [i \in 1..(m + m) |-> j[i]]
  /\ \A i \in 1..m : j[i] = IF Fill(low, signed) = 255 THEN 255 ELSE high[i]
  /\ \A i \in (m + 1)..(m + m) : j[i] = low[i - m]

\* The bytes of two halves that are joined.
LEMMA JoinedElements ==
  ASSUME NEW m \in Nat, NEW high \in Seq(0..255), NEW low \in Seq(0..255),
         Len(high) = m, Len(low) = m, NEW signed \in BOOLEAN
  PROVE  JoinedOf(m, high, low, signed, Joined(high, low, signed))
<1> DEFINE h == Widened(high, signed)
           l == Widened(low, signed)
           s == Shifted(h)
           j == Joined(high, low, signed)
<1>1. /\ Len(h) = m + m /\ DOMAIN h = 1..(m + m)
      /\ \A i \in (m + 1)..(m + m) : h[i] = high[i - m]
  BY WidenedElements
<1>2. /\ DOMAIN l = 1..(m + m)
      /\ \A i \in 1..m : l[i] = Fill(low, signed)
      /\ \A i \in (m + 1)..(m + m) : l[i] = low[i - m]
  BY WidenedElements
<1>3. Fill(low, signed) \in {0, 255}
  BY DEF Fill
<1>4. /\ \A i \in 1..m : high[i] \in 0..255 /\ low[i] \in 0..255
  BY ElementOfSequence
<1> HIDE DEF h, l
<1>5. s = [i \in 1..(m + m) |-> IF i <= m THEN h[i + m] ELSE 0]
  <2>1. Len(h) \div 2 = m
    BY <1>1
  <2> QED
    BY <1>1, <2>1 DEF Shifted
<1>6. j = [i \in 1..(m + m) |-> IF 255 \in {s[i], l[i]} THEN 255 ELSE s[i] + l[i]]
  BY <1>2 DEF Joined, Combined, h, l
<1> HIDE DEF s, j
<1>7. ASSUME NEW i \in 1..m PROVE j[i] = IF Fill(low, signed) = 255 THEN 255 ELSE high[i]
  <2>1. i \in 1..(m + m) /\ i + m \in (m + 1)..(m + m) /\ (i + m) - m = i /\ i <= m
    OBVIOUS
  <2>2. s[i] = high[i] /\ l[i] = Fill(low, signed) /\ high[i] \in 0..255
    BY <1>1, <1>2, <1>4, <1>5, <2>1
  <2>3. j[i] = IF 255 \in {s[i], l[i]} THEN 255 ELSE s[i] + l[i]
    BY <1>6, <2>1
  <2> DEFINE x == high[i]
             y == Fill(low, signed)
  <2>4. x \in 0..255 /\ y \in {0, 255} /\ j[i] = IF 255 \in {x, y} THEN 255 ELSE x + y
    BY <1>3, <2>2, <2>3
  <2> HIDE DEF x, y
  <2>5. j[i] = IF y = 255 THEN 255 ELSE x
    BY <2>4, BytesOr
  <2> QED
    BY <2>5 DEF x, y
<1>8. ASSUME NEW i \in (m + 1)..(m + m) PROVE j[i] = low[i - m]
  <2>1. i \in 1..(m + m) /\ i - m \in 1..m /\ ~(i <= m)
    OBVIOUS
  <2>2. s[i] = 0 /\ l[i] = low[i - m] /\ low[i - m] \in 0..255
    BY <1>2, <1>4, <1>5, <2>1
  <2>3. j[i] = IF 255 \in {s[i], l[i]} THEN 255 ELSE s[i] + l[i]
    BY <1>6, <2>1
  <2> DEFINE x == low[i - m]
  <2>4. x \in 0..255 /\ 0 \in {0, 255} /\ j[i] = IF 255 \in {0, x} THEN 255 ELSE 0 + x
    BY <2>2, <2>3
  <2> HIDE DEF x
  <2>5. j[i] = x
    BY <2>4, BytesOr
  <2> QED
    BY <2>5 DEF x
<1>9. j = [i \in 1..(m + m) |-> j[i]]
  BY <1>6
<1> QED
  BY <1>7, <1>8, <1>9 DEF JoinedOf, j

\* _to_u16 and _to_i16.
Is16(bytes, index, signed, v) ==
  /\ v \in Seq(0..255) /\ Len(v) = 2 /\ v = [i \in 1..2 |-> v[i]]
  /\ v[1] = IF signed /\ bytes[index + 1] >= 128 THEN 255 ELSE bytes[index]
  /\ v[2] = bytes[index + 1]

\* A decoded 16-bit value.
LEMMA To16Value ==
  ASSUME NEW bytes \in Seq(0..255), NEW index \in 1..Len(bytes), index + 1 \in 1..Len(bytes),
         NEW signed \in BOOLEAN
  PROVE  Is16(bytes, index, signed, To16(bytes, index, signed))
<1> DEFINE b == bytes[index]
           c == bytes[index + 1]
           j == Joined(<<b>>, <<c>>, signed)
<1>1. b \in 0..255 /\ c \in 0..255
  BY ElementOfSequence
<1> HIDE DEF b, c
<1>2. <<b>> \in Seq(0..255) /\ <<c>> \in Seq(0..255) /\ Len(<<b>>) = 1 /\ Len(<<c>>) = 1
      /\ <<b>>[1] = b /\ <<c>>[1] = c
  BY <1>1
<1>3. /\ j = [i \in 1..2 |-> j[i]]
      /\ j[1] = (IF Fill(<<c>>, signed) = 255 THEN 255 ELSE b) /\ j[2] = c
  <2>1. 1 \in Nat /\ 1 + 1 = 2 /\ 1 \in 1..1 /\ 2 \in (1 + 1)..(1 + 1) /\ 2 - 1 = 1
    OBVIOUS
  <2>2. JoinedOf(1, <<b>>, <<c>>, signed, j)
    BY <1>2, <2>1, JoinedElements
  <2> HIDE DEF j
  <2> QED
    BY <1>2, <2>1, <2>2 DEF JoinedOf
<1>4. Fill(<<c>>, signed) = 255 <=> signed /\ c >= 128
  BY <1>2 DEF Fill
<1>5. To16(bytes, index, signed) = j
  BY DEF To16, b, c
<1> HIDE DEF j
<1>6. j[1] \in 0..255 /\ j[2] \in 0..255
  BY <1>1, <1>3
<1>7. j \in Seq(0..255) /\ Len(j) = 2
  BY <1>3, <1>6
<1> QED
  BY <1>3, <1>4, <1>5, <1>7 DEF Is16, b, c

\* _to_u32 and _to_i32.
LEMMA To32Value ==
  ASSUME NEW bytes \in Seq(0..255), Len(bytes) = 4, NEW signed \in BOOLEAN
  PROVE  LET v == To32(bytes, 1, signed) IN
         /\ v = [i \in 1..4 |-> v[i]]
         /\ v[1] = IF signed /\ (bytes[2] >= 128 \/ bytes[3] >= 128 \/ bytes[4] >= 128)
                   THEN 255 ELSE bytes[1]
         /\ v[2] = IF signed /\ (bytes[3] >= 128 \/ bytes[4] >= 128) THEN 255 ELSE bytes[2]
         /\ v[3] = IF signed /\ bytes[4] >= 128 THEN 255 ELSE bytes[3]
         /\ v[4] = bytes[4]
<1> DEFINE high == To16(bytes, 1, signed)
           low == To16(bytes, 3, signed)
           v == Joined(high, low, signed)
<1>1. /\ high \in Seq(0..255) /\ Len(high) = 2 /\ high[2] = bytes[2]
      /\ high[1] = IF signed /\ bytes[2] >= 128 THEN 255 ELSE bytes[1]
  <2>1. 1 \in 1..Len(bytes) /\ 1 + 1 \in 1..Len(bytes)
    OBVIOUS
  <2>2. Is16(bytes, 1, signed, high)
    BY <2>1, To16Value
  <2> HIDE DEF high
  <2> QED
    BY <2>2 DEF Is16
<1>2. /\ low \in Seq(0..255) /\ Len(low) = 2 /\ low[2] = bytes[4]
      /\ low[1] = IF signed /\ bytes[4] >= 128 THEN 255 ELSE bytes[3]
  <2>1. 3 \in 1..Len(bytes) /\ 3 + 1 \in 1..Len(bytes)
    OBVIOUS
  <2>2. Is16(bytes, 3, signed, low)
    BY <2>1, To16Value
  <2> HIDE DEF low
  <2> QED
    BY <2>2 DEF Is16
<1>3. To32(bytes, 1, signed) = v
  BY DEF To32
<1>4. \A i \in 1..4 : bytes[i] \in 0..255
  BY ElementOfSequence
<1> HIDE DEF high, low
<1>5. /\ v = [i \in 1..4 |-> v[i]]
      /\ v[1] = (IF Fill(low, signed) = 255 THEN 255 ELSE high[1])
      /\ v[2] = (IF Fill(low, signed) = 255 THEN 255 ELSE high[2])
      /\ v[3] = low[1] /\ v[4] = low[2]
  <2>1. 2 \in Nat /\ 2 + 2 = 4 /\ 1 \in 1..2 /\ 2 \in 1..2 /\ 3 \in (2 + 1)..(2 + 2)
        /\ 4 \in (2 + 1)..(2 + 2) /\ 3 - 2 = 1 /\ 4 - 2 = 2
    OBVIOUS
  <2>2. JoinedOf(2, high, low, signed, v)
    BY <1>1, <1>2, <2>1, JoinedElements
  <2> HIDE DEF v
  <2> QED
    BY <2>1, <2>2 DEF JoinedOf
<1>6. Fill(low, signed) = 255 <=> signed /\ (bytes[3] >= 128 \/ bytes[4] >= 128)
  BY <1>2, <1>4 DEF Fill
<1> HIDE DEF v
<1> QED
  BY <1>1, <1>2, <1>3, <1>5, <1>6

\* A part of the input.
LEMMA SubSeqBytes ==
  ASSUME NEW s \in Seq(0..255), NEW i \in Nat, NEW j \in Nat, i <= j, j <= Len(s)
  PROVE  SubSeq(s, i + 1, j) \in Seq(0..255) /\ Len(SubSeq(s, i + 1, j)) = j - i
<1> DEFINE B == 0..255
<1>1. s \in Seq(B)
  OBVIOUS
<1> HIDE DEF B
<1>2. SubSeq(s, i + 1, j) \in Seq(B) /\ Len(SubSeq(s, i + 1, j)) = j - i
  BY <1>1
<1> QED
  BY <1>2 DEF B

\* A sequence is the function of its elements.
LEMMA SequenceAsFunction ==
  ASSUME NEW S, NEW s \in Seq(S)
  PROVE  DOMAIN s = 1..Len(s) /\ s = [i \in 1..Len(s) |-> s[i]]
  OBVIOUS

\* Two functions with the same values.
LEMMA SameTwo ==
  ASSUME NEW v, NEW w, v = [i \in 1..2 |-> v[i]], w = [i \in 1..2 |-> w[i]],
         v[1] = w[1], v[2] = w[2]
  PROVE  v = w
<1>1. \A i \in 1..2 : i = 1 \/ i = 2
  OBVIOUS
<1>2. \A i \in 1..2 : v[i] = w[i]
  BY <1>1
<1>3. [i \in 1..2 |-> v[i]] = [i \in 1..2 |-> w[i]]
  BY <1>2
<1> QED
  BY <1>3

\* The same for four bytes.
LEMMA SameFour ==
  ASSUME NEW v, NEW w, v = [i \in 1..4 |-> v[i]], w = [i \in 1..4 |-> w[i]],
         v[1] = w[1], v[2] = w[2], v[3] = w[3], v[4] = w[4]
  PROVE  v = w
<1>1. \A i \in 1..4 : i = 1 \/ i = 2 \/ i = 3 \/ i = 4
  OBVIOUS
<1>2. \A i \in 1..4 : v[i] = w[i]
  BY <1>1
<1>3. [i \in 1..4 |-> v[i]] = [i \in 1..4 |-> w[i]]
  BY <1>2
<1> QED
  BY <1>3

\* The value of an unsigned integer is the bytes it is decoded from.
LEMMA UnsignedValue ==
  ASSUME NEW bytes \in Seq(0..255), Len(bytes) \in {1, 2, 4}
  PROVE  DecodedInteger(bytes, FALSE) = bytes
<1>1. bytes = [i \in 1..Len(bytes) |-> bytes[i]]
  BY SequenceAsFunction
<1>2. CASE Len(bytes) = 1
  BY <1>1, <1>2 DEF DecodedInteger
<1>3. CASE Len(bytes) = 2
  <2> DEFINE v == To16(bytes, 1, FALSE)
  <2>1. 1 \in 1..Len(bytes) /\ 1 + 1 \in 1..Len(bytes) /\ FALSE \in BOOLEAN
    BY <1>3
  <2>2. Is16(bytes, 1, FALSE, v)
    BY <2>1, To16Value
  <2>3. DecodedInteger(bytes, FALSE) = v
    BY <1>3 DEF DecodedInteger
  <2> HIDE DEF v
  <2>4. v = [i \in 1..2 |-> v[i]] /\ v[1] = bytes[1] /\ v[2] = bytes[2]
    BY <2>2 DEF Is16
  <2> QED
    BY <1>1, <1>3, <2>3, <2>4, SameTwo
<1>4. CASE Len(bytes) = 4
  <2> DEFINE v == To32(bytes, 1, FALSE)
  <2>1. /\ v = [i \in 1..4 |-> v[i]] /\ v[1] = bytes[1] /\ v[2] = bytes[2]
        /\ v[3] = bytes[3] /\ v[4] = bytes[4]
    BY <1>4, To32Value
  <2>2. DecodedInteger(bytes, FALSE) = v
    BY <1>4 DEF DecodedInteger
  <2> HIDE DEF v
  <2> QED
    BY <1>1, <1>4, <2>1, <2>2, SameFour
<1> QED
  BY <1>2, <1>3, <1>4

\* A signed one has ones before every byte of 0x80 and above.
LEMMA SignedValue ==
  ASSUME NEW bytes \in Seq(0..255), Len(bytes) = 4, NEW i \in 1..4
  PROVE  DecodedInteger(bytes, TRUE)[i] =
           IF \E k \in (i + 1)..4 : bytes[k] >= 128 THEN 255 ELSE bytes[i]
<1> DEFINE v == To32(bytes, 1, TRUE)
<1>1. /\ v[1] = (IF bytes[2] >= 128 \/ bytes[3] >= 128 \/ bytes[4] >= 128 THEN 255 ELSE bytes[1])
      /\ v[2] = (IF bytes[3] >= 128 \/ bytes[4] >= 128 THEN 255 ELSE bytes[2])
      /\ v[3] = (IF bytes[4] >= 128 THEN 255 ELSE bytes[3])
      /\ v[4] = bytes[4]
  BY To32Value
<1>2. DecodedInteger(bytes, TRUE) = v
  BY DEF DecodedInteger
<1> HIDE DEF v
<1>3. CASE i = 1
  <2>1. (i + 1)..4 = {2, 3, 4}
    BY <1>3
  <2> QED
    BY <1>1, <1>2, <1>3, <2>1
<1>4. CASE i = 2
  <2>1. (i + 1)..4 = {3, 4}
    BY <1>4
  <2> QED
    BY <1>1, <1>2, <1>4, <2>1
<1>5. CASE i = 3
  <2>1. (i + 1)..4 = {4}
    BY <1>5
  <2> QED
    BY <1>1, <1>2, <1>5, <2>1
<1>6. CASE i = 4
  <2>1. (i + 1)..4 = {}
    BY <1>6
  <2> QED
    BY <1>1, <1>2, <1>6, <2>1
<1>7. i = 1 \/ i = 2 \/ i = 3 \/ i = 4
  OBVIOUS
<1> QED
  BY <1>3, <1>4, <1>5, <1>6, <1>7

\* Integers are decoded from the bytes of their region in the order of the
\* input, with the bytes before a negative one lost if they are signed.
THEOREM IntegersFromBytesHolds == Spec => []IntegersFromBytes
<1>1. ASSUME LInv, NEW n \in DOMAIN regions
      PROVE  LET bytes == SubSeq(data, regions[n].from + 1, regions[n].to)
             IN  /\ regions[n].type \in {"u8", "u16", "char"} => regions[n].value = bytes
                 /\ regions[n].type = "i32" =>
                      \A i \in DOMAIN bytes :
                        regions[n].value[i] =
                          IF \E k \in (i + 1)..Len(bytes) : bytes[k] >= 128 THEN 255 ELSE bytes[i]
  <2> DEFINE r == regions[n]
             bytes == SubSeq(data, r.from + 1, r.to)
  <2>1. /\ r.from \in Nat /\ r.to \in Nat /\ r.from <= r.to /\ r.to <= data_len /\ HasValue(r)
        /\ FixedIn(r, 0, fixed_start_index) \/ \E i \in 0..(TotalDynamicParams - 1) : IsShare(r, i)
    BY <1>1, RegionWithin
  <2>2. data \in Seq(0..255)
    BY <1>1 DEF LInv, LTypeOK
  <2> HIDE DEF r
  <2>3. SUFFICES ASSUME r.type \in {"u8", "u16", "char", "i32"}
                 PROVE  /\ r.type \in {"u8", "u16", "char"} => r.value = bytes
                        /\ r.type = "i32" =>
                             \A i \in DOMAIN bytes :
                               r.value[i] = IF \E k \in (i + 1)..Len(bytes) : bytes[k] >= 128
                                            THEN 255 ELSE bytes[i]
    BY DEF r
  <2>4. ~Dynamic(r.type)
    BY <2>3 DEF Dynamic
  <2>5. r.to = r.from + DecoderReads(r.type)
    BY <2>1, <2>4 DEF FixedIn, IsShare
  <2>6. bytes \in Seq(0..255) /\ Len(bytes) = r.to - r.from
    BY <2>1, <2>2, SubSeqBytes DEF data_len
  <2>7. r.value = DecodedInteger(bytes, r.type = "i32")
    <3>1. ~(r.to > data_len)
      BY <2>1, <2>2 DEF data_len
    <3> QED
      BY <2>1, <2>3, <2>4, <3>1 DEF HasValue, Decoded
  <2> HIDE DEF bytes
  <2>8. CASE r.type \in {"u8", "u16", "char"}
    <3>1. DecoderReads(r.type) \in {1, 2, 4} /\ r.type # "i32"
      BY <2>8 DEF DecoderReads
    <3>2. Len(bytes) \in {1, 2, 4}
      BY <2>1, <2>5, <2>6, <3>1
    <3>3. r.value = DecodedInteger(bytes, FALSE)
      BY <2>7, <3>1
    <3> QED
      BY <2>6, <3>1, <3>2, <3>3, UnsignedValue
  <2>9. CASE r.type = "i32"
    <3>1. DecoderReads(r.type) = 4
      BY <2>9 DEF DecoderReads
    <3>2. Len(bytes) = 4
      BY <2>1, <2>5, <2>6, <3>1
    <3>3. r.value = DecodedInteger(bytes, TRUE)
      BY <2>7, <2>9
    <3>4. DOMAIN bytes = 1..4
      BY <2>6, <3>2, SequenceAsFunction
    <3>5. \A i \in 1..4 : r.value[i] = IF \E k \in (i + 1)..4 : bytes[k] >= 128
                                       THEN 255 ELSE bytes[i]
      <4> DEFINE v == DecodedInteger(bytes, TRUE)
      <4>1. \A i \in 1..4 : v[i] = IF \E k \in (i + 1)..4 : bytes[k] >= 128
                                       THEN 255 ELSE bytes[i]
        <5> TAKE i \in 1..4
        <5> QED
          BY <2>6, <3>2, SignedValue
      <4>2. r.value = v
        BY <3>3
      <4> HIDE DEF v
      <4> QED
        BY <4>1, <4>2
    <3> QED
      BY <2>9, <3>2, <3>4, <3>5
  <2> QED
    BY <2>3, <2>8, <2>9
<1>2. LInv => IntegersFromBytes
  BY <1>1 DEF IntegersFromBytes
<1> QED
  BY <1>2, LayoutInvariant, PTL

-----------------------------------------------------------------------------
(* Decoders *)

\* The part of a sequence at its last position.
LEMMA LastPart ==
  ASSUME NEW S, NEW s \in Seq(S), s # <<>>
  PROVE  SubSeq(s, Len(s), Len(s)) = <<s[Len(s)]>>
<1> DEFINE n == Len(s)
           e == SubSeq(s, n, n)
<1>1. n \in Nat /\ n >= 1 /\ n - n + 1 = 1 /\ n + 1 - 1 = n
  OBVIOUS
<1>2. e \in Seq(S) /\ Len(e) = 1 /\ e[1] = s[n]
  BY <1>1
<1> HIDE DEF e, n
<1>3. e = <<e[1]>>
  BY <1>2
<1> QED
  BY <1>2, <1>3 DEF e, n

\* What the decoders return without nesting.
FuzzableLeaves == {"u8", "u16", "i32", "char", "bool", "RefStr"}

\* The component of a variable is a primitive type, RefStr or a slice.
LEMMA ComponentShape ==
  ASSUME NEW ft \in Decodable
  PROVE  \/ \E c \in FuzzableLeaves : Component(ft) = <<c>>
         \/ Component(ft) = <<"str">> /\ Last(ft) = "str"
         \/ Len(Component(ft)) \in Nat \ {0, 1} /\ Component(ft)[1] = "RefSlice"
<1> DEFINE n == Len(ft)
           depth == {k \in DOMAIN ft : \A m \in 1..(k - 1) : ft[m] = "Tuple"}
           d == CHOOSE k \in depth : \A m \in depth : m <= k
<1>1. /\ n \in Nat /\ n # 0 /\ DOMAIN ft = 1..n /\ ft \in Seq(FuzzableNames)
      /\ \A k \in 1..(n - 1) : ft[k] \in {"Tuple", "RefSlice"}
      /\ ft[n] \in FuzzableLeaves \cup {"str"} /\ ft # <<>>
  BY DecodableShape DEF Decodable, FuzzableLeaves, PrimTypes, Numbers
<1>2. 1 \in depth /\ depth \subseteq 1..n
  BY <1>1
<1>3. \E k \in depth : \A m \in depth : m <= k
  <2> DEFINE S == {x \in Nat : n - x \in depth}
  <2>1. S \in SUBSET Nat /\ n - 1 \in S
    BY <1>1, <1>2
  <2>2. PICK x \in S : \A y \in S : x <= y
    BY <2>1, LeastNumber
  <2>3. ASSUME NEW m \in depth PROVE m <= n - x
    <3>1. m \in 1..n /\ n - m \in Nat /\ n - (n - m) = m
      BY <1>1, <1>2
    <3>2. n - m \in S
      BY <3>1, <2>3
    <3> QED
      BY <1>1, <2>2, <3>1, <3>2
  <2> QED
    BY <2>2, <2>3
<1>4. d \in depth /\ \A m \in depth : m <= d
  <2> HIDE DEF depth
  <2> QED
    BY <1>3
<1>5. d \in 1..n /\ \A m \in 1..(d - 1) : ft[m] = "Tuple"
  BY <1>1, <1>4
<1>6. Component(ft) = SubSeq(ft, d, n)
  BY DEF Component, Suffix
<1>7. ASSUME ft[d] = "Tuple", d # n PROVE FALSE
  <2>1. d + 1 \in 1..n
    BY <1>1, <1>5, <1>7
  <2>2. ASSUME NEW m \in 1..((d + 1) - 1) PROVE ft[m] = "Tuple"
    <3>1. m = d \/ m \in 1..(d - 1)
      BY <1>5
    <3> QED
      BY <1>5, <1>7, <3>1
  <2>3. d + 1 \in depth
    BY <1>1, <2>1, <2>2
  <2> HIDE DEF d, depth
  <2> QED
    BY <1>1, <1>4, <1>5, <2>3
<1> HIDE DEF d, depth
<1>8. CASE d = n
  <2>1. SubSeq(ft, n, n) = <<ft[n]>>
    BY <1>1, LastPart
  <2> QED
    BY <1>1, <1>6, <1>8, <2>1 DEF Last
<1>9. CASE d # n
  <2>0. d \in 1..(n - 1)
    <3>1. d \in 1..n /\ n \in Nat /\ d # n
      BY <1>1, <1>5, <1>9
    <3> HIDE DEF n
    <3> QED
      BY <3>1
  <2>1. ft[d] = "RefSlice"
    <3>1. ft[d] \in {"Tuple", "RefSlice"}
      BY <1>1, <2>0
    <3> QED
      BY <1>7, <1>9, <3>1
  <2>2. Len(SubSeq(ft, d, n)) = n - d + 1 /\ SubSeq(ft, d, n)[1] = ft[d]
    BY <1>1, <1>5
  <2>3. n - d + 1 \in Nat \ {0, 1}
    BY <1>1, <2>0
  <2> QED
    BY <1>6, <2>1, <2>2, <2>3
<1> QED
  BY <1>8, <1>9

\* The functions that are defined for a variable.
FunctionsFor(ft) == {FunctionOf(h) : h \in GetAllDependentAflHelpers(ft)}

\* The functions that the decoder of a primitive type, RefStr or slice needs.
ClosedFor(c, functions) ==
  FunctionOf(c) \in functions /\ \A f \in functions : Calls(f) \subseteq functions

\* The helper that a helper calls, itself if it calls none.
Called(h) == IF Len(h) = 1 THEN DependentHelper(h[1]) ELSE h

\* The helpers of a variable are a chain of calls.
LEMMA HelperChain ==
  ASSUME NEW a
  PROVE  WithDependents(WithDependents(WithDependents({a}))) =
           {a, Called(a), Called(Called(a)), Called(Called(Called(a)))}
<1>1. ASSUME NEW X PROVE WithDependents(X) = X \cup {Called(h) : h \in X}
  <2>1. ASSUME NEW x \in WithDependents(X) PROVE x \in X \cup {Called(h) : h \in X}
    BY <2>1 DEF WithDependents, Called
  <2>2. ASSUME NEW h \in X PROVE Called(h) \in WithDependents(X)
    BY DEF WithDependents, Called
  <2>3. X \subseteq WithDependents(X)
    BY DEF WithDependents
  <2> QED
    BY <2>1, <2>2, <2>3
<1>2. WithDependents({a}) = {a, Called(a)}
  BY <1>1
<1>3. WithDependents({a, Called(a)}) = {a, Called(a), Called(Called(a))}
  BY <1>1
<1>4. WithDependents({a, Called(a), Called(Called(a))}) =
        {a, Called(a), Called(Called(a)), Called(Called(Called(a)))}
  BY <1>1
<1> QED
  BY <1>2, <1>3, <1>4

\* The calls between the helpers of primitive types.
LEMMA HelperCalls ==
  /\ Called(<<>>) = <<>>
  /\ Called(<<"u8">>) = <<>> /\ Called(<<"i8">>) = <<>> /\ Called(<<"RefStr">>) = <<>>
  /\ Called(<<"bool">>) = <<"u8">> /\ Called(<<"u16">>) = <<"u8">>
  /\ Called(<<"i16">>) = <<"i8">> /\ Called(<<"i32">>) = <<"i16">>
  /\ Called(<<"u32">>) = <<"u16">> /\ Called(<<"char">>) = <<"u32">>
<1>1. /\ DependentHelper("u8") = <<>> /\ DependentHelper("i8") = <<>>
      /\ DependentHelper("RefStr") = <<>>
      /\ DependentHelper("bool") = <<"u8">> /\ DependentHelper("u16") = <<"u8">>
      /\ DependentHelper("i16") = <<"i8">> /\ DependentHelper("i32") = <<"i16">>
      /\ DependentHelper("u32") = <<"u16">> /\ DependentHelper("char") = <<"u32">>
  BY DEF DependentHelper
<1>2. \A p : Called(<<p>>) = DependentHelper(p)
  BY DEF Called
<1>3. Called(<<>>) = <<>>
  BY DEF Called
<1> QED
  BY <1>1, <1>2, <1>3

\* A str alone has no helper, and everything else has helpers.
LEMMA NoHelperOfStr ==
  ASSUME NEW ft
  PROVE  /\ Component(ft) = <<"str">> => GetAllDependentAflHelpers(ft) = {NoHelper}
         /\ Component(ft) # <<"str">> /\ Component(ft) # NoHelper =>
              NoHelper \notin GetAllDependentAflHelpers(ft)
<1> DEFINE a == NewFromFuzzable(Component(ft))
<1>1. GetAllDependentAflHelpers(ft) =
        {a, Called(a), Called(Called(a)), Called(Called(Called(a)))} \ {<<>>}
  BY HelperChain DEF GetAllDependentAflHelpers
<1>2. ASSUME NEW h, h # NoHelper PROVE Called(h) # NoHelper
  <2>1. CASE Len(h) # 1
    BY <1>2, <2>1 DEF Called
  <2>2. CASE Len(h) = 1
    <3>1. \A p : p # "NoHelper" => <<p>> # <<"NoHelper">>
      OBVIOUS
    <3>2. <<>> # <<"NoHelper">>
      OBVIOUS
    <3>3. DependentHelper(h[1]) \in {<<"u8">>, <<"i8">>, <<"i16">>, <<"u16">>, <<"u32">>, <<>>}
      BY DEF DependentHelper
    <3> QED
      BY <2>2, <3>1, <3>2, <3>3 DEF Called, NoHelper
  <2> QED
    BY <2>1, <2>2
<1>3. Called(NoHelper) = <<>> /\ Called(<<>>) = <<>> /\ NoHelper # <<>>
  BY DEF Called, NoHelper, DependentHelper
<1>4. ASSUME Component(ft) = <<"str">> PROVE GetAllDependentAflHelpers(ft) = {NoHelper}
  <2>1. a = NoHelper
    BY <1>4 DEF NewFromFuzzable
  <2> HIDE DEF a
  <2> QED
    BY <1>1, <1>3, <2>1
<1>5. ASSUME Component(ft) # <<"str">>, Component(ft) # NoHelper
      PROVE  NoHelper \notin GetAllDependentAflHelpers(ft)
  <2>1. a # NoHelper
    BY <1>5 DEF NewFromFuzzable
  <2> HIDE DEF a
  <2> QED
    BY <1>1, <1>2, <2>1
<1> QED
  BY <1>4, <1>5

\* The decoders a variable needs are defined for it.
LEMMA FunctionsClosed ==
  ASSUME NEW ft \in Decodable, Component(ft) # <<"str">>
  PROVE  ClosedFor(Component(ft), FunctionsFor(ft))
<1> DEFINE a == Component(ft)
<1>1. CASE Len(a) \in Nat \ {0, 1} /\ a[1] = "RefSlice"
  <2> HIDE DEF a
  <2>1. Len(a) # 1
    BY <1>1
  <2>2. a # <<>> /\ a # <<"str">> /\ Called(a) = a
    BY <1>1, <2>1 DEF Called
  <2>3. WithDependents(WithDependents(WithDependents({a}))) = {a}
    BY <2>2, HelperChain
  <2>4. GetAllDependentAflHelpers(ft) = {a}
    BY <2>2, <2>3 DEF GetAllDependentAflHelpers, NewFromFuzzable, a
  <2>5. FunctionOf(a) = "slice" /\ Calls("slice") = {}
    BY <1>1 DEF FunctionOf, Calls
  <2> QED
    BY <2>4, <2>5 DEF ClosedFor, FunctionsFor, a
<1>2. CASE \E c \in FuzzableLeaves : a = <<c>>
  <2>1. PICK c \in FuzzableLeaves : a = <<c>>
    BY <1>2
  <2> HIDE DEF a
  <2>2. a # <<"str">>
    BY <2>1 DEF FuzzableLeaves
  <2>3. GetAllDependentAflHelpers(ft) =
          {a, Called(a), Called(Called(a)), Called(Called(Called(a)))} \ {<<>>}
    BY <2>2, HelperChain DEF GetAllDependentAflHelpers, NewFromFuzzable, a
  <2>4. \A p : p # "RefSlice" => FunctionOf(<<p>>) = p
    BY DEF FunctionOf
  <2>5. /\ Calls("u8") = {} /\ Calls("i8") = {} /\ Calls("RefStr") = {}
        /\ Calls("bool") = {"u8"} /\ Calls("u16") = {"u8"} /\ Calls("i16") = {"i8"}
        /\ Calls("i32") = {"i16"} /\ Calls("u32") = {"u16"} /\ Calls("char") = {"u32"}
    BY DEF Calls
  <2>6. FunctionOf(a) = c
    BY <2>1, <2>4 DEF FuzzableLeaves
  <2>7. \A p : <<p>> # <<>>
    OBVIOUS
  <2>8. CASE c \in {"u8", "RefStr"}
    <3>1. GetAllDependentAflHelpers(ft) = {<<c>>}
      BY <2>1, <2>3, <2>7, <2>8, HelperCalls
    <3>2. FunctionsFor(ft) = {c}
      BY <2>1, <2>6, <3>1 DEF FunctionsFor
    <3> QED
      BY <2>5, <2>6, <2>8, <3>2 DEF ClosedFor, a
  <2>9. CASE c \in {"bool", "u16"}
    <3>1. GetAllDependentAflHelpers(ft) = {<<c>>, <<"u8">>}
      BY <2>1, <2>3, <2>7, <2>9, HelperCalls
    <3>2. FunctionsFor(ft) = {FunctionOf(<<c>>), FunctionOf(<<"u8">>)}
      BY <3>1, Zenon DEF FunctionsFor
    <3>3. FunctionsFor(ft) = {c, "u8"}
      BY <2>1, <2>4, <2>6, <3>2
    <3> QED
      BY <2>5, <2>6, <2>9, <3>3 DEF ClosedFor, a
  <2>10. CASE c = "i32"
    <3>1. GetAllDependentAflHelpers(ft) = {<<"i32">>, <<"i16">>, <<"i8">>}
      BY <2>1, <2>3, <2>7, <2>10, HelperCalls
    <3>2. FunctionsFor(ft) = {FunctionOf(<<"i32">>), FunctionOf(<<"i16">>), FunctionOf(<<"i8">>)}
      BY <3>1, Zenon DEF FunctionsFor
    <3>3. FunctionsFor(ft) = {"i32", "i16", "i8"}
      BY <2>4, <3>2
    <3> QED
      BY <2>5, <2>6, <2>10, <3>3 DEF ClosedFor, a
  <2>11. CASE c = "char"
    <3>1. GetAllDependentAflHelpers(ft) = {<<"char">>, <<"u32">>, <<"u16">>, <<"u8">>}
      BY <2>1, <2>3, <2>7, <2>11, HelperCalls
    <3>2. FunctionsFor(ft) = {FunctionOf(<<"char">>), FunctionOf(<<"u32">>),
                              FunctionOf(<<"u16">>), FunctionOf(<<"u8">>)}
      BY <3>1, Zenon DEF FunctionsFor
    <3>3. FunctionsFor(ft) = {"char", "u32", "u16", "u8"}
      BY <2>4, <3>2
    <3> QED
      BY <2>5, <2>6, <2>11, <3>3 DEF ClosedFor, a
  <2> QED
    BY <2>8, <2>9, <2>10, <2>11 DEF FuzzableLeaves
<1> QED
  BY <1>1, <1>2, ComponentShape

\* Every decoder that is called by the closure of a test, or by another decoder, is
\* defined in the test: for every list of variables, those of a str that is not behind
\* & excepted, for which nothing is called.
THEOREM CalledDecodersDefinedHolds == Spec => []CalledDecodersDefined
<1>1. ASSUME LInv PROVE CalledDecodersDefined
  <2> DEFINE N == DOMAIN fuzzable_params
             variable(n) == fuzzable_params[n]
             defined == {FunctionOf(h) : h \in HelpersOfSequence(fuzzable_params) \ {NoHelper}}
  <2>1. ASSUME NEW n \in N PROVE variable(n) \in Decodable
    <3>1. fuzzable_params \in Seq(Addable)
      BY <1>1 DEF LInv, LTypeOK
    <3>2. variable(n) \in Addable
      BY <3>1, SequenceAsFunction, ElementOfSequence
    <3> QED
      BY <3>2 DEF Addable
  <2>2. ASSUME NEW n \in N
        PROVE  /\ Component(variable(n)) # <<"str">> => NoHelper \notin GetAllDependentAflHelpers(variable(n))
               /\ Component(variable(n)) = <<"str">> =>
                    GetAllDependentAflHelpers(variable(n)) = {NoHelper} /\ Last(variable(n)) = "str"
    <3> DEFINE c == Component(variable(n))
    <3>1. \/ \E l \in FuzzableLeaves : c = <<l>>
          \/ c = <<"str">> /\ Last(variable(n)) = "str"
          \/ Len(c) \in Nat \ {0, 1} /\ c[1] = "RefSlice"
      BY <2>1, ComponentShape
    <3> HIDE DEF c
    <3>2. c # NoHelper
      BY <3>1 DEF NoHelper, FuzzableLeaves
    <3>3. c = <<"str">> => Last(variable(n)) = "str"
      BY <3>1 DEF FuzzableLeaves
    <3> QED
      BY <3>2, <3>3, NoHelperOfStr DEF c
  <2>3. \A f : f \in defined <=> \E n \in N : /\ Component(variable(n)) # <<"str">>
                                            /\ f \in FunctionsFor(variable(n))
    <3>1. \A h : h \in HelpersOfSequence(fuzzable_params) \ {NoHelper} <=>
                  \E n \in N : Component(variable(n)) # <<"str">> /\ h \in GetAllDependentAflHelpers(variable(n))
      BY <2>2 DEF HelpersOfSequence
    <3> QED
      BY <3>1, Zenon DEF FunctionsFor
  <2> HIDE DEF defined
  <2>4. \A n \in N : Component(variable(n)) # <<"str">> => ClosedFor(Component(variable(n)), FunctionsFor(variable(n)))
    BY <2>1, FunctionsClosed
  <2>5. \A n \in N : FunctionOf(Component(variable(n))) \in defined \/ Last(variable(n)) = "str"
    BY <2>2, <2>3, <2>4 DEF ClosedFor
  <2>6. \A f \in defined : Calls(f) \subseteq defined
    BY <2>3, <2>4, Zenon DEF ClosedFor
  <2> QED
    BY <2>5, <2>6 DEF CalledDecodersDefined, defined
<1> QED
  BY <1>1, LayoutInvariant, PTL

-----------------------------------------------------------------------------
(* Types and call types as sequences *)

\* What computes a function on the positions of a sequence from the inside out.
InwardStep(n, V, step) ==
  /\ n \in Nat /\ V # {}
  /\ step \in [1..n -> [[1..n -> V] -> V]]
  /\ \A k \in 1..n : \A f, g \in [1..n -> V] :
       (k # n => f[k + 1] = g[k + 1]) => step[k][f] = step[k][g]

\* Such a function exists.
LEMMA InwardRecursion ==
  ASSUME NEW n, NEW V, NEW step, InwardStep(n, V, step)
  PROVE  HasSolution(1..n, V, step)
<1> DEFINE D == 1..n
           rank == [k \in D |-> n - k]
<1>1. n \in Nat /\ V # {} /\ step \in [D -> [[D -> V] -> V]]
  BY DEF InwardStep
<1>2. rank \in [D -> Nat] /\ n + 1 \in Nat /\ \A k \in D : rank[k] < n + 1
  BY <1>1
<1>3. ASSUME NEW k \in D, NEW f \in [D -> V], NEW g \in [D -> V],
             \A y \in D : rank[y] < rank[k] => f[y] = g[y]
      PROVE  step[k][f] = step[k][g]
  <2>1. k # n => k + 1 \in D /\ rank[k + 1] < rank[k]
    BY <1>1
  <2>2. k # n => f[k + 1] = g[k + 1]
    BY <1>3, <2>1
  <2> QED
    BY <2>2 DEF InwardStep
<1> HIDE DEF D, rank
<1>4. Recursive(D, V, rank, n + 1, step)
  BY <1>1, <1>2, <1>3 DEF Recursive
<1> QED
  BY <1>4, Recursion DEF D

\* Sequences with the same elements.
LEMMA SameSequence ==
  ASSUME NEW S, NEW s \in Seq(S), NEW t \in Seq(S), Len(s) = Len(t),
         \A i \in 1..Len(s) : s[i] = t[i]
  PROVE  s = t
  OBVIOUS

\* t is s with one more constructor, c, around it.
IsAround(S, c, s, t) ==
  /\ t \in Seq(S) /\ Len(t) = Len(s) + 1 /\ t # <<>>
  /\ t[1] = c /\ \A k \in 1..Len(s) : t[k + 1] = s[k]
  /\ Head(t) = c /\ Tail(t) = s

\* The constructor in front of the sequence does that.
LEMMA OneMore ==
  ASSUME NEW S, NEW s \in Seq(S), NEW c \in S
  PROVE  IsAround(S, c, s, <<c>> \o s)
<1> DEFINE t == <<c>> \o s
<1>1. t \in Seq(S) /\ Len(t) = Len(s) + 1 /\ Len(t) # 0
  OBVIOUS
<1>2. t[1] = c /\ \A k \in 1..Len(s) : t[k + 1] = s[k]
  OBVIOUS
<1> HIDE DEF t
<1>3. t # <<>> /\ Head(t) = c
  BY <1>1, <1>2
<1>4. Tail(t) = s
  <2>1. Tail(t) \in Seq(S) /\ Len(Tail(t)) = Len(s)
    BY <1>1, <1>3
  <2>2. \A k \in 1..Len(s) : Tail(t)[k] = s[k]
    BY <1>1, <1>2, <1>3
  <2> QED
    BY <2>1, <2>2
<1> QED
  BY <1>1, <1>2, <1>3, <1>4 DEF t, IsAround

\* A sequence is its head before its tail.
LEMMA Uncons ==
  ASSUME NEW S, NEW s \in Seq(S), s # <<>>
  PROVE  /\ Tail(s) \in Seq(S) /\ Len(Tail(s)) = Len(s) - 1 /\ Len(s) \in Nat \ {0}
         /\ \A k \in 1..(Len(s) - 1) : Tail(s)[k] = s[k + 1]
         /\ Head(s) = s[1] /\ s[1] \in S
  OBVIOUS

\* The part of a sequence from k on.
LEMMA SuffixElements ==
  ASSUME NEW S, NEW s \in Seq(S), NEW k \in 1..Len(s)
  PROVE  /\ Suffix(s, k) \in Seq(S) /\ Len(Suffix(s, k)) = Len(s) - k + 1
         /\ Suffix(s, k) # <<>>
         /\ \A i \in 1..(Len(s) - k + 1) : Suffix(s, k)[i] = s[k + i - 1]
<1>1. Suffix(s, k) \in Seq(S) /\ Len(Suffix(s, k)) = Len(s) - k + 1
  BY DEF Suffix
<1>2. Len(Suffix(s, k)) # 0
  BY <1>1
<1>3. \A i \in 1..(Len(s) - k + 1) : Suffix(s, k)[i] = s[k + i - 1]
  BY DEF Suffix
<1> QED
  BY <1>1, <1>2, <1>3

\* The part from the first position on is all of it.
LEMMA SequenceWhole ==
  ASSUME NEW S, NEW s \in Seq(S)
  PROVE  Suffix(s, 1) = s
  BY DEF Suffix

\* It is its first element in front of the part after it.
LEMMA SuffixCons ==
  ASSUME NEW S, NEW s \in Seq(S), NEW k \in 1..Len(s)
  PROVE  /\ k # Len(s) => Suffix(s, k) = <<s[k]>> \o Suffix(s, k + 1)
         /\ k = Len(s) => Suffix(s, k) = <<s[k]>>
         /\ k = 1 => Suffix(s, k) = s
<1> DEFINE t == Suffix(s, k)
           u == Suffix(s, k + 1)
<1>1. /\ t \in Seq(S) /\ Len(t) = Len(s) - k + 1
      /\ \A i \in 1..(Len(s) - k + 1) : t[i] = s[k + i - 1]
  BY SuffixElements
<1>2. s[k] \in S
  OBVIOUS
<1>3. CASE k # Len(s)
  <2>1. k + 1 \in 1..Len(s)
    BY <1>3
  <2>2. /\ u \in Seq(S) /\ Len(u) = Len(s) - (k + 1) + 1
        /\ \A i \in 1..(Len(s) - (k + 1) + 1) : u[i] = s[(k + 1) + i - 1]
    BY <2>1, SuffixElements
  <2> HIDE DEF t, u
  <2>3. /\ <<s[k]>> \o u \in Seq(S) /\ Len(<<s[k]>> \o u) = Len(u) + 1
        /\ (<<s[k]>> \o u)[1] = s[k] /\ \A i \in 1..Len(u) : (<<s[k]>> \o u)[i + 1] = u[i]
    <3>1. u \in Seq(S)
      BY <2>2
    <3> DEFINE v == <<s[k]>> \o u
    <3>2. IsAround(S, s[k], u, v)
      BY <1>2, <3>1, OneMore
    <3> HIDE DEF v
    <3>3. v \in Seq(S) /\ Len(v) = Len(u) + 1 /\ v[1] = s[k] /\ \A i \in 1..Len(u) : v[i + 1] = u[i]
      BY <3>2 DEF IsAround
    <3> QED
      BY <3>3 DEF v
  <2>4. Len(<<s[k]>> \o u) = Len(t)
    BY <1>1, <2>2, <2>3
  <2>5. ASSUME NEW i \in 1..Len(t) PROVE t[i] = (<<s[k]>> \o u)[i]
    <3>1. CASE i = 1
      BY <1>1, <2>3, <2>5, <3>1
    <3>2. CASE i # 1
      <4>1. i - 1 \in 1..Len(u) /\ (i - 1) + 1 = i /\ (k + 1) + (i - 1) - 1 = k + i - 1
        BY <1>1, <2>2, <2>5, <3>2
      <4>2. (<<s[k]>> \o u)[i] = u[i - 1]
        BY <2>3, <4>1
      <4> QED
        BY <1>1, <2>2, <2>5, <4>1, <4>2
    <3> QED
      BY <3>1, <3>2
  <2>6. t = <<s[k]>> \o u
    BY <1>1, <2>3, <2>4, <2>5, SameSequence
  <2> QED
    BY <1>3, <2>6, SequenceWhole DEF t, u
<1>4. CASE k = Len(s)
  BY <1>4, LastPart, SequenceWhole DEF Suffix
<1> QED
  BY <1>3, <1>4

\* The names a type is made of.
TypeNames == TypeWrappers \cup PrimTypes \cup StructTypes

\* The types, and what the text of an expression can have.
Types == {ty \in Seq(TypeNames) : IsType(ty)}
Typed == Types \cup {Untyped}

\* The call types of the edges of the graph and of decoded variables.
CallNames == Wrappers \cup Leaves
Calling ==
  {ct \in Seq(CallNames) :
     /\ ct # <<>> /\ \A k \in 1..(Len(ct) - 1) : ct[k] \in Wrappers
     /\ ct[Len(ct)] \in {"DirectCall", "AsConvert"}}

\* Constructors are not types of the crate.
LEMMA NotAConstructor ==
  ASSUME NEW c \in TypeWrappers
  PROVE  c \notin PrimTypes /\ c \notin StructTypes
  BY TypesAssumption DEF TypeWrappers, PrimTypes, Preludes, Pointers, Numbers

\* The shape of a type.
LEMMA TypeShape ==
  ASSUME NEW ty \in Types
  PROVE  /\ ty \in Seq(TypeNames) /\ ty # <<>> /\ Len(ty) \in Nat /\ Len(ty) # 0
         /\ DOMAIN ty = 1..Len(ty)
         /\ \A k \in 1..(Len(ty) - 1) : ty[k] \in TypeWrappers
         /\ ty[Len(ty)] \in PrimTypes \cup StructTypes
  BY DEF Types, IsType, TypeNames

\* What has that shape is a type.
LEMMA TypeIntro ==
  ASSUME NEW ty \in Seq(TypeNames), ty # <<>>,
         \A k \in 1..(Len(ty) - 1) : ty[k] \in TypeWrappers,
         ty[Len(ty)] \in PrimTypes \cup StructTypes
  PROVE  ty \in Types
  BY DEF Types, IsType, TypeNames

\* A constructor around a type is a type.
LEMMA TypeAround ==
  ASSUME NEW ty \in Types, NEW w \in TypeWrappers
  PROVE  <<w>> \o ty \in Types /\ <<w>> \o ty # <<>>
<1> DEFINE t == <<w>> \o ty
<1>1. ty \in Seq(TypeNames) /\ w \in TypeNames
  BY TypeShape DEF TypeNames
<1>2. IsAround(TypeNames, w, ty, t)
  BY <1>1, OneMore
<1> HIDE DEF t
<1>3. /\ t \in Seq(TypeNames) /\ Len(t) = Len(ty) + 1 /\ t # <<>> /\ t[1] = w
      /\ \A k \in 1..Len(ty) : t[k + 1] = ty[k]
  BY <1>2 DEF IsAround
<1>4. Len(ty) \in Nat /\ Len(ty) \in 1..Len(ty)
  BY TypeShape
<1>5. ASSUME NEW k \in 1..(Len(t) - 1) PROVE t[k] \in TypeWrappers
  <2>1. CASE k = 1
    BY <1>3, <2>1
  <2>2. CASE k # 1
    <3>1. k - 1 \in 1..(Len(ty) - 1) /\ k - 1 \in 1..Len(ty) /\ (k - 1) + 1 = k
      BY <1>3, <1>4, <1>5, <2>2
    <3> QED
      BY <1>3, <3>1, TypeShape
  <2> QED
    BY <2>1, <2>2
<1>6. t[Len(t)] \in PrimTypes \cup StructTypes
  BY <1>3, <1>4, TypeShape
<1>7. t \in Types
  BY <1>3, <1>5, <1>6, TypeIntro
<1> QED
  BY <1>3, <1>7 DEF t

\* Taking off its constructor leaves a type.
LEMMA TypeTail ==
  ASSUME NEW ty \in Types, Head(ty) \in TypeWrappers
  PROVE  Tail(ty) \in Types
<1> DEFINE t == Tail(ty)
<1>1. /\ ty \in Seq(TypeNames) /\ ty # <<>> /\ Len(ty) \in Nat
      /\ \A k \in 1..(Len(ty) - 1) : ty[k] \in TypeWrappers
      /\ ty[Len(ty)] \in PrimTypes \cup StructTypes
  BY TypeShape
<1>2. /\ t \in Seq(TypeNames) /\ Len(t) = Len(ty) - 1 /\ Len(ty) \in Nat \ {0}
      /\ \A k \in 1..(Len(ty) - 1) : t[k] = ty[k + 1]
      /\ ty[1] \in TypeWrappers
  BY <1>1, Uncons
<1> HIDE DEF t
<1>3. Len(ty) # 1
  BY <1>1, <1>2, NotAConstructor
<1>4. Len(t) # 0 /\ t # <<>>
  BY <1>2, <1>3
<1>5. \A k \in 1..(Len(t) - 1) : t[k] \in TypeWrappers
  BY <1>1, <1>2
<1>6. t[Len(t)] \in PrimTypes \cup StructTypes
  <2>1. Len(t) \in 1..(Len(ty) - 1) /\ Len(t) + 1 = Len(ty)
    BY <1>2, <1>3
  <2> QED
    BY <1>1, <1>2, <2>1
<1>7. t \in Types
  BY <1>2, <1>4, <1>5, <1>6, TypeIntro
<1> QED
  BY <1>7 DEF t

\* The text of a constructor around an expression has a type, or none.
LEMMA AroundTyped ==
  ASSUME NEW ty \in Typed, NEW c
  PROVE  Around(c, ty) \in Typed
<1>1. CASE ty = Untyped
  BY <1>1 DEF Around, Typed
<1>2. CASE ty # Untyped
  <2>1. ty \in Types
    BY <1>2 DEF Typed
  <2>2. \A w \in TypeWrappers : <<w>> \o ty \in Types
    BY <2>1, TypeAround
  <2>3. Head(ty) \in TypeWrappers => Tail(ty) \in Types
    BY <2>1, TypeTail
  <2>4. {"Ref", "RefMut", "Ptr", "Option", "Result"} \cup Pointers \subseteq TypeWrappers
    BY DEF TypeWrappers, Pointers, Preludes
  <2>5. CASE c \in {"BorrowedRef", "MutBorrowedRef", "ConstRawPointer", "ToOption", "ToResult"}
    BY <1>2, <2>2, <2>4, <2>5 DEF Around, Typed
  <2>6. CASE c \in {"Deref", "UnsafeDeref"}
    <3>1. Around(c, ty) = IF Head(ty) \in Pointers THEN Tail(ty) ELSE Untyped
      BY <1>2, <2>6 DEF Around
    <3> QED
      BY <2>3, <2>4, <3>1 DEF Typed
  <2>7. CASE c = "UnwrapOption"
    <3>1. Around(c, ty) = IF Head(ty) = "Option" THEN Tail(ty) ELSE Untyped
      BY <1>2, <2>7 DEF Around
    <3> QED
      BY <2>3, <2>4, <3>1 DEF Typed
  <2>8. CASE c = "UnwrapResult"
    <3>1. Around(c, ty) = IF Head(ty) = "Result" THEN Tail(ty) ELSE Untyped
      BY <1>2, <2>8 DEF Around
    <3> QED
      BY <2>3, <2>4, <3>1 DEF Typed
  <2>9. CASE c \notin {"BorrowedRef", "MutBorrowedRef", "ConstRawPointer", "ToOption", "ToResult",
                       "Deref", "UnsafeDeref", "UnwrapOption", "UnwrapResult"}
    BY <1>2, <2>9 DEF Around, Typed
  <2> QED
    BY <2>5, <2>6, <2>7, <2>8, <2>9
<1> QED
  BY <1>1, <1>2

\* The shape of a call type, whose last constructor is the only leaf.
LEMMA CallShape ==
  ASSUME NEW ct \in Calling
  PROVE  /\ ct \in Seq(CallNames) /\ ct # <<>> /\ Len(ct) \in Nat /\ Len(ct) # 0
         /\ \A k \in 1..(Len(ct) - 1) : ct[k] \in Wrappers
         /\ ct[Len(ct)] \in {"DirectCall", "AsConvert"}
         /\ \A k \in 1..Len(ct) : ct[k] \in {"DirectCall", "AsConvert"} <=> k = Len(ct)
<1>1. /\ ct \in Seq(CallNames) /\ ct # <<>>
      /\ \A k \in 1..(Len(ct) - 1) : ct[k] \in Wrappers
      /\ ct[Len(ct)] \in {"DirectCall", "AsConvert"}
  BY DEF Calling
<1>2. Len(ct) \in Nat /\ Len(ct) # 0
  BY <1>1
<1>3. \A w \in Wrappers : w \notin {"DirectCall", "AsConvert"}
  BY DEF Wrappers, Unwraps
<1>4. \A k \in 1..Len(ct) : k # Len(ct) => k \in 1..(Len(ct) - 1)
  BY <1>2
<1> QED
  BY <1>1, <1>2, <1>3, <1>4

\* A constructor around a call type is a call type.
LEMMA CallAround ==
  ASSUME NEW ct \in Calling, NEW c \in Wrappers
  PROVE  <<c>> \o ct \in Calling
<1> DEFINE t == <<c>> \o ct
<1>1. ct \in Seq(CallNames) /\ c \in CallNames
  BY CallShape DEF CallNames
<1>2. IsAround(CallNames, c, ct, t)
  BY <1>1, OneMore
<1> HIDE DEF t
<1>3. /\ t \in Seq(CallNames) /\ Len(t) = Len(ct) + 1 /\ t # <<>> /\ t[1] = c
      /\ \A k \in 1..Len(ct) : t[k + 1] = ct[k]
  BY <1>2 DEF IsAround
<1>4. Len(ct) \in Nat /\ Len(ct) \in 1..Len(ct)
  BY CallShape
<1>5. ASSUME NEW k \in 1..(Len(t) - 1) PROVE t[k] \in Wrappers
  <2>1. CASE k = 1
    BY <1>3, <2>1
  <2>2. CASE k # 1
    <3>1. k - 1 \in 1..(Len(ct) - 1) /\ k - 1 \in 1..Len(ct) /\ (k - 1) + 1 = k
      BY <1>3, <1>4, <1>5, <2>2
    <3> QED
      BY <1>3, <3>1, CallShape
  <2> QED
    BY <2>1, <2>2
<1>6. t[Len(t)] \in {"DirectCall", "AsConvert"}
  BY <1>3, <1>4, CallShape
<1>7. t \in Calling
  BY <1>3, <1>5, <1>6 DEF Calling
<1> QED
  BY <1>7 DEF t

\* The leaves are call types.
LEMMA LeafCalls ==
  ASSUME NEW c \in {"DirectCall", "AsConvert"}
  PROVE  <<c>> \in Calling
<1>1. c \in CallNames
  BY DEF CallNames, Leaves
<1>2. <<c>> \in Seq(CallNames) /\ <<c>> # <<>> /\ Len(<<c>>) = 1 /\ <<c>>[1] = c
  BY <1>1
<1> QED
  BY <1>2 DEF Calling

-----------------------------------------------------------------------------
(* The text of a call type *)

\* One level of the text has a type or none when the text inside does.
LEMMA TextFromTyped ==
  ASSUME NEW ct \in Calling, NEW ty \in Typed, NEW target \in PrimTypes \cup StructTypes, NEW text,
         NEW k \in 1..Len(ct), k # Len(ct) => text[k + 1] \in Typed
  PROVE  TextFrom(ct, ty, target, text, k) \in Typed
<1>1. <<target>> \in Typed
  <2>1. target \in TypeNames
    BY DEF TypeNames
  <2>2. <<target>> \in Seq(TypeNames) /\ <<target>> # <<>> /\ Len(<<target>>) = 1
        /\ <<target>>[1] = target
    BY <2>1
  <2>3. <<target>> \in Types
    <3> DEFINE t == <<target>>
    <3>1. /\ t \in Seq(TypeNames) /\ t # <<>> /\ \A i \in 1..(Len(t) - 1) : t[i] \in TypeWrappers
          /\ t[Len(t)] \in PrimTypes \cup StructTypes
      BY <2>2
    <3> HIDE DEF t
    <3>2. t \in Types
      BY <3>1, TypeIntro
    <3> QED
      BY <3>2 DEF t
  <2> QED
    BY <2>3 DEF Typed
<1>2. CASE ct[k] = "DirectCall"
  BY <1>2 DEF TextFrom
<1>3. CASE ct[k] = "AsConvert"
  BY <1>1, <1>3 DEF TextFrom, Typed
<1>4. CASE ct[k] \notin {"DirectCall", "AsConvert"}
  <2>1. text[k + 1] \in Typed
    BY <1>4, CallShape
  <2> QED
    BY <1>4, <2>1, AroundTyped DEF TextFrom
<1> QED
  BY <1>2, <1>3, <1>4

\* It only depends on the text inside.
LEMMA TextFromLocal ==
  ASSUME NEW ct \in Calling, NEW ty, NEW target, NEW f, NEW g,
         NEW k \in 1..Len(ct), k # Len(ct) => f[k + 1] = g[k + 1]
  PROVE  TextFrom(ct, ty, target, f, k) = TextFrom(ct, ty, target, g, k)
<1>1. CASE ct[k] \in {"DirectCall", "AsConvert"}
  BY <1>1 DEF TextFrom
<1>2. CASE ct[k] \notin {"DirectCall", "AsConvert"}
  <2>1. f[k + 1] = g[k + 1]
    BY <1>2, CallShape
  <2> QED
    BY <1>2, <2>1 DEF TextFrom
<1> QED
  BY <1>1, <1>2

\* The recursive definition of Texts.
LEMMA TextsUnfold ==
  ASSUME NEW ct \in Calling, NEW ty \in Typed, NEW target \in PrimTypes \cup StructTypes
  PROVE  LET text == Texts(ct, ty, target) IN
         /\ \A k \in 1..Len(ct) : text[k] \in Typed /\ text[k] = TextFrom(ct, ty, target, text, k)
<1> DEFINE n == Len(ct)
           V == Typed
           step == [k \in 1..n |-> [f \in [1..n -> V] |-> TextFrom(ct, ty, target, f, k)]]
           Is(f) == f = [k \in 1..n |-> TextFrom(ct, ty, target, f, k)]
<1>1. n \in Nat
  BY CallShape
<1>2. \E f : Is(f)
  <2>1. step \in [1..n -> [[1..n -> V] -> V]]
    <3>1. ASSUME NEW k \in 1..n, NEW f \in [1..n -> V] PROVE TextFrom(ct, ty, target, f, k) \in V
      <4>1. k # n => f[k + 1] \in V
        BY <1>1
      <4> QED
        BY <4>1, TextFromTyped
    <3> QED
      BY <3>1
  <2>2. ASSUME NEW k \in 1..n, NEW f \in [1..n -> V], NEW g \in [1..n -> V],
               k # n => f[k + 1] = g[k + 1]
        PROVE  step[k][f] = step[k][g]
    <3>1. TextFrom(ct, ty, target, f, k) = TextFrom(ct, ty, target, g, k)
      BY <2>2, TextFromLocal
    <3> QED
      BY <3>1
  <2>3. V # {}
    BY DEF Typed
  <2>4. HasSolution(1..n, V, step)
    <3> HIDE DEF n, V, step
    <3>1. InwardStep(n, V, step)
      BY <1>1, <2>1, <2>2, <2>3 DEF InwardStep
    <3> QED
      BY <3>1, InwardRecursion
  <2>5. PICK f \in [1..n -> V] : \A k \in 1..n : f[k] = step[k][f]
    BY <2>4 DEF HasSolution
  <2>6. Is(f)
    BY <2>5
  <2> QED
    BY <2>6
<1> DEFINE t == Texts(ct, ty, target)
<1>3. t = CHOOSE f : Is(f)
  BY DEF Texts
<1>4. Is(t)
  <2> HIDE DEF Is, t
  <2> QED
    BY <1>2, <1>3
<1> HIDE DEF t
<1> DEFINE P == {k \in 1..n : t[k] \in V}
<1>5. P = 1..n
  <2>1. ASSUME NEW k \in 1..n, k # n => k + 1 \in P PROVE k \in P
    <3>1. TextFrom(ct, ty, target, t, k) \in V
      BY <2>1, TextFromTyped
    <3> QED
      BY <1>4, <3>1
  <2>2. P \subseteq 1..n
    OBVIOUS
  <2> HIDE DEF P, n
  <2> QED
    BY <1>1, <2>1, <2>2, InwardInduction DEF Inward
<1>6. \A k \in 1..n : t[k] \in V /\ t[k] = TextFrom(ct, ty, target, t, k)
  BY <1>4, <1>5
<1> QED
  BY <1>6 DEF t

\* What a constructor writes around the text of the rest.
LEMMA TextAround ==
  ASSUME NEW ct \in Calling, NEW c \in Wrappers, NEW ty \in Typed,
         NEW target \in PrimTypes \cup StructTypes
  PROVE  CallString(<<c>> \o ct, ty, target) = Around(c, CallString(ct, ty, target))
<1> DEFINE n == Len(ct)
           u == <<c>> \o ct
           s == Texts(ct, ty, target)
           t == Texts(u, ty, target)
<1>1. n \in Nat /\ n # 0 /\ ct \in Seq(CallNames) /\ c \in CallNames
  BY CallShape DEF CallNames
<1>2. u \in Calling
  BY CallAround
<1>3. IsAround(CallNames, c, ct, u)
  BY <1>1, OneMore
<1>4. \A k \in 1..n : s[k] = TextFrom(ct, ty, target, s, k)
  BY TextsUnfold
<1>5. \A k \in 1..Len(u) : t[k] = TextFrom(u, ty, target, t, k)
  BY <1>2, TextsUnfold
<1> HIDE DEF u, s, t
<1>6. Len(u) = n + 1 /\ u[1] = c /\ \A k \in 1..n : u[k + 1] = ct[k]
  BY <1>3 DEF IsAround
<1> DEFINE P == {k \in 1..n : t[k + 1] = s[k]}
<1>7. P = 1..n
  <2>1. ASSUME NEW k \in 1..n, k # n => k + 1 \in P PROVE k \in P
    <3>1. k + 1 \in 1..Len(u) /\ u[k + 1] = ct[k]
      BY <1>1, <1>6
    <3>2. k # n => t[(k + 1) + 1] = s[k + 1]
      BY <2>1
    <3>3. CASE ct[k] \in {"DirectCall", "AsConvert"}
      <4>1. TextFrom(u, ty, target, t, k + 1) = TextFrom(ct, ty, target, s, k)
        BY <3>1, <3>3 DEF TextFrom
      <4> QED
        BY <1>4, <1>5, <3>1, <4>1
    <3>4. CASE ct[k] \notin {"DirectCall", "AsConvert"}
      <4>1. k # n
        BY <3>4, CallShape
      <4>2. TextFrom(u, ty, target, t, k + 1) = Around(ct[k], t[(k + 1) + 1])
        BY <3>1, <3>4 DEF TextFrom
      <4>3. TextFrom(ct, ty, target, s, k) = Around(ct[k], s[k + 1])
        BY <3>4 DEF TextFrom
      <4> QED
        BY <1>4, <1>5, <3>1, <3>2, <4>1, <4>2, <4>3
    <3> QED
      BY <3>3, <3>4
  <2>2. P \subseteq 1..n
    OBVIOUS
  <2> HIDE DEF P, n
  <2> QED
    BY <1>1, <2>1, <2>2, InwardInduction DEF Inward
<1>8. t[1 + 1] = s[1]
  <2>1. 1 \in 1..n
    BY <1>1
  <2> QED
    BY <1>7, <2>1
<1>9. t[1] = Around(c, t[1 + 1])
  <2>1. c \notin {"DirectCall", "AsConvert"}
    BY DEF Wrappers, Unwraps
  <2>2. 1 \in 1..Len(u)
    BY <1>1, <1>6
  <2>3. TextFrom(u, ty, target, t, 1) = Around(c, t[1 + 1])
    BY <1>6, <2>1 DEF TextFrom
  <2> QED
    BY <1>5, <2>2, <2>3
<1> QED
  BY <1>8, <1>9 DEF CallString, s, t, u

\* The text of a call type without constructors.
LEMMA TextOfLeaf ==
  ASSUME NEW c \in {"DirectCall", "AsConvert"}, NEW ty \in Typed,
         NEW target \in PrimTypes \cup StructTypes
  PROVE  CallString(<<c>>, ty, target) =
           IF c = "DirectCall" THEN ty
           ELSE IF Len(ty) = 1 /\ ty[1] \in Numbers \cup {"char"} THEN <<target>> ELSE Untyped
<1> DEFINE ct == <<c>>
           t == Texts(ct, ty, target)
<1>1. ct \in Calling
  BY LeafCalls
<1>2. Len(ct) = 1 /\ ct[1] = c /\ 1 \in 1..Len(ct)
  OBVIOUS
<1>3. t[1] = TextFrom(ct, ty, target, t, 1)
  BY <1>1, <1>2, TextsUnfold
<1> HIDE DEF ct, t
<1>4. t[1] = IF c = "DirectCall" THEN ty
             ELSE IF Len(ty) = 1 /\ ty[1] \in Numbers \cup {"char"} THEN <<target>> ELSE Untyped
  BY <1>2, <1>3 DEF TextFrom
<1> QED
  BY <1>4 DEF CallString, t, ct

\* The text of a call type has a type, or none.
LEMMA TextTyped ==
  ASSUME NEW ct \in Calling, NEW ty \in Typed, NEW target \in PrimTypes \cup StructTypes
  PROVE  CallString(ct, ty, target) \in Typed
<1>1. 1 \in 1..Len(ct)
  BY CallShape
<1> QED
  BY <1>1, TextsUnfold DEF CallString

-----------------------------------------------------------------------------
(* Splitting a call type *)

\* Pieces, one after the other.
Statements == Seq(Calling) \ {<<>>}

\* One more piece.
LEMMA Appended ==
  ASSUME NEW S, NEW s \in Seq(S), NEW e \in S
  PROVE  /\ Append(s, e) \in Seq(S) /\ Append(s, e) # <<>> /\ Len(Append(s, e)) = Len(s) + 1
         /\ Append(s, e)[Len(s) + 1] = e /\ \A n \in 1..Len(s) : Append(s, e)[n] = s[n]
<1> DEFINE t == Append(s, e)
<1>1. t \in Seq(S) /\ Len(t) = Len(s) + 1 /\ t[Len(s) + 1] = e /\ \A n \in 1..Len(s) : t[n] = s[n]
  OBVIOUS
<1> HIDE DEF t
<1>2. t # <<>>
  BY <1>1
<1> QED
  BY <1>1, <1>2 DEF t

\* A nonempty sequence is its front and its last element.
LEMMA FrontAndLast ==
  ASSUME NEW S, NEW s \in Seq(S), s # <<>>
  PROVE  /\ Front(s) \in Seq(S) /\ Len(Front(s)) = Len(s) - 1 /\ Len(s) \in Nat \ {0}
         /\ \A n \in 1..(Len(s) - 1) : Front(s)[n] = s[n]
         /\ Last(s) \in S /\ Last(s) = s[Len(s)]
<1>1. Len(s) \in Nat \ {0}
  OBVIOUS
<1>2. Last(s) \in S /\ Last(s) = s[Len(s)]
  BY <1>1 DEF Last
<1>3. Front(s) \in Seq(S) /\ Len(Front(s)) = Len(s) - 1
  <2>1. CASE Len(s) = 1
    BY <2>1 DEF Front
  <2>2. CASE Len(s) # 1
    <3>1. \A n \in Nat \ {0} : n # 1 => n - 1 \in 1..n /\ 1 \in 1..n /\ 1 <= n - 1
      OBVIOUS
    <3>2. Len(s) - 1 \in 1..Len(s) /\ 1 \in 1..Len(s) /\ 1 <= Len(s) - 1
      BY <1>1, <2>2, <3>1
    <3> QED
      BY <3>2 DEF Front
  <2> QED
    BY <2>1, <2>2
<1>4. \A n \in 1..(Len(s) - 1) : Front(s)[n] = s[n]
  BY <1>1 DEF Front
<1> QED
  BY <1>1, <1>2, <1>3, <1>4

\* A direct call is a call type that can be written.
LEMMA DirectCalling == DirectCall \in Calling
  BY LeafCalls DEF DirectCall

\* One level of the split gives pieces when the level inside does.
LEMMA SplitFromType ==
  ASSUME NEW ct \in Calling, NEW split, NEW k \in 1..Len(ct),
         k # Len(ct) => split[k + 1] \in Statements
  PROVE  SplitFrom(ct, split, k) \in Statements
<1>1. CASE k = Len(ct)
  <2>1. <<ct[k]>> \in Calling
    BY <1>1, CallShape, LeafCalls
  <2> DEFINE e == <<ct[k]>>
  <2>2. SplitFrom(ct, split, k) = <<e>>
    BY <1>1 DEF SplitFrom
  <2> HIDE DEF e
  <2>3. <<e>> \in Seq(Calling) /\ <<e>> # <<>>
    BY <2>1 DEF e
  <2> QED
    BY <2>2, <2>3 DEF Statements
<1>2. CASE k # Len(ct)
  <2>1. k \in 1..(Len(ct) - 1)
    BY <1>2, CallShape
  <2>2. ct[k] \in Wrappers
    BY <2>1, CallShape
  <2> DEFINE s == split[k + 1]
  <2>3. s \in Seq(Calling) /\ s # <<>>
    BY <1>2 DEF Statements
  <2> HIDE DEF s
  <2>4. <<ct[k]>> \o DirectCall \in Calling
    BY <2>2, DirectCalling, CallAround
  <2>5. Last(s) \in Calling /\ Front(s) \in Seq(Calling)
    BY <2>3, FrontAndLast
  <2>6. <<ct[k]>> \o Last(s) \in Calling
    BY <2>2, <2>5, CallAround
  <2>7. Append(s, <<ct[k]>> \o DirectCall) \in Statements
    BY <2>3, <2>4, Appended DEF Statements
  <2>8. Append(Front(s), <<ct[k]>> \o Last(s)) \in Statements
    BY <2>5, <2>6, Appended DEF Statements
  <2> QED
    BY <1>2, <2>7, <2>8 DEF SplitFrom, s
<1> QED
  BY <1>1, <1>2

\* The recursive definition of Splits.
LEMMA SplitsUnfold ==
  ASSUME NEW ct \in Calling
  PROVE  \A k \in 1..Len(ct) : /\ Splits(ct)[k] \in Statements
                               /\ Splits(ct)[k] = SplitFrom(ct, Splits(ct), k)
<1> DEFINE n == Len(ct)
           V == Statements
           step == [k \in 1..n |-> [f \in [1..n -> V] |-> SplitFrom(ct, f, k)]]
           Is(f) == f = [k \in 1..n |-> SplitFrom(ct, f, k)]
<1>1. n \in Nat
  BY CallShape
<1>2. \E f : Is(f)
  <2>1. step \in [1..n -> [[1..n -> V] -> V]]
    <3>1. ASSUME NEW k \in 1..n, NEW f \in [1..n -> V] PROVE SplitFrom(ct, f, k) \in V
      <4>1. k # n => f[k + 1] \in V
        BY <1>1
      <4> QED
        BY <4>1, SplitFromType
    <3> QED
      BY <3>1
  <2>2. ASSUME NEW k \in 1..n, NEW f \in [1..n -> V], NEW g \in [1..n -> V],
               k # n => f[k + 1] = g[k + 1]
        PROVE  step[k][f] = step[k][g]
    <3>1. SplitFrom(ct, f, k) = SplitFrom(ct, g, k)
      BY <2>2 DEF SplitFrom
    <3> QED
      BY <3>1
  <2>3. V # {}
    <3>1. <<DirectCall>> \in Seq(Calling) /\ <<DirectCall>> # <<>>
      BY DirectCalling
    <3> QED
      BY <3>1 DEF Statements
  <2>4. HasSolution(1..n, V, step)
    <3> HIDE DEF n, V, step
    <3>1. InwardStep(n, V, step)
      BY <1>1, <2>1, <2>2, <2>3 DEF InwardStep
    <3> QED
      BY <3>1, InwardRecursion
  <2>5. PICK f \in [1..n -> V] : \A k \in 1..n : f[k] = step[k][f]
    BY <2>4 DEF HasSolution
  <2>6. Is(f)
    BY <2>5
  <2> QED
    BY <2>6
<1> DEFINE t == Splits(ct)
<1>3. t = CHOOSE f : Is(f)
  BY DEF Splits
<1>4. Is(t)
  <2> HIDE DEF Is, t
  <2> QED
    BY <1>2, <1>3
<1> HIDE DEF t
<1> DEFINE P == {k \in 1..n : t[k] \in V}
<1>5. P = 1..n
  <2>1. ASSUME NEW k \in 1..n, k # n => k + 1 \in P PROVE k \in P
    <3>1. SplitFrom(ct, t, k) \in V
      BY <2>1, SplitFromType
    <3> QED
      BY <1>4, <3>1
  <2>2. P \subseteq 1..n
    OBVIOUS
  <2> HIDE DEF P, n
  <2> QED
    BY <1>1, <2>1, <2>2, InwardInduction DEF Inward
<1>6. \A k \in 1..n : t[k] \in V /\ t[k] = SplitFrom(ct, t, k)
  BY <1>4, <1>5
<1> QED
  BY <1>6 DEF t

\* vs are the types of the variables that the pieces bind one after the other, the
\* first from a variable of type ty.
Binds(pieces, ty, target, vs) ==
  /\ vs \in [0..Len(pieces) -> Typed] /\ vs[0] = ty
  /\ \A n \in 1..Len(pieces) : vs[n] = CallString(pieces[n], vs[n - 1], target)

\* The pieces make a value of type v.
Makes(pieces, ty, target, v) ==
  \E vs \in [0..Len(pieces) -> Typed] : Binds(pieces, ty, target, vs) /\ v = vs[Len(pieces)]

\* One more piece.
LEMMA MakesNext ==
  ASSUME NEW pieces \in Seq(Calling), NEW ct \in Calling, NEW ty \in Typed, NEW v,
         NEW target \in PrimTypes \cup StructTypes, Makes(pieces, ty, target, v)
  PROVE  v \in Typed /\ Makes(Append(pieces, ct), ty, target, CallString(ct, v, target))
<1>1. PICK vs \in [0..Len(pieces) -> Typed] :
        Binds(pieces, ty, target, vs) /\ v = vs[Len(pieces)]
  BY DEF Makes
<1> DEFINE n == Len(pieces)
           w == CallString(ct, v, target)
           all == Append(pieces, ct)
           ws == [i \in 0..(n + 1) |-> IF i = n + 1 THEN w ELSE vs[i]]
<1>2. n \in Nat /\ v \in Typed
  BY <1>1
<1>3. w \in Typed
  BY <1>2, TextTyped
<1>4. Len(all) = n + 1 /\ all[n + 1] = ct /\ \A i \in 1..n : all[i] = pieces[i]
  BY Appended
<1> HIDE DEF w, all
<1>5. ws \in [0..Len(all) -> Typed]
  BY <1>1, <1>2, <1>3, <1>4
<1>6. ws[0] = ty
  BY <1>1, <1>2 DEF Binds
<1>7. ASSUME NEW i \in 1..Len(all) PROVE ws[i] = CallString(all[i], ws[i - 1], target)
  <2>1. CASE i = n + 1
    <3>1. ws[i] = w /\ ws[i - 1] = v /\ all[i] = ct
      BY <1>1, <1>2, <1>4, <2>1
    <3> QED
      BY <3>1 DEF w
  <2>2. CASE i # n + 1
    <3>1. i \in 1..n
      BY <1>2, <1>4, <1>7, <2>2
    <3>2. ws[i] = vs[i] /\ ws[i - 1] = vs[i - 1] /\ all[i] = pieces[i]
      BY <1>2, <1>4, <3>1
    <3>3. vs[i] = CallString(pieces[i], vs[i - 1], target)
      BY <1>1, <3>1 DEF Binds
    <3> QED
      BY <3>2, <3>3
  <2> QED
    BY <2>1, <2>2
<1>8. w = ws[Len(all)]
  BY <1>2, <1>4
<1> HIDE DEF ws
<1>9. Makes(all, ty, target, w)
  BY <1>5, <1>6, <1>7, <1>8 DEF Makes, Binds
<1> QED
  BY <1>2, <1>9 DEF w, all

\* The last piece is applied to what those before it make.
LEMMA MakesFront ==
  ASSUME NEW pieces \in Statements, NEW ty \in Typed, NEW v,
         NEW target \in PrimTypes \cup StructTypes, Makes(pieces, ty, target, v)
  PROVE  \E u \in Typed : /\ Makes(Front(pieces), ty, target, u)
                          /\ v = CallString(Last(pieces), u, target)
<1>1. PICK vs \in [0..Len(pieces) -> Typed] :
        Binds(pieces, ty, target, vs) /\ v = vs[Len(pieces)]
  BY DEF Makes
<1> DEFINE n == Len(pieces)
           init == Front(pieces)
           ws == [i \in 0..(n - 1) |-> vs[i]]
<1>2. pieces \in Seq(Calling) /\ pieces # <<>>
  BY DEF Statements
<1>3. /\ Len(init) = n - 1 /\ n \in Nat \ {0} /\ Last(pieces) = pieces[n]
      /\ \A i \in 1..(n - 1) : init[i] = pieces[i]
  BY <1>2, FrontAndLast
<1> HIDE DEF init
<1>4. ws \in [0..Len(init) -> Typed] /\ ws[0] = ty /\ ws[n - 1] = vs[n - 1] /\ vs[n - 1] \in Typed
  <2>1. n - 1 \in 0..(n - 1) /\ 0 \in 0..(n - 1) /\ 0..(n - 1) \subseteq 0..n
    BY <1>3
  <2>2. ws \in [0..(n - 1) -> Typed] /\ ws[0] = vs[0] /\ ws[n - 1] = vs[n - 1] /\ vs[n - 1] \in Typed
    BY <1>1, <2>1
  <2> QED
    BY <1>1, <1>3, <2>2 DEF Binds
<1>5. ASSUME NEW i \in 1..Len(init) PROVE ws[i] = CallString(init[i], ws[i - 1], target)
  <2>1. i \in 1..n /\ i \in 1..(n - 1) /\ i - 1 \in 0..(n - 1) /\ i \in 0..(n - 1)
    BY <1>3, <1>5
  <2>2. vs[i] = CallString(pieces[i], vs[i - 1], target)
    BY <1>1, <2>1 DEF Binds
  <2> QED
    BY <1>3, <2>1, <2>2
<1>6. v = CallString(Last(pieces), vs[n - 1], target)
  BY <1>1, <1>3 DEF Binds
<1> HIDE DEF ws
<1>7. Makes(init, ty, target, vs[n - 1])
  BY <1>3, <1>4, <1>5 DEF Makes, Binds
<1> QED
  BY <1>4, <1>6, <1>7 DEF init

\* Without pieces the variable itself is passed.
LEMMA MakesNothing ==
  ASSUME NEW ty \in Typed, NEW target
  PROVE  Makes(<<>>, ty, target, ty)
<1> DEFINE vs == [i \in 0..0 |-> ty]
<1>1. Len(<<>>) = 0
  OBVIOUS
<1>2. vs \in [0..0 -> Typed] /\ vs[0] = ty
  OBVIOUS
<1> HIDE DEF vs
<1>3. \A n \in 1..0 : FALSE
  OBVIOUS
<1>4. Binds(<<>>, ty, target, vs)
  BY <1>1, <1>2, <1>3 DEF Binds
<1> QED
  BY <1>1, <1>2, <1>4 DEF Makes

\* The pieces of a part of a call type make what its text makes.
LEMMA SplitsMake ==
  ASSUME NEW ct \in Calling, NEW ty \in Typed, NEW target \in PrimTypes \cup StructTypes
  PROVE  \A k \in 1..Len(ct) : Makes(Splits(ct)[k], ty, target, Texts(ct, ty, target)[k])
<1> DEFINE n == Len(ct)
           s == Splits(ct)
           t == Texts(ct, ty, target)
           P == {k \in 1..n : Makes(s[k], ty, target, t[k])}
<1>1. n \in Nat /\ n # 0
  BY CallShape
<1>2. \A k \in 1..n : s[k] \in Statements /\ s[k] = SplitFrom(ct, s, k)
  BY SplitsUnfold
<1>3. \A k \in 1..n : t[k] \in Typed /\ t[k] = TextFrom(ct, ty, target, t, k)
  BY TextsUnfold
<1> HIDE DEF s, t
<1>4. ASSUME NEW k \in 1..n, k # n => k + 1 \in P PROVE k \in P
  <2>1. CASE k = n
    <3>1. ct[k] \in {"DirectCall", "AsConvert"}
      BY <2>1, CallShape
    <3> DEFINE e == <<ct[k]>>
    <3>2. e \in Calling
      BY <3>1, LeafCalls
    <3>3. CallString(e, ty, target) = t[k]
      <4>1. CallString(e, ty, target) =
              IF ct[k] = "DirectCall" THEN ty
              ELSE IF Len(ty) = 1 /\ ty[1] \in Numbers \cup {"char"} THEN <<target>> ELSE Untyped
        BY <3>1, TextOfLeaf
      <4>2. TextFrom(ct, ty, target, t, k) =
              IF ct[k] = "DirectCall" THEN ty
              ELSE IF Len(ty) = 1 /\ ty[1] \in Numbers \cup {"char"} THEN <<target>> ELSE Untyped
        BY <3>1 DEF TextFrom
      <4> QED
        BY <1>3, <4>1, <4>2
    <3>4. s[k] = <<e>>
      BY <1>2, <2>1 DEF SplitFrom
    <3> HIDE DEF e
    <3>5. Append(<<>>, e) = <<e>> /\ <<>> \in Seq(Calling)
      OBVIOUS
    <3>6. Makes(Append(<<>>, e), ty, target, CallString(e, ty, target))
      BY <3>2, <3>5, MakesNothing, MakesNext
    <3> QED
      BY <3>3, <3>4, <3>5, <3>6
  <2>2. CASE k # n
    <3>1. k \in 1..(n - 1) /\ k + 1 \in 1..n
      BY <1>1, <2>2
    <3>2. ct[k] \in Wrappers /\ ct[k] \notin {"DirectCall", "AsConvert"}
      BY <2>2, <3>1, CallShape
    <3> DEFINE c == ct[k]
               p == s[k + 1]
               v == t[k + 1]
    <3>3. p \in Statements /\ p \in Seq(Calling) /\ v \in Typed /\ Makes(p, ty, target, v)
      BY <1>2, <1>3, <1>4, <2>2, <3>1 DEF Statements
    <3>4. t[k] = Around(c, v)
      BY <1>3, <3>2 DEF TextFrom
    <3>5. s[k] = IF ct[k + 1] \in Unwraps THEN Append(p, <<c>> \o DirectCall)
                 ELSE Append(Front(p), <<c>> \o Last(p))
      BY <1>2, <2>2 DEF SplitFrom
    <3>6. c \in Wrappers
      BY <3>2
    <3> HIDE DEF c, p, v
    <3>7. CASE ct[k + 1] \in Unwraps
      <4> DEFINE e == <<c>> \o DirectCall
      <4>1. e \in Calling
        BY <3>6, DirectCalling, CallAround
      <4>2. CallString(DirectCall, v, target) = v
        BY <3>3, TextOfLeaf DEF DirectCall
      <4>3. CallString(e, v, target) = Around(c, v)
        BY <3>3, <3>6, <4>2, DirectCalling, TextAround
      <4> HIDE DEF e
      <4>4. Makes(Append(p, e), ty, target, CallString(e, v, target))
        BY <3>3, <4>1, MakesNext
      <4> QED
        BY <3>4, <3>5, <3>7, <4>3, <4>4 DEF e
    <3>8. CASE ct[k + 1] \notin Unwraps
      <4>1. PICK u \in Typed : /\ Makes(Front(p), ty, target, u)
                               /\ v = CallString(Last(p), u, target)
        BY <3>3, MakesFront
      <4>2. Last(p) \in Calling /\ Front(p) \in Seq(Calling)
        BY <3>3, FrontAndLast DEF Statements
      <4> DEFINE e == <<c>> \o Last(p)
      <4>3. e \in Calling
        BY <3>6, <4>2, CallAround
      <4>4. CallString(e, u, target) = Around(c, v)
        BY <3>6, <4>1, <4>2, TextAround
      <4> HIDE DEF e
      <4>5. Makes(Append(Front(p), e), ty, target, CallString(e, u, target))
        BY <4>1, <4>2, <4>3, MakesNext
      <4> QED
        BY <3>4, <3>5, <3>8, <4>4, <4>5 DEF e
    <3> QED
      BY <3>7, <3>8
  <2> QED
    BY <2>1, <2>2
<1>5. P \subseteq 1..n
  OBVIOUS
<1>6. P = 1..n
  <2> HIDE DEF P, n
  <2> QED
    BY <1>1, <1>4, <1>5, InwardInduction DEF Inward
<1> QED
  BY <1>6 DEF s, t

\* The pieces of a call type make what its text makes in one expression.
LEMMA SplitKeeps ==
  ASSUME NEW ct \in Calling, NEW ty \in Typed, NEW target \in PrimTypes \cup StructTypes
  PROVE  /\ SplitAtUnwrapCallType(ct) \in Statements
         /\ Makes(SplitAtUnwrapCallType(ct), ty, target, CallString(ct, ty, target))
<1> DEFINE p == Splits(ct)[1]
           v == CallString(ct, ty, target)
<1>1. p \in Statements /\ Makes(p, ty, target, v) /\ v \in Typed
  <2>1. 1 \in 1..Len(ct)
    BY CallShape
  <2> QED
    BY <2>1, SplitsUnfold, SplitsMake, TextTyped DEF CallString
<1>2. <<ct>> \in Statements /\ Makes(<<ct>>, ty, target, v)
  <2>1. Append(<<>>, ct) = <<ct>> /\ <<>> \in Seq(Calling) /\ <<ct>> \in Seq(Calling) /\ <<ct>> # <<>>
    OBVIOUS
  <2>2. Makes(Append(<<>>, ct), ty, target, v)
    BY <2>1, MakesNothing, MakesNext
  <2> QED
    BY <2>1, <2>2 DEF Statements
<1> HIDE DEF p, v
<1>3. Append(p, DirectCall) \in Statements /\ Makes(Append(p, DirectCall), ty, target, v)
  <2>1. p \in Seq(Calling)
    BY <1>1 DEF Statements
  <2>2. CallString(DirectCall, v, target) = v
    BY <1>1, TextOfLeaf DEF DirectCall
  <2> QED
    BY <1>1, <2>1, <2>2, DirectCalling, MakesNext, Appended DEF Statements
<1> QED
  BY <1>1, <1>2, <1>3 DEF SplitAtUnwrapCallType, p, v

-----------------------------------------------------------------------------
(* Conversion of the result of a call *)

\* What the comparison of two types returns.
Convertible == Calling \cup {NotCompatible}

\* There is no text for types that are not compatible.
LEMMA NotCompatibleNotCalling == NotCompatible \notin Calling
<1>1. NotCompatible = <<"NotCompatible">> /\ Len(<<"NotCompatible">>) = 1
      /\ <<"NotCompatible">>[1] = "NotCompatible"
  BY DEF NotCompatible
<1> QED
  BY <1>1 DEF Calling

\* The constructor that makes a pointer or prelude.
Maker(c) ==
  IF c \in Pointers THEN PointerCallType(c) ELSE IF c = "Option" THEN "ToOption" ELSE "ToResult"

\* The one that takes it off.
Taker(c) ==
  CASE c = "Option" -> "UnwrapOption"
    [] c = "Result" -> "UnwrapResult"
    [] c \in {"Ptr", "PtrMut"} -> "UnsafeDeref"
    [] c \in {"Ref", "RefMut"} -> "Deref"

\* Both are constructors of call types.
LEMMA MakerAndTaker ==
  ASSUME NEW c \in Pointers \cup Preludes
  PROVE  Maker(c) \in Wrappers /\ Taker(c) \in Wrappers
<1>1. c \in {"Ref", "RefMut", "Ptr", "PtrMut", "Option", "Result"}
  BY DEF Pointers, Preludes
<1>2. CASE c \in Pointers
  BY <1>2 DEF Pointers, Preludes, Maker, Taker, Wrappers, Unwraps, PointerCallType
<1>3. CASE c \notin Pointers
  BY <1>1, <1>3 DEF Pointers, Preludes, Maker, Taker, Wrappers, Unwraps
<1> QED
  BY <1>2, <1>3

\* What is put around a conversion that exists.
LEMMA PutAroundShape ==
  ASSUME NEW c \in Pointers \cup Preludes, NEW rest \in Convertible
  PROVE  /\ PutAround(c, rest) \in Convertible
         /\ PutAround(c, rest) \in Calling =>
              rest \in Calling /\ PutAround(c, rest) = <<Maker(c)>> \o rest
<1>1. CASE rest = NotCompatible
  BY <1>1, NotCompatibleNotCalling DEF PutAround, Convertible
<1>2. CASE rest # NotCompatible
  <2>1. rest \in Calling
    BY <1>2 DEF Convertible
  <2>2. PutAround(c, rest) = <<Maker(c)>> \o rest
    BY <1>2 DEF PutAround, Maker, ToCallType
  <2> QED
    BY <2>1, <2>2, MakerAndTaker, CallAround DEF Convertible
<1> QED
  BY <1>1, <1>2

\* A primitive type is passed as it is, or as a converted number.
LEMMA SameTypePrimitiveShape ==
  ASSUME NEW p \in PrimTypes, NEW inp
  PROVE  /\ SameTypePrimitive(p, inp) \in {DirectCall, <<"AsConvert">>, NotCompatible}
         /\ SameTypePrimitive(p, inp) = DirectCall => inp = <<p>>
         /\ SameTypePrimitive(p, inp) = <<"AsConvert">> =>
              p \in Numbers \cup {"char"} /\ Len(inp) = 1
<1>1. DirectCall # <<"AsConvert">> /\ DirectCall # NotCompatible /\ NotCompatible # <<"AsConvert">>
  BY DEF DirectCall, NotCompatible
<1>2. Len(<<"char">>) = 1 /\ Len(<<"u8">>) = 1 /\ Len(<<p>>) = 1
  OBVIOUS
<1>3. CASE p \in Numbers /\ inp = <<p>>
  <2>1. SameTypePrimitive(p, inp) = DirectCall
    BY <1>3 DEF SameTypePrimitive, Numbers
  <2> QED
    BY <1>1, <1>3, <2>1
<1>4. CASE p \in Numbers /\ inp # <<p>> /\ Len(inp) = 1 /\ inp[1] \in Numbers \ {p}
  <2>1. SameTypePrimitive(p, inp) = <<"AsConvert">>
    BY <1>4 DEF SameTypePrimitive, Numbers
  <2> QED
    BY <1>1, <1>4, <2>1
<1>5. CASE p \in Numbers /\ inp # <<p>> /\ ~(Len(inp) = 1 /\ inp[1] \in Numbers \ {p})
  <2>1. SameTypePrimitive(p, inp) =
          IF p = "u8" /\ inp = <<"char">> THEN <<"AsConvert">> ELSE NotCompatible
    BY <1>5 DEF SameTypePrimitive, Numbers
  <2> QED
    BY <1>1, <1>2, <1>5, <2>1
<1>6. CASE p = "char"
  <2>1. "char" \notin Numbers /\ <<"char">> # <<"u8">>
    BY DEF Numbers
  <2>2. SameTypePrimitive(p, inp) =
          IF inp = <<"char">> THEN DirectCall
          ELSE IF inp = <<"u8">> THEN <<"AsConvert">> ELSE NotCompatible
    BY <1>6, <2>1 DEF SameTypePrimitive
  <2> QED
    BY <1>1, <1>2, <1>6, <2>2
<1>7. CASE p \notin Numbers \cup {"char"}
  <2>1. SameTypePrimitive(p, inp) = NotCompatible
    BY <1>7 DEF SameTypePrimitive, Numbers
  <2> QED
    BY <1>1, <2>1
<1> QED
  BY <1>3, <1>4, <1>5, <1>6, <1>7

\* Of the last constructor of a type nothing can be taken off.
LEMMA LastConstructor ==
  ASSUME NEW ty \in Types, NEW k \in 1..Len(ty)
  PROVE  /\ ty[k] \in TypeWrappers <=> k # Len(ty)
         /\ ty[k] \in PrimTypes => k = Len(ty)
         /\ k # Len(ty) => k + 1 \in 1..Len(ty)
<1>1. Len(ty) \in Nat /\ ty[Len(ty)] \in PrimTypes \cup StructTypes
      /\ \A i \in 1..(Len(ty) - 1) : ty[i] \in TypeWrappers
  BY TypeShape
<1>2. k # Len(ty) => k \in 1..(Len(ty) - 1) /\ k + 1 \in 1..Len(ty)
  BY <1>1
<1>3. ty[Len(ty)] \notin TypeWrappers
  BY <1>1, NotAConstructor
<1> QED
  BY <1>1, <1>2, <1>3, NotAConstructor

\* Parts of types are types.
LEMMA TypeSuffix ==
  ASSUME NEW ty \in Types, NEW k \in 1..Len(ty)
  PROVE  Suffix(ty, k) \in Types
<1> DEFINE s == Suffix(ty, k)
<1>1. /\ ty \in Seq(TypeNames) /\ Len(ty) \in Nat
      /\ ty[Len(ty)] \in PrimTypes \cup StructTypes
      /\ \A i \in 1..(Len(ty) - 1) : ty[i] \in TypeWrappers
  BY TypeShape
<1>2. /\ s \in Seq(TypeNames) /\ Len(s) = Len(ty) - k + 1 /\ s # <<>>
      /\ \A i \in 1..(Len(ty) - k + 1) : s[i] = ty[k + i - 1]
  BY <1>1, SuffixElements
<1> HIDE DEF s
<1>3. ASSUME NEW i \in 1..(Len(s) - 1) PROVE s[i] \in TypeWrappers
  <2>1. i \in 1..(Len(ty) - k + 1) /\ k + i - 1 \in 1..(Len(ty) - 1)
    BY <1>1, <1>2, <1>3
  <2> QED
    BY <1>1, <1>2, <2>1
<1>4. s[Len(s)] = ty[Len(ty)]
  <2>1. Len(ty) - k + 1 \in 1..(Len(ty) - k + 1) /\ k + (Len(ty) - k + 1) - 1 = Len(ty)
    BY <1>1
  <2> QED
    BY <1>2, <2>1
<1>5. s \in Types
  BY <1>1, <1>2, <1>3, <1>4, TypeIntro
<1> QED
  BY <1>5 DEF s

\* What is left of a type without its first constructor.
LEMMA SuffixAround ==
  ASSUME NEW ty \in Types, NEW k \in 1..Len(ty), k # Len(ty)
  PROVE  /\ Suffix(ty, k) = <<ty[k]>> \o Suffix(ty, k + 1)
         /\ Head(Suffix(ty, k)) = ty[k] /\ Tail(Suffix(ty, k)) = Suffix(ty, k + 1)
         /\ Suffix(ty, k) # <<>> /\ Suffix(ty, k + 1) \in Types
<1>1. ty \in Seq(TypeNames) /\ ty[k] \in TypeNames /\ k + 1 \in 1..Len(ty)
  BY TypeShape, LastConstructor, ElementOfSequence
<1>2. Suffix(ty, k) = <<ty[k]>> \o Suffix(ty, k + 1)
  BY <1>1, SuffixCons
<1>3. Suffix(ty, k + 1) \in Types
  BY <1>1, TypeSuffix
<1>4. IsAround(TypeNames, ty[k], Suffix(ty, k + 1), Suffix(ty, k))
  BY <1>1, <1>2, <1>3, OneMore, TypeShape
<1> QED
  BY <1>2, <1>3, <1>4 DEF IsAround

\* Something is taken off the output type, or a number is converted.
TookOff(out, p, inside, inp, ct) ==
  \/ /\ p # Len(out) /\ out[p] \in Pointers \cup Preludes /\ inside \in Calling
     /\ ct = <<Taker(out[p])>> \o inside
  \/ /\ p = Len(out) /\ ct = DirectCall /\ inp = <<out[p]>>
  \/ /\ p = Len(out) /\ ct = <<"AsConvert">>
     /\ out[p] \in Numbers \cup {"char"} /\ Len(inp) = 1

\* These are the only ways to take something off.
LEMMA TakeOffShape ==
  ASSUME NEW out \in Types, NEW p \in 1..Len(out), NEW inside, NEW inp,
         p # Len(out) => inside \in Convertible
  PROVE  /\ TakeOff(out, p, inside, inp) \in Convertible
         /\ TakeOff(out, p, inside, inp) \in Calling =>
              TookOff(out, p, inside, inp, TakeOff(out, p, inside, inp))
<1> DEFINE c == out[p]
           ct == TakeOff(out, p, inside, inp)
<1>1. \A x \in Pointers \cup Preludes : x \in TypeWrappers
  BY DEF TypeWrappers
<1>2. CASE c \in Pointers \cup Preludes
  <2>1. p # Len(out) /\ inside \in Convertible
    BY <1>1, <1>2, LastConstructor
  <2>2. Taker(c) \in Wrappers
    BY <1>2, MakerAndTaker
  <2>3. ct = NotCompatible \/ (inside # NotCompatible /\ ct = <<Taker(c)>> \o inside)
    <3>1. CASE c \in Preludes
      <4>1. ct = IF inside = NotCompatible THEN NotCompatible ELSE UnwrapCallType(c, inside)
        BY <3>1 DEF TakeOff, Preludes, PrimTypes, Numbers
      <4>2. UnwrapCallType(c, inside) = <<Taker(c)>> \o inside
        BY <3>1 DEF UnwrapCallType, Taker, Preludes
      <4> QED
        BY <4>1, <4>2
    <3>2. CASE c \in {"Ptr", "PtrMut"}
      <4>1. ct = IF inside = NotCompatible THEN NotCompatible ELSE <<"UnsafeDeref">> \o inside
        BY <3>2 DEF TakeOff, Preludes, PrimTypes, Numbers
      <4>2. Taker(c) = "UnsafeDeref"
        BY <3>2 DEF Taker
      <4> QED
        BY <4>1, <4>2
    <3>3. CASE c \in {"Ref", "RefMut"}
      <4>1. ct = IF inside = NotCompatible \/ ~CopyType(Suffix(out, p + 1)) THEN NotCompatible
                 ELSE <<"Deref">> \o inside
        BY <3>3 DEF TakeOff, Preludes, PrimTypes, Numbers
      <4>2. Taker(c) = "Deref"
        BY <3>3 DEF Taker
      <4> QED
        BY <4>1, <4>2
    <3> QED
      BY <1>2, <3>1, <3>2, <3>3 DEF Pointers
  <2>4. inside # NotCompatible => inside \in Calling /\ <<Taker(c)>> \o inside \in Calling
    BY <2>1, <2>2, CallAround DEF Convertible
  <2> QED
    BY <1>2, <2>1, <2>3, <2>4, NotCompatibleNotCalling DEF Convertible, TookOff
<1>3. CASE c \in PrimTypes
  <2>1. p = Len(out)
    BY <1>3, LastConstructor
  <2>2. c \notin Preludes \cup {"Ptr", "PtrMut", "Ref", "RefMut"}
    BY <1>3 DEF PrimTypes, Numbers, Preludes
  <2>3. ct = SameTypePrimitive(c, inp)
    BY <1>3, <2>2 DEF TakeOff
  <2>4. <<"AsConvert">> \in Calling
    BY LeafCalls
  <2> HIDE DEF ct, c
  <2>5. /\ ct \in {DirectCall, <<"AsConvert">>, NotCompatible}
        /\ ct = DirectCall => inp = <<c>>
        /\ ct = <<"AsConvert">> => c \in Numbers \cup {"char"} /\ Len(inp) = 1
    BY <1>3, <2>3, SameTypePrimitiveShape
  <2> QED
    BY <2>1, <2>4, <2>5, DirectCalling, NotCompatibleNotCalling DEF Convertible, TookOff, ct, c
<1>4. CASE c \notin Pointers \cup Preludes \cup PrimTypes
  <2>1. ct = NotCompatible
    BY <1>4 DEF TakeOff, Pointers
  <2> QED
    BY <2>1, NotCompatibleNotCalling DEF Convertible
<1> QED
  BY <1>2, <1>3, <1>4

\* Positions in the output and the input type, and how much is left of both.
Positions(out, inp) == (1..Len(out)) \X (1..Len(inp))
Left(out, inp) == [at \in Positions(out, inp) |-> (Len(out) - at[1]) + (Len(inp) - at[2])]

\* One constructor less leaves less of both.
LEMMA LeftShape ==
  ASSUME NEW out \in Types, NEW inp \in Types, NEW p \in 1..Len(out), NEW q \in 1..Len(inp)
  PROVE  LET left == Left(out, inp) IN
         /\ left \in [Positions(out, inp) -> Nat]
         /\ <<p, q>> \in Positions(out, inp) /\ <<p, q>>[1] = p /\ <<p, q>>[2] = q
         /\ left[<<p, q>>] < Len(out) + Len(inp)
         /\ q # Len(inp) => /\ <<p, q + 1>> \in Positions(out, inp)
                            /\ left[<<p, q + 1>>] < left[<<p, q>>]
         /\ p # Len(out) => /\ <<p + 1, q>> \in Positions(out, inp)
                            /\ left[<<p + 1, q>>] < left[<<p, q>>]
<1> DEFINE n == Len(out)
           m == Len(inp)
           D == (1..n) \X (1..m)
           left == [at \in D |-> (n - at[1]) + (m - at[2])]
<1>1. n \in Nat /\ m \in Nat
  BY TypeShape
<1>2. p \in 1..n /\ q \in 1..m
  OBVIOUS
<1>3. Left(out, inp) = left /\ Positions(out, inp) = D
  BY DEF Left, Positions
<1> HIDE DEF n, m
<1>4. left \in [D -> Nat]
  <2>1. ASSUME NEW at \in D PROVE (n - at[1]) + (m - at[2]) \in Nat
    BY <1>1
  <2> QED
    BY <2>1
<1>5. \A i \in 1..n, j \in 1..m : <<i, j>> \in D /\ left[<<i, j>>] = (n - i) + (m - j)
  OBVIOUS
<1>6. <<p, q>>[1] = p /\ <<p, q>>[2] = q
  OBVIOUS
<1> HIDE DEF left, D
<1>7. left[<<p, q>>] < n + m
  BY <1>1, <1>2, <1>5
<1>8. ASSUME q # m PROVE <<p, q + 1>> \in D /\ left[<<p, q + 1>>] < left[<<p, q>>]
  <2>1. q + 1 \in 1..m
    BY <1>1, <1>2, <1>8
  <2> QED
    BY <1>1, <1>2, <1>5, <2>1
<1>9. ASSUME p # n PROVE <<p + 1, q>> \in D /\ left[<<p + 1, q>>] < left[<<p, q>>]
  <2>1. p + 1 \in 1..n
    BY <1>1, <1>2, <1>9
  <2> QED
    BY <1>1, <1>2, <1>5, <2>1
<1> QED
  BY <1>2, <1>3, <1>4, <1>5, <1>6, <1>7, <1>8, <1>9 DEF n, m

\* One level of the comparison gives a call type, or none, when the levels inside do.
LEMMA SameTypeFromType ==
  ASSUME NEW out \in Types, NEW inp \in Types, NEW same, NEW p \in 1..Len(out), NEW q \in 1..Len(inp),
         q # Len(inp) => same[<<p, q + 1>>] \in Convertible,
         p # Len(out) => same[<<p + 1, q>>] \in Convertible
  PROVE  SameTypeFrom(out, inp, same, p, q) \in Convertible
<1>1. inp[q] \in Pointers \cup Preludes => q # Len(inp)
  BY LastConstructor DEF TypeWrappers
<1>2. inp[q] \in Pointers \cup Preludes => PutAround(inp[q], same[<<p, q + 1>>]) \in Convertible
  BY <1>1, PutAroundShape
<1>3. TakeOff(out, p, same[<<p + 1, q>>], Suffix(inp, q)) \in Convertible
  BY TakeOffShape
<1> QED
  BY <1>2, <1>3, DirectCalling DEF SameTypeFrom, Convertible

\* It only depends on what has one constructor less.
LEMMA SameTypeFromLocal ==
  ASSUME NEW out \in Types, NEW inp \in Types, NEW f, NEW g, NEW p \in 1..Len(out), NEW q \in 1..Len(inp),
         q # Len(inp) => f[<<p, q + 1>>] = g[<<p, q + 1>>],
         p # Len(out) => f[<<p + 1, q>>] = g[<<p + 1, q>>]
  PROVE  SameTypeFrom(out, inp, f, p, q) = SameTypeFrom(out, inp, g, p, q)
<1>1. CASE Suffix(out, p) = Suffix(inp, q)
  BY <1>1 DEF SameTypeFrom
<1>2. CASE Suffix(out, p) # Suffix(inp, q) /\ inp[q] \in Pointers \cup Preludes
  <2>1. q # Len(inp)
    BY <1>2, LastConstructor DEF TypeWrappers
  <2> QED
    BY <1>2, <2>1 DEF SameTypeFrom
<1>3. CASE Suffix(out, p) # Suffix(inp, q) /\ inp[q] \notin Pointers \cup Preludes
  <2>1. CASE p # Len(out)
    BY <1>3, <2>1 DEF SameTypeFrom
  <2>2. CASE p = Len(out)
    <3>1. out[p] \notin Preludes \cup {"Ptr", "PtrMut", "Ref", "RefMut"}
      BY <2>2, LastConstructor DEF TypeWrappers, Pointers
    <3>2. \A h : SameTypeFrom(out, inp, h, p, q) =
                   IF out[p] \in PrimTypes THEN SameTypePrimitive(out[p], Suffix(inp, q))
                   ELSE NotCompatible
      BY <1>3, <3>1 DEF SameTypeFrom, TakeOff
    <3> QED
      BY <3>2
  <2> QED
    BY <2>1, <2>2
<1> QED
  BY <1>1, <1>2, <1>3

\* The recursive definition of SameTypes.
LEMMA SameTypesUnfold ==
  ASSUME NEW out \in Types, NEW inp \in Types
  PROVE  \A p \in 1..Len(out), q \in 1..Len(inp) :
           LET same == SameTypes(out, inp) IN
           /\ same[<<p, q>>] \in Convertible
           /\ same[<<p, q>>] = SameTypeFrom(out, inp, same, p, q)
<1> DEFINE D == Positions(out, inp)
           V == Convertible
           rank == Left(out, inp)
           bound == Len(out) + Len(inp)
           step == [at \in D |-> [f \in [D -> V] |-> SameTypeFrom(out, inp, f, at[1], at[2])]]
           Is(f) == f = [at \in D |-> SameTypeFrom(out, inp, f, at[1], at[2])]
<1>1. bound \in Nat
  BY TypeShape
<1>2. \A at \in D : at[1] \in 1..Len(out) /\ at[2] \in 1..Len(inp) /\ at = <<at[1], at[2]>>
  BY DEF Positions
<1>3. ASSUME NEW at \in D
      PROVE  /\ rank[at] < bound
             /\ at[2] # Len(inp) => <<at[1], at[2] + 1>> \in D /\ rank[<<at[1], at[2] + 1>>] < rank[at]
             /\ at[1] # Len(out) => <<at[1] + 1, at[2]>> \in D /\ rank[<<at[1] + 1, at[2]>>] < rank[at]
  <2>1. PICK p \in 1..Len(out), q \in 1..Len(inp) : p = at[1] /\ q = at[2] /\ at = <<p, q>>
    BY <1>2
  <2> HIDE DEF D, rank
  <2>2. /\ rank[<<p, q>>] < bound
        /\ q # Len(inp) => <<p, q + 1>> \in D /\ rank[<<p, q + 1>>] < rank[<<p, q>>]
        /\ p # Len(out) => <<p + 1, q>> \in D /\ rank[<<p + 1, q>>] < rank[<<p, q>>]
    BY LeftShape DEF D, rank
  <2> QED
    BY <2>1, <2>2
<1>4. rank \in [D -> Nat]
  <2>1. 1 \in 1..Len(out) /\ 1 \in 1..Len(inp)
    BY TypeShape
  <2> QED
    BY <2>1, LeftShape
<1>5. \E f : Is(f)
  <2>1. step \in [D -> [[D -> V] -> V]]
    <3>1. ASSUME NEW at \in D, NEW f \in [D -> V]
          PROVE  SameTypeFrom(out, inp, f, at[1], at[2]) \in V
      <4>1. /\ at[2] # Len(inp) => f[<<at[1], at[2] + 1>>] \in V
            /\ at[1] # Len(out) => f[<<at[1] + 1, at[2]>>] \in V
        <5> HIDE DEF D, V, rank
        <5> QED
          BY <1>3
      <4> QED
        BY <1>2, <4>1, SameTypeFromType
    <3> HIDE DEF D, V
    <3> QED
      BY <3>1
  <2>2. ASSUME NEW at \in D, NEW f \in [D -> V], NEW g \in [D -> V],
               \A y \in D : rank[y] < rank[at] => f[y] = g[y]
        PROVE  step[at][f] = step[at][g]
    <3>1. /\ at[2] # Len(inp) => f[<<at[1], at[2] + 1>>] = g[<<at[1], at[2] + 1>>]
          /\ at[1] # Len(out) => f[<<at[1] + 1, at[2]>>] = g[<<at[1] + 1, at[2]>>]
      <4> HIDE DEF D, V, rank
      <4> QED
        BY <1>3, <2>2
    <3>2. SameTypeFrom(out, inp, f, at[1], at[2]) = SameTypeFrom(out, inp, g, at[1], at[2])
      BY <1>2, <3>1, SameTypeFromLocal
    <3> HIDE DEF D, V
    <3> QED
      BY <3>2
  <2>3. V # {}
    BY DEF Convertible
  <2>4. HasSolution(D, V, step)
    <3> HIDE DEF D, V, step, rank, bound
    <3>1. Recursive(D, V, rank, bound, step)
      BY <1>1, <1>3, <1>4, <2>1, <2>2, <2>3 DEF Recursive
    <3> QED
      BY <3>1, Recursion
  <2>5. PICK f \in [D -> V] : \A at \in D : f[at] = step[at][f]
    BY <2>4 DEF HasSolution
  <2>6. Is(f)
    <3> HIDE DEF D, V
    <3> QED
      BY <2>5
  <2> QED
    BY <2>6
<1> DEFINE t == SameTypes(out, inp)
<1>6. t = CHOOSE f : Is(f)
  BY DEF SameTypes, Positions
<1>7. Is(t)
  <2> HIDE DEF Is, t
  <2> QED
    BY <1>5, <1>6
<1> HIDE DEF t
<1> DEFINE P == {at \in D : t[at] \in V}
<1>8. P = D
  <2>1. ASSUME NEW at \in D, \A y \in D : rank[y] < rank[at] => y \in P PROVE at \in P
    <3>1. /\ at[2] # Len(inp) => t[<<at[1], at[2] + 1>>] \in V
          /\ at[1] # Len(out) => t[<<at[1] + 1, at[2]>>] \in V
      <4> HIDE DEF D, V, rank
      <4> QED
        BY <1>3, <2>1
    <3>2. SameTypeFrom(out, inp, t, at[1], at[2]) \in V
      BY <1>2, <3>1, SameTypeFromType
    <3> HIDE DEF D, V
    <3> QED
      BY <1>7, <3>2
  <2>2. P \subseteq D
    OBVIOUS
  <2> HIDE DEF D, V, P, rank
  <2> QED
    BY <1>4, <2>1, <2>2, RankInduction DEF Progressive
<1>9. ASSUME NEW p \in 1..Len(out), NEW q \in 1..Len(inp)
      PROVE  t[<<p, q>>] \in Convertible /\ t[<<p, q>>] = SameTypeFrom(out, inp, t, p, q)
  <2>1. <<p, q>> \in D /\ <<p, q>>[1] = p /\ <<p, q>>[2] = q
    BY LeftShape
  <2>2. t[<<p, q>>] \in V
    <3> HIDE DEF D, V
    <3> QED
      BY <1>8, <2>1
  <2>3. t[<<p, q>>] = SameTypeFrom(out, inp, t, <<p, q>>[1], <<p, q>>[2])
    <3> HIDE DEF D, V
    <3> QED
      BY <1>7, <2>1
  <2> QED
    BY <2>1, <2>2, <2>3
<1> QED
  BY <1>9 DEF t

\* At most one thing is taken off, and no pointer to mut is made.
ReductionNames == Unwraps \cup {"Deref", "UnsafeDeref", "AsConvert"}
Plain(ct) ==
  /\ \A i, j \in Reductions(ct) : i = j
  /\ \A k \in DOMAIN ct : ct[k] # "MutRawPointer"

\* The same of what is inside a constructor, which has nothing to take off if
\* the constructor does.
LEMMA PlainInside ==
  ASSUME NEW ct \in Calling, NEW c \in Wrappers, Plain(<<c>> \o ct)
  PROVE  Plain(ct) /\ c # "MutRawPointer" /\ (c \in ReductionNames => Reductions(ct) = {})
<1> DEFINE t == <<c>> \o ct
<1>1. ct \in Seq(CallNames) /\ c \in CallNames /\ Len(ct) \in Nat /\ DOMAIN ct = 1..Len(ct)
  BY CallShape DEF CallNames
<1>2. IsAround(CallNames, c, ct, t)
  BY <1>1, OneMore
<1>3. Plain(t)
  OBVIOUS
<1> HIDE DEF t
<1>4. /\ t \in Seq(CallNames) /\ Len(t) = Len(ct) + 1 /\ t[1] = c
      /\ \A k \in 1..Len(ct) : t[k + 1] = ct[k]
  BY <1>2 DEF IsAround
<1>5. DOMAIN t = 1..(Len(ct) + 1) /\ 1 \in DOMAIN t
  BY <1>1, <1>4
<1>6. ASSUME NEW k \in DOMAIN ct PROVE k + 1 \in DOMAIN t /\ t[k + 1] = ct[k] /\ k + 1 # 1
  BY <1>1, <1>4, <1>5
<1>7. \A k \in Reductions(ct) : k + 1 \in Reductions(t)
  BY <1>6 DEF Reductions
<1>8. c \in ReductionNames => 1 \in Reductions(t)
  BY <1>4, <1>5 DEF Reductions, ReductionNames
<1>9. \A k \in Reductions(ct) : k \in DOMAIN ct /\ k \in Int
  BY <1>1 DEF Reductions
<1>10. \A i, j \in Reductions(ct) : i = j
  <2>1. \A i, j \in Reductions(ct) : i + 1 = j + 1
    BY <1>3, <1>7 DEF Plain
  <2> QED
    BY <1>9, <2>1
<1>11. \A k \in DOMAIN ct : ct[k] # "MutRawPointer"
  BY <1>3, <1>6 DEF Plain
<1>12. c # "MutRawPointer"
  BY <1>3, <1>4, <1>5 DEF Plain
<1>13. c \in ReductionNames => Reductions(ct) = {}
  BY <1>3, <1>6, <1>7, <1>8, <1>9 DEF Plain
<1> QED
  BY <1>10, <1>11, <1>12, <1>13 DEF Plain

\* What a constructor makes of a type, and what one takes off.
LEMMA MakerAround ==
  ASSUME NEW c \in Pointers \cup Preludes, NEW ty \in Types, Maker(c) # "MutRawPointer"
  PROVE  Around(Maker(c), ty) = <<c>> \o ty
<1>1. ty # Untyped
  BY TypeShape DEF Untyped
<1>2. c \in {"Ref", "RefMut", "Ptr", "Option", "Result"}
  BY DEF Maker, Pointers, Preludes, PointerCallType
<1>3. /\ Maker("Ref") = "BorrowedRef" /\ Maker("RefMut") = "MutBorrowedRef"
      /\ Maker("Ptr") = "ConstRawPointer" /\ Maker("Option") = "ToOption"
      /\ Maker("Result") = "ToResult"
  BY DEF Maker, Pointers, PointerCallType
<1> QED
  BY <1>1, <1>2, <1>3 DEF Around

\* What a constructor takes off a type.
LEMMA TakerAround ==
  ASSUME NEW c \in Pointers \cup Preludes, NEW ty \in Types, Head(ty) = c
  PROVE  Around(Taker(c), ty) = Tail(ty) /\ Taker(c) \in ReductionNames
<1>1. ty # Untyped
  BY TypeShape DEF Untyped
<1>2. CASE c \in Pointers
  <2>1. Taker(c) \in {"Deref", "UnsafeDeref"}
    BY <1>2 DEF Taker, Pointers
  <2> QED
    BY <1>1, <1>2, <2>1 DEF Around, ReductionNames
<1>3. CASE c = "Option"
  <2>1. Taker(c) = "UnwrapOption"
    BY <1>3 DEF Taker
  <2> QED
    BY <1>1, <1>3, <2>1 DEF Around, ReductionNames, Unwraps
<1>4. CASE c = "Result"
  <2>1. Taker(c) = "UnwrapResult"
    BY <1>4 DEF Taker
  <2> QED
    BY <1>1, <1>4, <2>1 DEF Around, ReductionNames, Unwraps
<1> QED
  BY <1>2, <1>3, <1>4 DEF Preludes

\* A call type that starts by taking something off has a reduction.
LEMMA ReductionAtOnce ==
  ASSUME NEW ct \in Calling, ct[1] \in ReductionNames
  PROVE  Reductions(ct) # {}
<1>1. 1 \in DOMAIN ct
  BY CallShape
<1> QED
  BY <1>1 DEF Reductions, ReductionNames

\* Passed with the call type that SameType finds, a value of the output type is one
\* of the input type.
LEMMA SameTypeMakes ==
  ASSUME NEW out \in Types, NEW inp \in Types,
         SameType(out, inp) \in Calling, Plain(SameType(out, inp))
  PROVE  CallString(SameType(out, inp), out, Last(inp)) = inp
<1> DEFINE n == Len(out)
           m == Len(inp)
           D == Positions(out, inp)
           rank == Left(out, inp)
           target == Last(inp)
           s == SameTypes(out, inp)
           Good(p, q) == s[<<p, q>>] \in Calling /\ Plain(s[<<p, q>>]) =>
                           CallString(s[<<p, q>>], Suffix(out, p), target) = Suffix(inp, q)
           P == {at \in D : Good(at[1], at[2])}
<1>1. target \in PrimTypes \cup StructTypes /\ target = inp[m]
  BY TypeShape DEF Last
<1>2. \A p \in 1..n, q \in 1..m : /\ s[<<p, q>>] \in Convertible
                                  /\ s[<<p, q>>] = SameTypeFrom(out, inp, s, p, q)
  BY SameTypesUnfold
<1>3. \A at \in D : at[1] \in 1..n /\ at[2] \in 1..m /\ at = <<at[1], at[2]>>
  BY DEF Positions
<1> HIDE DEF s, target
<1>4. ASSUME NEW p \in 1..n, NEW q \in 1..m, q # m => Good(p, q + 1)
      PROVE  Good(p, q)
  <2> DEFINE ct == s[<<p, q>>]
             a == Suffix(out, p)
             b == Suffix(inp, q)
  <2> SUFFICES ASSUME ct \in Calling, Plain(ct) PROVE CallString(ct, a, target) = b
    OBVIOUS
  <2>1. a \in Types /\ b \in Types /\ a \in Typed
    BY TypeSuffix DEF Typed
  <2>2. ct = SameTypeFrom(out, inp, s, p, q)
    BY <1>2
  <2>3. CASE a = b
    <3>1. ct = DirectCall
      BY <2>2, <2>3 DEF SameTypeFrom
    <3>2. CallString(<<"DirectCall">>, a, target) = a
      BY <1>1, <2>1, TextOfLeaf
    <3> QED
      BY <2>3, <3>1, <3>2 DEF DirectCall
  <2>4. CASE a # b /\ inp[q] \in Pointers \cup Preludes
    <3>1. q # m /\ q + 1 \in 1..m
      BY <2>4, LastConstructor DEF TypeWrappers
    <3> DEFINE d == s[<<p, q + 1>>]
    <3>2. ct = PutAround(inp[q], d)
      BY <2>2, <2>4 DEF SameTypeFrom
    <3>3. d \in Convertible
      BY <1>2, <3>1
    <3>4. Good(p, q + 1)
      BY <1>4, <3>1
    <3> HIDE DEF ct, d
    <3>5. d \in Calling /\ ct = <<Maker(inp[q])>> \o d /\ Maker(inp[q]) \in Wrappers
      BY <2>4, <3>2, <3>3, PutAroundShape, MakerAndTaker
    <3>6. Plain(d) /\ Maker(inp[q]) # "MutRawPointer"
      BY <3>5, PlainInside
    <3>7. CallString(d, a, target) = Suffix(inp, q + 1)
      BY <3>4, <3>5, <3>6 DEF d
    <3>8. CallString(ct, a, target) = Around(Maker(inp[q]), Suffix(inp, q + 1))
      BY <1>1, <2>1, <3>5, <3>7, TextAround
    <3>9. b = <<inp[q]>> \o Suffix(inp, q + 1) /\ Suffix(inp, q + 1) \in Types
      BY <3>1, SuffixAround
    <3> HIDE DEF a, b
    <3> QED
      BY <2>4, <3>6, <3>8, <3>9, MakerAround DEF ct
  <2>5. CASE a # b /\ inp[q] \notin Pointers \cup Preludes
    <3> DEFINE i == s[<<p + 1, q>>]
    <3>1. ct = TakeOff(out, p, i, b)
      BY <2>2, <2>5 DEF SameTypeFrom
    <3>2. p # n => p + 1 \in 1..n /\ i \in Convertible
      BY <1>2, LastConstructor
    <3>3. \/ /\ p # n /\ out[p] \in Pointers \cup Preludes /\ i \in Calling
             /\ ct = <<Taker(out[p])>> \o i
          \/ /\ p = n /\ ct = DirectCall /\ b = <<out[p]>>
          \/ /\ p = n /\ ct = <<"AsConvert">>
             /\ out[p] \in Numbers \cup {"char"} /\ Len(b) = 1
      <4> HIDE DEF i, b, n
      <4>1. TookOff(out, p, i, b, ct)
        BY <3>1, <3>2, TakeOffShape DEF n
      <4> HIDE DEF ct
      <4> QED
        BY <4>1 DEF TookOff, n
    <3>4. p = n => a = <<out[p]>>
      BY SuffixCons, TypeShape
    <3>5. CASE p # n
      <4>1. /\ out[p] \in Pointers \cup Preludes /\ i \in Calling /\ p + 1 \in 1..n
            /\ ct = <<Taker(out[p])>> \o i /\ Taker(out[p]) \in Wrappers
        BY <3>2, <3>3, <3>5, MakerAndTaker
      <4>2. /\ Head(a) = out[p] /\ Tail(a) = Suffix(out, p + 1)
        BY <3>5, SuffixAround
      <4>3. Around(Taker(out[p]), a) = Suffix(out, p + 1) /\ Taker(out[p]) \in ReductionNames
        BY <2>1, <4>1, <4>2, TakerAround
      <4>4. Reductions(i) = {}
        <5> HIDE DEF i
        <5> QED
          BY <4>1, <4>3, PlainInside
      <4>5. i = DirectCall /\ Suffix(out, p + 1) = b
        <5>1. i = SameTypeFrom(out, inp, s, p + 1, q)
          BY <1>2, <4>1
        <5>2. CASE Suffix(out, p + 1) = b
          BY <5>1, <5>2 DEF SameTypeFrom
        <5>3. CASE Suffix(out, p + 1) # b
          <6> DEFINE j == s[<<(p + 1) + 1, q>>]
          <6>1. i = TakeOff(out, p + 1, j, b)
            BY <2>5, <5>1, <5>3 DEF SameTypeFrom
          <6>2. p + 1 # n => j \in Convertible
            BY <1>2, <4>1, LastConstructor
          <6>3. \/ /\ p + 1 # n /\ out[p + 1] \in Pointers \cup Preludes /\ j \in Calling
                   /\ i = <<Taker(out[p + 1])>> \o j
                \/ /\ p + 1 = n /\ i = DirectCall /\ b = <<out[p + 1]>>
                \/ /\ p + 1 = n /\ i = <<"AsConvert">>
            <7> HIDE DEF i, j, b, n
            <7>1. TookOff(out, p + 1, j, b, i)
              BY <4>1, <6>1, <6>2, TakeOffShape DEF n
            <7> QED
              BY <7>1 DEF TookOff, n
          <6>4. p + 1 = n => Suffix(out, p + 1) = <<out[p + 1]>>
            BY <4>1, SuffixCons, TypeShape
          <6> HIDE DEF i, j, b
          <6>5. CASE p + 1 = n
            <7>1. i = <<"AsConvert">>
              BY <5>3, <6>3, <6>4, <6>5
            <7>2. i[1] \in ReductionNames
              BY <7>1 DEF ReductionNames
            <7> QED
              BY <4>1, <4>4, <7>2, ReductionAtOnce
          <6>6. CASE p + 1 # n
            <7>1. /\ out[p + 1] \in Pointers \cup Preludes /\ j \in Calling
                  /\ i = <<Taker(out[p + 1])>> \o j
              BY <6>3, <6>6
            <7>2. Taker(out[p + 1]) \in ReductionNames /\ Taker(out[p + 1]) \in CallNames
              <8>1. Taker(out[p + 1]) \in {"UnwrapOption", "UnwrapResult", "UnsafeDeref", "Deref"}
                BY <7>1 DEF Taker, Pointers, Preludes
              <8> QED
                BY <8>1 DEF ReductionNames, CallNames, Wrappers, Unwraps
            <7>3. IsAround(CallNames, Taker(out[p + 1]), j, i)
              BY <7>1, <7>2, OneMore, CallShape
            <7>4. i[1] \in ReductionNames
              BY <7>2, <7>3 DEF IsAround
            <7> QED
              BY <4>1, <4>4, <7>4, ReductionAtOnce
          <6> QED
            BY <6>5, <6>6
        <5> QED
          BY <5>2, <5>3
      <4>6. CallString(DirectCall, a, target) = a
        BY <1>1, <2>1, TextOfLeaf DEF DirectCall
      <4>7. CallString(ct, a, target) = Around(Taker(out[p]), a)
        <5> HIDE DEF ct, i, a
        <5> QED
          BY <1>1, <2>1, <4>1, <4>5, <4>6, TextAround
      <4> QED
        BY <4>3, <4>5, <4>7
    <3>6. CASE p = n
      <4>1. ct = <<"AsConvert">> /\ out[p] \in Numbers \cup {"char"} /\ Len(b) = 1
        BY <2>5, <3>3, <3>4, <3>6
      <4>2. Len(a) = 1 /\ a[1] \in Numbers \cup {"char"}
        BY <3>4, <3>6, <4>1
      <4>3. CallString(ct, a, target) = <<target>>
        <5> HIDE DEF ct, a
        <5> QED
          BY <1>1, <2>1, <4>1, <4>2, TextOfLeaf
      <4>4. b = <<target>>
        <5>1. Len(b) = m - q + 1 /\ m \in Nat
          BY SuffixElements, TypeShape
        <5>2. q = m
          <6>1. \A l, r, u \in Nat : l = u - r + 1 /\ l = 1 => r = u
            OBVIOUS
          <6>2. q \in Nat /\ Len(b) \in Nat
            BY <4>1
          <6> HIDE DEF b, m
          <6> QED
            BY <4>1, <5>1, <6>1, <6>2
        <5>3. b = <<inp[m]>>
          BY <5>2, SuffixCons, TypeShape
        <5> QED
          BY <1>1, <5>3
      <4> QED
        BY <4>3, <4>4
    <3> QED
      BY <3>5, <3>6
  <2> QED
    BY <2>3, <2>4, <2>5
<1>5. P = D
  <2>1. ASSUME NEW at \in D, \A y \in D : rank[y] < rank[at] => y \in P PROVE at \in P
    <3>1. PICK p \in 1..n, q \in 1..m : p = at[1] /\ q = at[2] /\ at = <<p, q>>
      BY <1>3
    <3>2. q # m => <<p, q + 1>> \in D /\ rank[<<p, q + 1>>] < rank[at]
      <4> HIDE DEF D, rank
      <4>1. q # m => <<p, q + 1>> \in D /\ rank[<<p, q + 1>>] < rank[<<p, q>>]
        BY LeftShape DEF D, rank
      <4> QED
        BY <3>1, <4>1
    <3>3. q # m => <<p, q + 1>>[1] = p /\ <<p, q + 1>>[2] = q + 1
      OBVIOUS
    <3> HIDE DEF Good, D, rank
    <3>4. q # m => Good(p, q + 1)
      BY <2>1, <3>2, <3>3
    <3>5. Good(p, q)
      BY <1>4, <3>4
    <3> QED
      BY <3>1, <3>5
  <2>2. P \subseteq D
    OBVIOUS
  <2>3. rank \in [D -> Nat]
    <3>1. 1 \in 1..Len(out) /\ 1 \in 1..Len(inp)
      BY TypeShape
    <3> QED
      BY <3>1, LeftShape
  <2> HIDE DEF D, P, rank
  <2> QED
    BY <2>1, <2>2, <2>3, RankInduction DEF Progressive
<1>6. Good(1, 1)
  <2>1. 1 \in 1..Len(out) /\ 1 \in 1..Len(inp)
    BY TypeShape
  <2>2. <<1, 1>> \in D /\ <<1, 1>>[1] = 1 /\ <<1, 1>>[2] = 1
    BY <2>1, LeftShape
  <2> HIDE DEF D, Good
  <2> QED
    BY <1>5, <2>2
<1>7. Suffix(out, 1) = out /\ Suffix(inp, 1) = inp
  BY SequenceWhole, TypeShape
<1> QED
  BY <1>6, <1>7 DEF SameType, s, target


-----------------------------------------------------------------------------
(* The type a decoded variable is declared with *)

\* A name alone is a type.
LEMMA SingleType ==
  ASSUME NEW p \in PrimTypes \cup StructTypes
  PROVE  <<p>> \in Types
<1> DEFINE t == <<p>>
<1>1. p \in TypeNames
  BY DEF TypeNames
<1>2. /\ t \in Seq(TypeNames) /\ t # <<>> /\ \A i \in 1..(Len(t) - 1) : t[i] \in TypeWrappers
      /\ t[Len(t)] \in PrimTypes \cup StructTypes
  BY <1>1
<1> HIDE DEF t
<1>3. t \in Types
  BY <1>2, TypeIntro
<1> QED
  BY <1>3 DEF t

\* Two constructors, one after the other.
LEMMA TwoAround ==
  ASSUME NEW S, NEW s \in Seq(S), NEW c \in S, NEW d \in S
  PROVE  <<c, d>> \o s = <<c>> \o (<<d>> \o s)
<1> DEFINE r == <<d>> \o s
           t == <<c>> \o r
           u == <<c, d>> \o s
<1>1. IsAround(S, d, s, r)
  BY OneMore
<1>2. r \in Seq(S) /\ Len(r) = Len(s) + 1 /\ r[1] = d /\ \A k \in 1..Len(s) : r[k + 1] = s[k]
  <2> HIDE DEF r
  <2> QED
    BY <1>1 DEF IsAround
<1>3. /\ u \in Seq(S) /\ Len(u) = Len(s) + 2 /\ u[1] = c /\ u[2] = d
      /\ \A k \in 1..Len(s) : u[k + 2] = s[k]
  OBVIOUS
<1> HIDE DEF r
<1>4. IsAround(S, c, r, t)
  BY <1>2, OneMore
<1> HIDE DEF t, u
<1>5. t \in Seq(S) /\ Len(t) = Len(r) + 1 /\ t[1] = c /\ \A k \in 1..Len(r) : t[k + 1] = r[k]
  BY <1>4 DEF IsAround
<1>6. Len(t) = Len(u) /\ Len(s) \in Nat
  BY <1>2, <1>3, <1>5
<1>7. ASSUME NEW i \in 1..Len(t) PROVE t[i] = u[i]
  <2>1. CASE i = 1
    BY <1>3, <1>5, <2>1
  <2>2. CASE i = 2
    <3>1. 1 \in 1..Len(r) /\ 1 + 1 = 2
      BY <1>2, <1>6
    <3> QED
      BY <1>2, <1>3, <1>5, <2>2, <3>1
  <2>3. CASE i > 2
    <3>1. /\ i - 1 \in 1..Len(r) /\ (i - 1) + 1 = i /\ i - 2 \in 1..Len(s)
          /\ (i - 2) + 1 = i - 1 /\ (i - 2) + 2 = i
      BY <1>2, <1>3, <1>6, <1>7, <2>3
    <3>2. t[i] = r[i - 1] /\ r[i - 1] = s[i - 2] /\ u[i] = s[i - 2]
      BY <1>2, <1>3, <1>5, <3>1
    <3> QED
      BY <3>2
  <2> QED
    BY <1>6, <2>1, <2>2, <2>3
<1>8. t = u
  BY <1>3, <1>5, <1>6, <1>7, SameSequence
<1> QED
  BY <1>8 DEF t, u, r


\* One level of the declared type is a type when the level inside is.
LEMMA TypeFromTyped ==
  ASSUME NEW ft \in Decodable, NEW type, NEW k \in 1..Len(ft),
         k # Len(ft) => type[k + 1] \in Types
  PROVE  TypeFrom(ft, type, k) \in Types
<1>1. {"Ref", "Slice", "Tuple"} \subseteq TypeWrappers
  BY DEF TypeWrappers, Pointers
<1>2. CASE ft[k] = "RefSlice"
  <2>1. type[k + 1] \in Types
    BY <1>2, DecodableShape
  <2>2. <<"Slice">> \o type[k + 1] \in Types
    BY <1>1, <2>1, TypeAround
  <2>3. <<"Ref">> \o (<<"Slice">> \o type[k + 1]) \in Types
    BY <1>1, <2>2, TypeAround
  <2>4. <<"Ref", "Slice">> \o type[k + 1] = <<"Ref">> \o (<<"Slice">> \o type[k + 1])
    <3>1. type[k + 1] \in Seq(TypeNames) /\ "Ref" \in TypeNames /\ "Slice" \in TypeNames
      BY <1>1, <2>1, TypeShape DEF TypeNames
    <3> QED
      BY <3>1, TwoAround
  <2>5. TypeFrom(ft, type, k) = <<"Ref", "Slice">> \o type[k + 1]
    BY <1>2 DEF TypeFrom
  <2> QED
    BY <2>3, <2>4, <2>5
<1>3. CASE ft[k] = "Tuple"
  <2>1. type[k + 1] \in Types
    BY <1>3, DecodableShape
  <2>2. <<"Tuple">> \o type[k + 1] \in Types
    BY <1>1, <2>1, TypeAround
  <2> QED
    BY <1>3, <2>2 DEF TypeFrom
<1>4. CASE ft[k] = "RefStr"
  <2>1. <<"str">> \in Types
    BY SingleType DEF PrimTypes
  <2>2. <<"Ref">> \o <<"str">> \in Types
    BY <1>1, <2>1, TypeAround
  <2>3. <<"Ref", "str">> = <<"Ref">> \o <<"str">>
    OBVIOUS
  <2> QED
    BY <1>4, <2>2, <2>3 DEF TypeFrom
<1>5. CASE ft[k] \notin {"RefSlice", "Tuple", "RefStr"}
  <2>1. ft[k] \in PrimTypes
    BY <1>5, DecodableShape
  <2>2. <<ft[k]>> \in Types
    BY <2>1, SingleType
  <2>3. TypeFrom(ft, type, k) = <<ft[k]>>
    BY <1>5 DEF TypeFrom
  <2> QED
    BY <2>2, <2>3
<1> QED
  BY <1>2, <1>3, <1>4, <1>5

\* What is written at a position depends on the rest only as far as it is nested.
LEMMA TypeFromLocal ==
  ASSUME NEW ft \in Decodable, NEW f, NEW g, NEW k \in 1..Len(ft),
         NEW ft2, NEW k2, ft2[k2] = ft[k], k # Len(ft) => f[k + 1] = g[k2 + 1]
  PROVE  TypeFrom(ft, f, k) = TypeFrom(ft2, g, k2)
<1>1. CASE ft[k] \in {"RefSlice", "Tuple"}
  <2>1. f[k + 1] = g[k2 + 1]
    BY <1>1, DecodableShape
  <2> QED
    BY <1>1, <2>1 DEF TypeFrom
<1>2. CASE ft[k] \notin {"RefSlice", "Tuple"}
  BY <1>2 DEF TypeFrom
<1> QED
  BY <1>1, <1>2

\* The recursive definition of TypeStrings.
LEMMA TypeStringsUnfold ==
  ASSUME NEW ft \in Decodable
  PROVE  \A k \in 1..Len(ft) : /\ TypeStrings(ft)[k] \in Types
                               /\ TypeStrings(ft)[k] = TypeFrom(ft, TypeStrings(ft), k)
<1> DEFINE n == Len(ft)
           V == Types
           step == [k \in 1..n |-> [f \in [1..n -> V] |-> TypeFrom(ft, f, k)]]
           Is(f) == f = [k \in 1..n |-> TypeFrom(ft, f, k)]
<1>1. n \in Nat
  BY DecodableShape
<1>2. \E f : Is(f)
  <2>1. step \in [1..n -> [[1..n -> V] -> V]]
    <3>1. ASSUME NEW k \in 1..n, NEW f \in [1..n -> V] PROVE TypeFrom(ft, f, k) \in V
      <4>1. k # n => f[k + 1] \in V
        BY <1>1
      <4> QED
        BY <4>1, TypeFromTyped
    <3> QED
      BY <3>1
  <2>2. ASSUME NEW k \in 1..n, NEW f \in [1..n -> V], NEW g \in [1..n -> V],
               k # n => f[k + 1] = g[k + 1]
        PROVE  step[k][f] = step[k][g]
    <3>1. TypeFrom(ft, f, k) = TypeFrom(ft, g, k)
      BY <2>2, TypeFromLocal
    <3> QED
      BY <3>1
  <2>3. V # {}
    BY SingleType DEF PrimTypes
  <2>4. HasSolution(1..n, V, step)
    <3> HIDE DEF n, V, step
    <3>1. InwardStep(n, V, step)
      BY <1>1, <2>1, <2>2, <2>3 DEF InwardStep
    <3> QED
      BY <3>1, InwardRecursion
  <2>5. PICK f \in [1..n -> V] : \A k \in 1..n : f[k] = step[k][f]
    BY <2>4 DEF HasSolution
  <2>6. Is(f)
    BY <2>5
  <2> QED
    BY <2>6
<1> DEFINE t == TypeStrings(ft)
<1>3. t = CHOOSE f : Is(f)
  BY DEF TypeStrings
<1>4. Is(t)
  <2> HIDE DEF Is, t
  <2> QED
    BY <1>2, <1>3
<1> HIDE DEF t
<1> DEFINE P == {k \in 1..n : t[k] \in V}
<1>5. P = 1..n
  <2>1. ASSUME NEW k \in 1..n, k # n => k + 1 \in P PROVE k \in P
    <3>1. TypeFrom(ft, t, k) \in V
      BY <2>1, TypeFromTyped
    <3> QED
      BY <1>4, <3>1
  <2>2. P \subseteq 1..n
    OBVIOUS
  <2> HIDE DEF P, n
  <2> QED
    BY <1>1, <2>1, <2>2, InwardInduction DEF Inward
<1>6. \A k \in 1..n : t[k] \in V /\ t[k] = TypeFrom(ft, t, k)
  BY <1>4, <1>5
<1> QED
  BY <1>6 DEF t

\* A tuple or slice of what is decoded further inside.
LEMMA TypeStringAround ==
  ASSUME NEW ft \in Decodable, NEW c \in {"RefSlice", "Tuple"}
  PROVE  /\ ToTypeString(ft) \in Types
         /\ ToTypeString(<<c>> \o ft) =
              (IF c = "Tuple" THEN <<"Tuple">> ELSE <<"Ref", "Slice">>) \o ToTypeString(ft)
<1> DEFINE n == Len(ft)
           u == <<c>> \o ft
           s == TypeStrings(ft)
           t == TypeStrings(u)
<1>1. n \in Nat /\ n # 0 /\ ft \in Seq(FuzzableNames) /\ c \in FuzzableNames
  BY DecodableShape DEF FuzzableNames
<1>2. u \in Decodable
  BY DecodableAround
<1>3. IsAround(FuzzableNames, c, ft, u)
  BY <1>1, OneMore
<1>4. \A k \in 1..n : s[k] = TypeFrom(ft, s, k) /\ s[k] \in Types
  BY TypeStringsUnfold
<1>5. \A k \in 1..Len(u) : t[k] = TypeFrom(u, t, k)
  BY <1>2, TypeStringsUnfold
<1> HIDE DEF u, s, t
<1>6. Len(u) = n + 1 /\ u[1] = c /\ \A k \in 1..n : u[k + 1] = ft[k]
  BY <1>3 DEF IsAround
<1> DEFINE P == {k \in 1..n : t[k + 1] = s[k]}
<1>7. P = 1..n
  <2>1. ASSUME NEW k \in 1..n, k # n => k + 1 \in P PROVE k \in P
    <3>1. k + 1 \in 1..Len(u) /\ u[k + 1] = ft[k]
      BY <1>1, <1>6
    <3>2. k # n => s[k + 1] = t[(k + 1) + 1]
      BY <2>1
    <3>3. TypeFrom(ft, s, k) = TypeFrom(u, t, k + 1)
      BY <3>1, <3>2, TypeFromLocal
    <3> QED
      BY <1>4, <1>5, <3>1, <3>3
  <2>2. P \subseteq 1..n
    OBVIOUS
  <2> HIDE DEF P, n
  <2> QED
    BY <1>1, <2>1, <2>2, InwardInduction DEF Inward
<1>8. 1 \in 1..n /\ t[1 + 1] = s[1]
  <2>1. 1 \in 1..n
    BY <1>1
  <2> QED
    BY <1>7, <2>1
<1>9. t[1] = (IF c = "Tuple" THEN <<"Tuple">> ELSE <<"Ref", "Slice">>) \o t[1 + 1]
  <2>1. 1 \in 1..Len(u)
    BY <1>1, <1>6
  <2>2. TypeFrom(u, t, 1) = (IF c = "Tuple" THEN <<"Tuple">> ELSE <<"Ref", "Slice">>) \o t[1 + 1]
    BY <1>6 DEF TypeFrom
  <2> QED
    BY <1>5, <2>1, <2>2
<1> QED
  BY <1>4, <1>8, <1>9 DEF ToTypeString, s, t, u

\* The declared types of primitive values and of strings.
LEMMA TypeStringLeaf ==
  ASSUME NEW p \in PrimTypes \cup {"RefStr"}
  PROVE  ToTypeString(<<p>>) = IF p = "RefStr" THEN <<"Ref", "str">> ELSE <<p>>
<1> DEFINE ft == <<p>>
           t == TypeStrings(ft)
<1>1. ft \in Decodable
  BY DecodableLeaf
<1>2. Len(ft) = 1 /\ ft[1] = p /\ 1 \in 1..Len(ft)
  OBVIOUS
<1>3. t[1] = TypeFrom(ft, t, 1)
  BY <1>1, <1>2, TypeStringsUnfold
<1> HIDE DEF ft, t
<1>4. p \notin {"RefSlice", "Tuple"}
  BY DEF PrimTypes, Numbers
<1>5. t[1] = IF p = "RefStr" THEN <<"Ref", "str">> ELSE <<p>>
  BY <1>2, <1>3, <1>4 DEF TypeFrom
<1> QED
  BY <1>5 DEF ToTypeString, t, ft


-----------------------------------------------------------------------------
(* How a decoded variable is passed *)

\* No pointer to mut is made.
NoMutPointer(ct) == \A k \in DOMAIN ct : ct[k] # "MutRawPointer"

\* The same of what is inside a constructor.
LEMMA NoMutPointerInside ==
  ASSUME NEW ct \in Calling, NEW c \in Wrappers, NoMutPointer(<<c>> \o ct)
  PROVE  NoMutPointer(ct) /\ c # "MutRawPointer"
<1> DEFINE t == <<c>> \o ct
<1>1. ct \in Seq(CallNames) /\ c \in CallNames /\ Len(ct) \in Nat /\ DOMAIN ct = 1..Len(ct)
  BY CallShape DEF CallNames
<1>2. IsAround(CallNames, c, ct, t)
  BY <1>1, OneMore
<1>3. NoMutPointer(t)
  OBVIOUS
<1> HIDE DEF t
<1>4. /\ t \in Seq(CallNames) /\ Len(t) = Len(ct) + 1 /\ t[1] = c
      /\ \A k \in 1..Len(ct) : t[k + 1] = ct[k]
  BY <1>2 DEF IsAround
<1>5. DOMAIN t = 1..(Len(ct) + 1) /\ 1 \in DOMAIN t
  BY <1>1, <1>4
<1>6. \A k \in DOMAIN ct : k + 1 \in DOMAIN t /\ t[k + 1] = ct[k]
  BY <1>1, <1>4, <1>5
<1> QED
  BY <1>3, <1>4, <1>5, <1>6 DEF NoMutPointer

\* A variable that is decoded, and how it is passed.
Passable(g) == g.call_type \in Calling /\ g.fuzzable_type \in Decodable

\* The elements of the slices inside are decoded as they are.
DirectElements(ty, gen, k) ==
  \A j \in (k + 1)..Len(ty) : ty[j] = "Slice" => gen[j + 1].call_type = DirectCall

\* The variable has a type, and is passed as the part of ty from k on.
Declared(g) == ToTypeString(g.fuzzable_type)
PassedAs(ty, gen, k) ==
  DirectElements(ty, gen, k) /\ NoMutPointer(gen[k].call_type) =>
    CallString(gen[k].call_type, Declared(gen[k]), Last(ty)) = Suffix(ty, k)
\* If something is generated for the part, both hold.
HasPart(ty, gen, k) ==
  gen[k] # NotGenerated =>
    Passable(gen[k]) /\ Declared(gen[k]) \in Types /\ PassedAs(ty, gen, k)

\* A variable that is wrapped is one that can be decoded.
LEMMA WrappedParts ==
  ASSUME NEW c, NEW inner \in GeneratedRecords, Wrapped(c, inner) # NotGenerated
  PROVE  /\ inner # NotGenerated
         /\ Wrapped(c, inner).call_type = <<c>> \o inner.call_type
         /\ Wrapped(c, inner).fuzzable_type = inner.fuzzable_type
<1>1. inner # NotGenerated
  BY DEF Wrapped
<1>2. Wrapped(c, inner) = [inner EXCEPT !.call_type = <<c>> \o inner.call_type]
  BY <1>1 DEF Wrapped
<1> QED
  BY <1>1, <1>2 DEF GeneratedRecords

\* A tuple is decoded when its components are passed as they are.
LEMMA TupleParts ==
  ASSUME NEW inner \in GeneratedRecords, AsTuple(inner) # NotGenerated
  PROVE  /\ inner # NotGenerated /\ inner.call_type = DirectCall
         /\ AsTuple(inner).call_type = DirectCall
         /\ AsTuple(inner).fuzzable_type = <<"Tuple">> \o inner.fuzzable_type
<1>1. inner.call_type = DirectCall
  BY DEF AsTuple
<1>2. AsTuple(inner) = [inner EXCEPT !.fuzzable_type = <<"Tuple">> \o inner.fuzzable_type]
  BY <1>1 DEF AsTuple
<1>3. NotCompatible # DirectCall
  BY DEF NotCompatible, DirectCall
<1>4. NotGenerated.call_type = NotCompatible
  BY DEF NotGenerated
<1> QED
  BY <1>1, <1>2, <1>3, <1>4 DEF GeneratedRecords

\* A slice is decoded when its elements are, however they are passed.
LEMMA SliceParts ==
  ASSUME NEW inner, AsSlice(inner) # NotGenerated
  PROVE  /\ inner # NotGenerated
         /\ AsSlice(inner).call_type = DirectCall
         /\ AsSlice(inner).fuzzable_type = <<"RefSlice">> \o inner.fuzzable_type
  BY DEF AsSlice

\* Passed as it is, a variable has the type it is declared with.
LEMMA PassedDirectly ==
  ASSUME NEW ty \in Types, NEW gen, NEW k \in 1..Len(ty),
         gen[k].call_type = DirectCall, Declared(gen[k]) \in Types
  PROVE  /\ NoMutPointer(gen[k].call_type)
         /\ CallString(gen[k].call_type, Declared(gen[k]), Last(ty)) = Declared(gen[k])
<1> DEFINE d == Declared(gen[k])
<1>1. Last(ty) \in PrimTypes \cup StructTypes
  BY TypeShape DEF Last
<1>2. d \in Typed
  BY DEF Typed
<1> HIDE DEF d
<1>3. CallString(<<"DirectCall">>, d, Last(ty)) = d
  BY <1>1, <1>2, TextOfLeaf
<1>4. NoMutPointer(<<"DirectCall">>)
  BY DEF NoMutPointer
<1> QED
  BY <1>3, <1>4 DEF DirectCall, d

\* A constructor around the variable is the constructor around the part.
LEMMA WrappedPart ==
  ASSUME NEW ty \in Types, NEW gen, NEW k \in 1..Len(ty), k # Len(ty),
         ty[k] \in Pointers \cup Preludes,
         gen[k + 1] \in GeneratedRecords, HasPart(ty, gen, k + 1),
         gen[k] = Wrapped(Maker(ty[k]), gen[k + 1])
  PROVE  HasPart(ty, gen, k)
<1> DEFINE c == Maker(ty[k])
           g == gen[k]
           h == gen[k + 1]
           d == Declared(h)
           target == Last(ty)
<1> SUFFICES ASSUME g # NotGenerated
             PROVE  Passable(g) /\ Declared(g) \in Types /\ PassedAs(ty, gen, k)
  BY DEF HasPart
<1>1. h # NotGenerated /\ g.call_type = <<c>> \o h.call_type /\ g.fuzzable_type = h.fuzzable_type
  <2> HIDE DEF c
  <2>1. g = Wrapped(c, h)
    BY DEF c
  <2> QED
    BY <2>1, WrappedParts
<1>2. Passable(h) /\ d \in Types /\ PassedAs(ty, gen, k + 1)
  BY <1>1 DEF HasPart
<1>3. c \in Wrappers
  BY MakerAndTaker
<1>4. Passable(g)
  <2> HIDE DEF c, g, h
  <2> QED
    BY <1>1, <1>2, <1>3, CallAround DEF Passable
<1>5. Declared(g) = d
  BY <1>1 DEF Declared
<1>6. ASSUME DirectElements(ty, gen, k), NoMutPointer(g.call_type)
      PROVE  CallString(g.call_type, Declared(g), target) = Suffix(ty, k)
  <2>1. h.call_type \in Calling
    BY <1>2 DEF Passable
  <2>2. NoMutPointer(h.call_type) /\ c # "MutRawPointer"
    <3> HIDE DEF c, g, h
    <3> QED
      BY <1>1, <1>3, <1>6, <2>1, NoMutPointerInside
  <2>3. DirectElements(ty, gen, k + 1)
    <3>1. \A j \in ((k + 1) + 1)..Len(ty) : j \in (k + 1)..Len(ty)
      BY TypeShape
    <3> QED
      BY <1>6, <3>1 DEF DirectElements
  <2>4. CallString(h.call_type, d, target) = Suffix(ty, k + 1)
    BY <1>2, <2>2, <2>3 DEF PassedAs
  <2>5. target \in PrimTypes \cup StructTypes /\ d \in Typed
    BY <1>2, TypeShape DEF Last, Typed
  <2>6. CallString(<<c>> \o h.call_type, d, target) = Around(c, CallString(h.call_type, d, target))
    <3> HIDE DEF c, h, d, target
    <3> QED
      BY <1>3, <2>1, <2>5, TextAround
  <2>7. Suffix(ty, k) = <<ty[k]>> \o Suffix(ty, k + 1) /\ Suffix(ty, k + 1) \in Types
    BY SuffixAround
  <2>8. Around(c, Suffix(ty, k + 1)) = <<ty[k]>> \o Suffix(ty, k + 1)
    BY <2>2, <2>7, MakerAround
  <2> HIDE DEF c, g, h, d, target
  <2> QED
    BY <1>1, <1>5, <2>4, <2>6, <2>7, <2>8
<1> QED
  BY <1>2, <1>4, <1>5, <1>6 DEF PassedAs


\* A tuple is declared as the tuple of what its components are declared as.
LEMMA TuplePart ==
  ASSUME NEW ty \in Types, NEW gen, NEW k \in 1..Len(ty), k # Len(ty), ty[k] = "Tuple",
         gen[k + 1] \in GeneratedRecords, HasPart(ty, gen, k + 1),
         gen[k] = AsTuple(gen[k + 1])
  PROVE  HasPart(ty, gen, k)
<1> DEFINE g == gen[k]
           h == gen[k + 1]
           d == Declared(h)
<1> SUFFICES ASSUME g # NotGenerated
             PROVE  Passable(g) /\ Declared(g) \in Types /\ PassedAs(ty, gen, k)
  BY DEF HasPart
<1>1. /\ h # NotGenerated /\ h.call_type = DirectCall
      /\ g.call_type = DirectCall /\ g.fuzzable_type = <<"Tuple">> \o h.fuzzable_type
  BY TupleParts
<1>2. Passable(h) /\ d \in Types /\ PassedAs(ty, gen, k + 1) /\ h.fuzzable_type \in Decodable
  BY <1>1 DEF HasPart, Passable
<1>3. Passable(g)
  BY <1>1, <1>2, DecodableAround, DirectCalling DEF Passable
<1>4. Declared(g) = <<"Tuple">> \o d
  BY <1>1, <1>2, TypeStringAround DEF Declared
<1>5. Declared(g) \in Types
  BY <1>2, <1>4, TypeAround DEF TypeWrappers
<1>6. ASSUME DirectElements(ty, gen, k) PROVE Declared(g) = Suffix(ty, k)
  <2>1. DirectElements(ty, gen, k + 1)
    <3>1. \A j \in ((k + 1) + 1)..Len(ty) : j \in (k + 1)..Len(ty)
      BY TypeShape
    <3> QED
      BY <1>6, <3>1 DEF DirectElements
  <2>2. k + 1 \in 1..Len(ty)
    BY LastConstructor
  <2>3. NoMutPointer(h.call_type) /\ CallString(h.call_type, d, Last(ty)) = d
    BY <1>1, <1>2, <2>2, PassedDirectly
  <2>4. d = Suffix(ty, k + 1)
    BY <1>2, <2>1, <2>3 DEF PassedAs
  <2>5. Suffix(ty, k) = <<ty[k]>> \o Suffix(ty, k + 1)
    BY SuffixAround
  <2> QED
    BY <1>4, <2>4, <2>5
<1>7. CallString(g.call_type, Declared(g), Last(ty)) = Declared(g)
  BY <1>1, <1>5, PassedDirectly
<1> QED
  BY <1>3, <1>5, <1>6, <1>7 DEF PassedAs

\* A slice is passed as the part it is for when its elements are.
LEMMA SlicePart ==
  ASSUME NEW ty \in Types, NEW gen, NEW k \in 1..Len(ty), k # Len(ty), ty[k] = "Ref",
         ty[k + 1] = "Slice", HasPart(ty, gen, k + 2),
         gen[k] = AsSlice(gen[k + 2])
  PROVE  HasPart(ty, gen, k)
<1> DEFINE g == gen[k]
           h == gen[k + 2]
           d == Declared(h)
<1> SUFFICES ASSUME g # NotGenerated
             PROVE  Passable(g) /\ Declared(g) \in Types /\ PassedAs(ty, gen, k)
  BY DEF HasPart
<1>1. /\ h # NotGenerated
      /\ g.call_type = DirectCall /\ g.fuzzable_type = <<"RefSlice">> \o h.fuzzable_type
  BY SliceParts
<1>2. Passable(h) /\ d \in Types /\ PassedAs(ty, gen, k + 2) /\ h.fuzzable_type \in Decodable
  BY <1>1 DEF HasPart, Passable
<1>3. Passable(g)
  BY <1>1, <1>2, DecodableAround, DirectCalling DEF Passable
<1>4. Declared(g) = <<"Ref", "Slice">> \o d
  BY <1>1, <1>2, TypeStringAround DEF Declared
<1>5. <<"Ref", "Slice">> \o d = <<"Ref">> \o (<<"Slice">> \o d)
  <2>1. d \in Seq(TypeNames) /\ "Ref" \in TypeNames /\ "Slice" \in TypeNames
    BY <1>2, TypeShape DEF TypeNames, TypeWrappers, Pointers
  <2> QED
    BY <2>1, TwoAround
<1>6. Declared(g) \in Types
  <2>1. "Ref" \in TypeWrappers /\ "Slice" \in TypeWrappers
    BY DEF TypeWrappers, Pointers
  <2>2. <<"Slice">> \o d \in Types
    BY <1>2, <2>1, TypeAround
  <2>3. <<"Ref">> \o (<<"Slice">> \o d) \in Types
    BY <2>1, <2>2, TypeAround
  <2> QED
    BY <1>4, <1>5, <2>3
<1>7. /\ k + 1 \in 1..Len(ty) /\ k + 1 # Len(ty) /\ k + 2 \in 1..Len(ty)
      /\ (k + 1) + 1 = k + 2
  <2>1. k + 1 \in 1..Len(ty)
    BY LastConstructor
  <2>2. k + 1 # Len(ty) /\ (k + 1) + 1 \in 1..Len(ty)
    BY <2>1, LastConstructor DEF TypeWrappers
  <2> QED
    BY <2>1, <2>2
<1>8. ASSUME DirectElements(ty, gen, k) PROVE Declared(g) = Suffix(ty, k)
  <2>1. DirectElements(ty, gen, k + 2)
    <3>1. \A j \in ((k + 2) + 1)..Len(ty) : j \in (k + 1)..Len(ty)
      BY TypeShape
    <3> QED
      BY <1>8, <3>1 DEF DirectElements
  <2>2. h.call_type = DirectCall
    <3>1. k + 1 \in (k + 1)..Len(ty)
      BY <1>7
    <3> QED
      BY <1>7, <1>8, <3>1 DEF DirectElements
  <2>3. NoMutPointer(h.call_type) /\ CallString(h.call_type, d, Last(ty)) = d
    BY <1>2, <1>7, <2>2, PassedDirectly
  <2>4. d = Suffix(ty, k + 2)
    BY <1>2, <2>1, <2>3 DEF PassedAs
  <2>5. Suffix(ty, k) = <<ty[k]>> \o Suffix(ty, k + 1)
    BY SuffixAround
  <2>6. Suffix(ty, k + 1) = <<ty[k + 1]>> \o Suffix(ty, k + 2)
    BY <1>7, SuffixAround
  <2> QED
    BY <1>4, <1>5, <2>4, <2>5, <2>6
<1>9. CallString(g.call_type, Declared(g), Last(ty)) = Declared(g)
  BY <1>1, <1>6, PassedDirectly
<1> QED
  BY <1>3, <1>6, <1>8, <1>9 DEF PassedAs

\* The type of a string is a reference around str.
LEMMA RefAndStr == <<"Ref", "str">> = <<"Ref">> \o <<"str">>
  OBVIOUS

\* A primitive type, and a &str.
LEMMA LeafPart ==
  ASSUME NEW ty \in Types, NEW gen, NEW k \in 1..Len(ty), NEW p \in PrimTypes \cup {"RefStr"},
         gen[k] = [fuzzable_type |-> <<p>>, call_type |-> DirectCall],
         IF p = "RefStr" THEN k # Len(ty) /\ ty[k] = "Ref" /\ ty[k + 1] = "str"
         ELSE ty[k] = p
  PROVE  HasPart(ty, gen, k)
<1> DEFINE g == gen[k]
<1>1. g.fuzzable_type = <<p>> /\ g.call_type = DirectCall
  OBVIOUS
<1>2. Passable(g)
  BY <1>1, DecodableLeaf, DirectCalling DEF Passable
<1>3. Declared(g) = IF p = "RefStr" THEN <<"Ref", "str">> ELSE <<p>>
  BY <1>1, TypeStringLeaf DEF Declared
<1>4. Declared(g) = Suffix(ty, k)
  <2>1. CASE p = "RefStr"
    <3>1. k + 1 \in 1..Len(ty) /\ k + 1 = Len(ty)
      BY <2>1, LastConstructor DEF PrimTypes
    <3>2. Suffix(ty, k + 1) = <<ty[k + 1]>>
      BY <3>1, SuffixCons, TypeShape
    <3>3. Suffix(ty, k) = <<"Ref">> \o <<"str">>
      BY <2>1, <3>2, SuffixAround
    <3> QED
      BY <1>3, <2>1, <3>3, RefAndStr
  <2>2. CASE p # "RefStr"
    <3>1. ty[k] = p /\ k = Len(ty)
      BY <2>2, LastConstructor
    <3> QED
      BY <1>3, <2>2, <3>1, SuffixCons, TypeShape
  <2> QED
    BY <2>1, <2>2
<1>5. Declared(g) \in Types
  BY <1>4, TypeSuffix
<1>6. CallString(g.call_type, Declared(g), Last(ty)) = Declared(g)
  BY <1>1, <1>5, PassedDirectly
<1> QED
  BY <1>2, <1>4, <1>5, <1>6 DEF HasPart, PassedAs

\* One level of generate_fuzzable_type_and_call_type.
LEMMA GeneratedPart ==
  ASSUME NEW ty \in Types, NEW gen \in [1..Len(ty) -> GeneratedRecords], NEW k \in 1..Len(ty),
         gen[k] = GeneratedFrom(ty, gen, k),
         \A m \in 1..Len(ty) : m > k => HasPart(ty, gen, m)
  PROVE  HasPart(ty, gen, k)
<1>1. CASE ty[k] \in PrimTypes
  <2>1. gen[k] = [fuzzable_type |-> <<ty[k]>>, call_type |-> DirectCall]
    BY <1>1 DEF GeneratedFrom, PrimTypes, Numbers, Pointers
  <2>2. ty[k] # "RefStr"
    BY <1>1 DEF PrimTypes, Numbers
  <2> QED
    BY <1>1, <2>1, <2>2, LeafPart
<1>2. CASE ty[k] \notin TypeWrappers \cup PrimTypes
  <2>1. gen[k] = NotGenerated
    BY <1>2 DEF GeneratedFrom, TypeWrappers, Preludes, Pointers
  <2> QED
    BY <2>1 DEF HasPart
<1>3. CASE ty[k] \in TypeWrappers
  <2>1. ty[k] \notin PrimTypes /\ k # Len(ty) /\ k + 1 \in 1..Len(ty)
    BY <1>3, NotAConstructor, LastConstructor
  <2>2. k + 1 > k /\ HasPart(ty, gen, k + 1) /\ gen[k + 1] \in GeneratedRecords
    BY <2>1
  <2>3. CASE ty[k] = "Tuple"
    <3>1. gen[k] = AsTuple(gen[k + 1])
      BY <2>1, <2>3 DEF GeneratedFrom, Pointers
    <3> QED
      BY <2>1, <2>2, <2>3, <3>1, TuplePart
  <2>4. CASE ty[k] = "Ref" /\ ty[k + 1] = "str"
    <3>1. gen[k] = [fuzzable_type |-> <<"RefStr">>, call_type |-> DirectCall]
      BY <2>1, <2>4 DEF GeneratedFrom
    <3> QED
      BY <2>1, <2>4, <3>1, LeafPart
  <2>5. CASE ty[k] = "Ref" /\ ty[k + 1] = "Slice"
    <3>1. gen[k] = AsSlice(gen[k + 2])
      BY <2>1, <2>5 DEF GeneratedFrom
    <3>2. k + 1 # Len(ty) /\ (k + 1) + 1 \in 1..Len(ty)
      BY <2>1, <2>5, LastConstructor DEF TypeWrappers
    <3>3. k + 2 \in 1..Len(ty) /\ k + 2 > k
      BY <3>2
    <3> QED
      BY <2>1, <2>5, <3>1, <3>3, SlicePart
  <2>6. CASE ty[k] = "Ref" /\ ty[k + 1] \notin {"str", "Slice"}
    <3>1. gen[k] = Wrapped("BorrowedRef", gen[k + 1])
      BY <2>1, <2>6 DEF GeneratedFrom
    <3>2. Maker(ty[k]) = "BorrowedRef" /\ ty[k] \in Pointers
      BY <2>6 DEF Maker, Pointers, PointerCallType
    <3> QED
      BY <2>1, <2>2, <3>1, <3>2, WrappedPart
  <2>7. CASE ty[k] \in Pointers \ {"Ref"}
    <3>1. gen[k] = Wrapped(PointerCallType(ty[k]), gen[k + 1])
      BY <2>1, <2>7 DEF GeneratedFrom, Pointers
    <3>2. Maker(ty[k]) = PointerCallType(ty[k])
      BY <2>7 DEF Maker
    <3> QED
      BY <2>1, <2>2, <2>7, <3>1, <3>2, WrappedPart
  <2>8. CASE ty[k] = "Option"
    <3>1. gen[k] = Wrapped("ToOption", gen[k + 1])
      BY <2>1, <2>8 DEF GeneratedFrom, Pointers
    <3>2. Maker(ty[k]) = "ToOption" /\ ty[k] \in Preludes
      BY <2>8 DEF Maker, Pointers, Preludes
    <3> QED
      BY <2>1, <2>2, <3>1, <3>2, WrappedPart
  <2>9. CASE ty[k] \in {"Slice", "Array", "Result"}
    <3>1. gen[k] = NotGenerated
      BY <2>1, <2>9 DEF GeneratedFrom, Pointers
    <3> QED
      BY <3>1 DEF HasPart
  <2> QED
    BY <1>3, <2>3, <2>4, <2>5, <2>6, <2>7, <2>8, <2>9 DEF TypeWrappers, Preludes, Pointers
<1> QED
  BY <1>1, <1>2, <1>3


\* A type around a primitive type.
LEMMA PrimitiveType ==
  ASSUME NEW ty \in Types, ty[Len(ty)] \in PrimTypes
  PROVE  ParamTyOk(ty)
  BY TypeShape DEF ParamTyOk

\* What is generated for every part of a type.
LEMMA GeneratedParts ==
  ASSUME NEW ty \in Types, ty[Len(ty)] \in PrimTypes
  PROVE  \A k \in 1..Len(ty) : HasPart(ty, Generated(ty), k)
<1> DEFINE n == Len(ty)
           D == 1..n
           rank == [k \in D |-> n - k]
           gen == Generated(ty)
           P == {k \in D : HasPart(ty, gen, k)}
<1>1. n \in Nat
  BY TypeShape
<1>2. gen \in [D -> GeneratedRecords] /\ \A k \in D : gen[k] = GeneratedFrom(ty, gen, k)
  BY PrimitiveType, GeneratedUnfold
<1> HIDE DEF gen
<1>3. ASSUME NEW k \in D, \A y \in D : rank[y] < rank[k] => y \in P PROVE k \in P
  <2>1. \A y \in D : y > k => HasPart(ty, gen, y)
    BY <1>1, <1>3
  <2>2. HasPart(ty, gen, k)
    BY <1>2, <2>1, GeneratedPart
  <2> QED
    BY <2>2
<1>4. rank \in [D -> Nat] /\ P \subseteq D
  BY <1>1
<1>5. P = D
  <2> HIDE DEF D, rank, P
  <2> QED
    BY <1>3, <1>4, RankInduction DEF Progressive
<1> QED
  BY <1>5 DEF gen

\* One level for the same part of another type.
LEMMA GeneratedFromShifted ==
  ASSUME NEW ty, ParamTyOk(ty), NEW f, NEW g, NEW k \in 1..Len(ty), NEW ty2, NEW k2,
         ty2[k2] = ty[k],
         k + 1 \in 1..Len(ty) => ty2[k2 + 1] = ty[k + 1] /\ f[k + 1] = g[k2 + 1],
         k + 2 \in 1..Len(ty) => f[k + 2] = g[k2 + 2]
  PROVE  GeneratedFrom(ty, f, k) = GeneratedFrom(ty2, g, k2)
<1>1. CASE ty[k] \in PrimTypes
  BY <1>1 DEF GeneratedFrom, PrimTypes, Numbers, Pointers
<1>2. CASE ty[k] \notin PrimTypes
  <2>1. k + 1 \in 1..Len(ty) /\ k \in 1..(Len(ty) - 1)
    BY <1>2, ParamTyShape
  <2>2. f[k + 1] = g[k2 + 1] /\ ty2[k2 + 1] = ty[k + 1]
    BY <2>1
  <2>3. ty[k + 1] = "Slice" => f[k + 2] = g[k2 + 2]
    BY <2>1, ParamTyShape
  <2>4. CASE ty[k + 1] = "Slice"
    BY <1>2, <2>2, <2>3, <2>4 DEF GeneratedFrom
  <2>5. CASE ty[k + 1] # "Slice"
    BY <1>2, <2>2, <2>5 DEF GeneratedFrom
  <2> QED
    BY <2>4, <2>5
<1> QED
  BY <1>1, <1>2

\* What is generated for a part does not depend on what is around it.
LEMMA GeneratedSuffix ==
  ASSUME NEW ty \in Types, ty[Len(ty)] \in PrimTypes, NEW j \in 1..Len(ty)
  PROVE  GenerateFuzzableTypeAndCallType(Suffix(ty, j)) = Generated(ty)[j]
<1> DEFINE n == Len(ty)
           u == Suffix(ty, j)
           m == Len(u)
           D == 1..m
           rank == [i \in D |-> m - i]
           g == Generated(ty)
           h == Generated(u)
           P == {i \in D : h[i] = g[j + i - 1]}
<1>1. /\ m = n - j + 1 /\ n \in Nat
      /\ \A i \in 1..(n - j + 1) : u[i] = ty[j + i - 1]
  BY TypeShape, SuffixElements
<1>2. u \in Types
  BY TypeSuffix
<1>3. m \in Nat /\ m # 0 /\ m \in 1..m
  BY <1>2, TypeShape
<1>4. \A i \in D : u[i] = ty[j + i - 1] /\ j + i - 1 \in 1..n
  <2>1. \A i \in 1..(n - j + 1) : j + i - 1 \in 1..n
    BY <1>1
  <2> QED
    BY <1>1, <2>1
<1>5. u[m] = ty[n]
  <2>1. j + m - 1 = n
    BY <1>1
  <2> HIDE DEF m, n, u
  <2> QED
    BY <1>3, <1>4, <2>1
<1>6. ParamTyOk(u) /\ ParamTyOk(ty)
  BY <1>2, <1>5, PrimitiveType
<1>7. \A k \in 1..n : g[k] = GeneratedFrom(ty, g, k)
  BY <1>6, GeneratedUnfold
<1>8. \A k \in D : h[k] = GeneratedFrom(u, h, k)
  BY <1>6, GeneratedUnfold
<1> HIDE DEF g, h, u
<1>9. ASSUME NEW i \in D, \A y \in D : rank[y] < rank[i] => y \in P PROVE i \in P
  <2> DEFINE k == j + i - 1
  <2>1. /\ i \in Nat /\ j \in Nat /\ k \in Nat
        /\ i + 1 \in D => rank[i + 1] < rank[i] /\ j + (i + 1) - 1 = k + 1
        /\ i + 2 \in D => rank[i + 2] < rank[i] /\ j + (i + 2) - 1 = k + 2
    BY <1>3
  <2>2. i + 1 \in D => u[i + 1] = ty[k + 1] /\ h[i + 1] = g[k + 1]
    BY <1>4, <1>9, <2>1
  <2>3. i + 2 \in D => h[i + 2] = g[k + 2]
    BY <1>9, <2>1
  <2>4. u[i] = ty[k] /\ k \in 1..n
    BY <1>4
  <2> HIDE DEF k, rank, P
  <2>5. GeneratedFrom(u, h, i) = GeneratedFrom(ty, g, k)
    BY <1>6, <2>2, <2>3, <2>4, GeneratedFromShifted
  <2>6. h[i] = g[k]
    BY <1>7, <1>8, <2>4, <2>5
  <2> QED
    BY <2>6 DEF P, k
<1>10. rank \in [D -> Nat] /\ P \subseteq D
  BY <1>3
<1>11. P = D
  <2> HIDE DEF D, rank, P
  <2> QED
    BY <1>9, <1>10, RankInduction DEF Progressive
<1>12. h[1] = g[j]
  <2>1. 1 \in D /\ j + 1 - 1 = j
    BY <1>3
  <2>2. h[1] = g[j + 1 - 1]
    BY <1>11, <2>1
  <2> QED
    BY <2>1, <2>2
<1> QED
  BY <1>12 DEF GenerateFuzzableTypeAndCallType, g, h, u

\* A decoded variable has a type, and is passed as one of its parameter's type
\* when the elements of slices are decoded as they are and no pointer to mut is made.
DecodedAs(ty, g) ==
  /\ g.call_type \in Calling /\ ToTypeString(g.fuzzable_type) \in Types
  /\ ~ConvertedElements(ty) /\ NoMutPointer(g.call_type) =>
       CallString(g.call_type, ToTypeString(g.fuzzable_type), Last(ty)) = ty

\* This holds for whatever is generated for a parameter.
LEMMA DecodedMakes ==
  ASSUME NEW ty \in Types, IsFuzzableType(ty),
         GenerateFuzzableTypeAndCallType(ty).call_type # NotCompatible
  PROVE  DecodedAs(ty, GenerateFuzzableTypeAndCallType(ty))
<1> DEFINE gen == Generated(ty)
           g == gen[1]
<1>1. ty[Len(ty)] \in PrimTypes
  BY DEF IsFuzzableType, Last
<1>2. 1 \in 1..Len(ty)
  BY TypeShape
<1>3. g = GenerateFuzzableTypeAndCallType(ty)
  BY DEF GenerateFuzzableTypeAndCallType
<1>4. HasPart(ty, gen, 1)
  BY <1>1, <1>2, GeneratedParts
<1>5. ASSUME ~ConvertedElements(ty) PROVE DirectElements(ty, gen, 1)
  <2>1. ASSUME NEW j \in (1 + 1)..Len(ty), ty[j] = "Slice" PROVE gen[j + 1].call_type = DirectCall
    <3>1. j \in 2..Len(ty) /\ j \in 1..Len(ty)
      BY <2>1, TypeShape
    <3>2. j + 1 \in 1..Len(ty)
      BY <2>1, <3>1, LastConstructor DEF TypeWrappers
    <3>3. GenerateFuzzableTypeAndCallType(Suffix(ty, j + 1)).call_type = DirectCall
      BY <1>5, <2>1, <3>1 DEF ConvertedElements
    <3> QED
      BY <1>1, <3>2, <3>3, GeneratedSuffix
  <2> QED
    BY <2>1 DEF DirectElements
<1> HIDE DEF gen
<1>6. g # NotGenerated
  BY <1>3 DEF NotGenerated
<1>7. Passable(g) /\ Declared(g) \in Types /\ PassedAs(ty, gen, 1)
  BY <1>4, <1>6 DEF HasPart
<1>8. Suffix(ty, 1) = ty
  BY SequenceWhole, TypeShape
<1>9. DecodedAs(ty, g)
  BY <1>5, <1>7, <1>8 DEF Passable, Declared, PassedAs, DecodedAs
<1> QED
  BY <1>3, <1>9


-----------------------------------------------------------------------------
(* The invariant of the statements that make an argument *)

\* The parameter, the earlier call and the call type chosen for them.
Chosen ==
  /\ param \in Types /\ call_type # NotCompatible
  /\ \/ /\ IsFuzzableType(param) /\ origin = <<>>
        /\ call_type = GenerateFuzzableTypeAndCallType(param).call_type
     \/ /\ origin \in Types
        /\ call_type = SameType(FinalType(origin), param)

\* The value is what the pieces written so far have made of the variable, and all
\* of them make what the whole call type does.
WrittenSoFar ==
  \E vs \in [0..Len(Pieces) -> Typed] :
    /\ Binds(Pieces, Bound, Last(param), vs)
    /\ vs[Len(Pieces)] = CallString(call_type, Bound, Last(param))
    /\ value = vs[written]

\* The pieces are written in order.
ConversionInv ==
  /\ Chosen
  /\ progress \in {"bind", "write", "passed"}
  /\ progress = "bind" => written = 0
  /\ progress = "write" => written \in 0..(Len(Pieces) - 1) /\ WrittenSoFar
  /\ progress = "passed" => written = Len(Pieces) /\ WrittenSoFar

\* The types of parameters and results are types.
LEMMA TypesOfFunctions ==
  ASSUME NEW ty \in OutputTypes \cup InputTypes
  PROVE  ty \in Types
  BY TypesAssumption DEF Types, IsType, TypeNames

\* A result without its Option or Result has a type.
LEMMA FinalTypeType ==
  ASSUME NEW ty \in Types
  PROVE  FinalType(ty) \in Types
<1>1. Head(ty) \in Preludes => Tail(ty) \in Types
  BY TypeTail DEF TypeWrappers
<1> QED
  BY <1>1 DEF FinalType, PreludeTypeNeedSpecialDealing

\* The comparison of two types gives a call type or none.
LEMMA SameTypeConvertible ==
  ASSUME NEW out \in Types, NEW inp \in Types
  PROVE  SameType(out, inp) \in Convertible
<1>1. 1 \in 1..Len(out) /\ 1 \in 1..Len(inp)
  BY TypeShape
<1> QED
  BY <1>1, SameTypesUnfold DEF SameType

\* The call type of an argument, the variable and the pieces.
LEMMA ChosenFacts ==
  ASSUME Chosen
  PROVE  /\ call_type \in Calling /\ Bound \in Types
         /\ Last(param) \in PrimTypes \cup StructTypes
         /\ Pieces \in Statements /\ Len(Pieces) \in Nat \ {0}
         /\ \A k \in 1..Len(Pieces) : Pieces[k] \in Calling
         /\ Makes(Pieces, Bound, Last(param), CallString(call_type, Bound, Last(param)))
<1>1. param \in Types /\ call_type # NotCompatible
  BY DEF Chosen
<1>2. Last(param) \in PrimTypes \cup StructTypes
  BY <1>1, TypeShape DEF Last
<1>3. call_type \in Calling /\ Bound \in Types
  <2>1. CASE origin = <<>>
    <3>1. <<>> \notin Types
      BY TypeShape
    <3>2. IsFuzzableType(param) /\ call_type = GenerateFuzzableTypeAndCallType(param).call_type
      BY <2>1, <3>1 DEF Chosen
    <3>3. DecodedAs(param, GenerateFuzzableTypeAndCallType(param))
      BY <1>1, <3>2, DecodedMakes
    <3> QED
      BY <2>1, <3>2, <3>3 DEF DecodedAs, Bound
  <2>2. CASE origin # <<>>
    <3>1. origin \in Types /\ call_type = SameType(FinalType(origin), param)
      BY <2>2 DEF Chosen
    <3>2. FinalType(origin) \in Types
      BY <3>1, FinalTypeType
    <3>3. SameType(FinalType(origin), param) \in Convertible
      BY <1>1, <3>2, SameTypeConvertible
    <3> QED
      BY <1>1, <2>2, <3>1, <3>2, <3>3 DEF Convertible, Bound
  <2> QED
    BY <2>1, <2>2
<1>4. Bound \in Typed
  BY <1>3 DEF Typed
<1>5. /\ Pieces \in Statements
      /\ Makes(Pieces, Bound, Last(param), CallString(call_type, Bound, Last(param)))
  BY <1>2, <1>3, <1>4, SplitKeeps DEF Pieces
<1>6. Pieces \in Seq(Calling) /\ Pieces # <<>>
  BY <1>5 DEF Statements
<1>7. Len(Pieces) \in Nat \ {0} /\ \A k \in 1..Len(Pieces) : Pieces[k] \in Calling
  BY <1>6
<1> QED
  BY <1>2, <1>3, <1>5, <1>7

\* It holds for the call type that is_fun_satisfied records.
LEMMA ConversionInvInit == ConversionInit => ConversionInv
<1> SUFFICES ASSUME ConversionInit PROVE ConversionInv
  OBVIOUS
<1>1. param \in Types
  BY TypesOfFunctions DEF ConversionInit
<1>2. Chosen
  BY <1>1, TypesOfFunctions DEF ConversionInit, Chosen
<1> QED
  BY <1>2 DEF ConversionInit, ConversionInv

\* The parameter, the call and its call type stay.
LEMMA ChosenStays ==
  ASSUME Chosen, UNCHANGED <<param, origin, call_type>>
  PROVE  Chosen' /\ Pieces' = Pieces /\ Bound' = Bound
  BY DEF Chosen, Pieces, Bound

\* The variable is bound.
LEMMA ConversionInvBind ==
  ASSUME ConversionInv, DeclareParam \/ BindResult
  PROVE  ConversionInv'
<1>1. Chosen /\ progress = "bind" /\ written = 0
  BY DEF ConversionInv, DeclareParam, BindResult
<1>2. /\ value' = Bound /\ progress' = "write" /\ written' = written
      /\ UNCHANGED <<param, origin, call_type>>
  BY DEF DeclareParam, BindResult, Bound
<1>3. Chosen' /\ Pieces' = Pieces /\ Bound' = Bound /\ param' = param /\ call_type' = call_type
  BY <1>1, <1>2, ChosenStays
<1>4. Len(Pieces) \in Nat \ {0}
  BY <1>1, ChosenFacts
<1>5. PICK vs \in [0..Len(Pieces) -> Typed] :
        /\ Binds(Pieces, Bound, Last(param), vs)
        /\ vs[Len(Pieces)] = CallString(call_type, Bound, Last(param))
  BY <1>1, ChosenFacts DEF Makes
<1>6. vs[0] = Bound
  BY <1>5 DEF Binds
<1>7. WrittenSoFar'
  BY <1>1, <1>2, <1>3, <1>5, <1>6 DEF WrittenSoFar
<1>8. written' \in 0..(Len(Pieces) - 1)
  BY <1>1, <1>2, <1>4
<1> QED
  BY <1>2, <1>3, <1>7, <1>8 DEF ConversionInv

\* A piece is written.
LEMMA ConversionInvWrite ==
  ASSUME ConversionInv, HelperLine \/ WriteArgument
  PROVE  ConversionInv'
<1>1. Chosen /\ progress = "write" /\ written \in 0..(Len(Pieces) - 1) /\ WrittenSoFar
  BY DEF ConversionInv, HelperLine, WriteArgument
<1>2. Len(Pieces) \in Nat \ {0}
  BY <1>1, ChosenFacts
<1>3. /\ value' = CallString(Pieces[written + 1], value, Last(param)) /\ written' = written + 1
      /\ UNCHANGED <<param, origin, call_type>>
  BY DEF HelperLine, WriteArgument, Last
<1>4. \/ progress' = "write" /\ written + 1 < Len(Pieces)
      \/ progress' = "passed" /\ written + 1 = Len(Pieces)
  BY <1>1 DEF HelperLine, WriteArgument
<1>5. Chosen' /\ Pieces' = Pieces /\ Bound' = Bound /\ param' = param /\ call_type' = call_type
  BY <1>1, <1>3, ChosenStays
<1>6. PICK vs \in [0..Len(Pieces) -> Typed] :
        /\ Binds(Pieces, Bound, Last(param), vs)
        /\ vs[Len(Pieces)] = CallString(call_type, Bound, Last(param))
        /\ value = vs[written]
  BY <1>1 DEF WrittenSoFar
<1>7. written + 1 \in 1..Len(Pieces) /\ (written + 1) - 1 = written
  BY <1>1, <1>2
<1>8. value' = vs[written + 1]
  BY <1>3, <1>6, <1>7 DEF Binds
<1>9. WrittenSoFar'
  BY <1>3, <1>5, <1>6, <1>8 DEF WrittenSoFar
<1>10. \/ progress' = "write" /\ written' \in 0..(Len(Pieces) - 1)
       \/ progress' = "passed" /\ written' = Len(Pieces)
  BY <1>1, <1>2, <1>3, <1>4
<1> QED
  BY <1>5, <1>9, <1>10 DEF ConversionInv

\* Nothing is written.
LEMMA ConversionInvUnchanged ==
  ASSUME ConversionInv, UNCHANGED conversion_vars
  PROVE  ConversionInv'
<1>1. Chosen /\ UNCHANGED <<param, origin, call_type, value, written, progress>>
  BY DEF ConversionInv, conversion_vars
<1>2. Chosen' /\ Pieces' = Pieces /\ Bound' = Bound
  BY <1>1, ChosenStays
<1>3. WrittenSoFar => WrittenSoFar'
  BY <1>1, <1>2 DEF WrittenSoFar
<1> QED
  BY <1>1, <1>2, <1>3 DEF ConversionInv

\* The statements of an argument are written in order, from the variable that the
\* body binds, each a piece of the call type that was chosen for the parameter.
THEOREM ConversionInvariant == ConversionSpec => []ConversionInv
<1>1. ConversionInv /\ [ConversionNext]_conversion_vars => ConversionInv'
  BY ConversionInvBind, ConversionInvWrite, ConversionInvUnchanged DEF ConversionNext, Passed
<1> QED
  BY <1>1, ConversionInvInit, PTL DEF ConversionSpec

\* For all types: the statements that _split_at_unwrap_call_type makes of a call type
\* make the value that _to_call_string of the whole call type would.
THEOREM SplitKeepsMeaningHolds == ConversionSpec => []SplitKeepsMeaning
<1>1. ConversionInv => SplitKeepsMeaning
  BY DEF ConversionInv, WrittenSoFar, SplitKeepsMeaning
<1> QED
  BY <1>1, ConversionInvariant, PTL

\* At most one reduction: a set of at most one element has no two.
LEMMA AtMostOne ==
  ASSUME NEW ct \in Calling, Cardinality(Reductions(ct)) <= 1
  PROVE  \A i, j \in Reductions(ct) : i = j
<1> DEFINE S == Reductions(ct)
<1>1. S \subseteq 1..Len(ct) /\ Len(ct) \in Nat
  BY CallShape DEF Reductions
<1>2. IsFiniteSet(1..Len(ct))
  BY <1>1, FS_Interval
<1>3. IsFiniteSet(S)
  BY <1>1, <1>2, FS_Subset
<1> HIDE DEF S
<1>4. ASSUME NEW i \in S, NEW j \in S, i # j PROVE FALSE
  <2>1. IsFiniteSet({i, j}) /\ {i, j} \subseteq S
    BY <1>3, FS_Subset
  <2>2. Cardinality({i, j}) = 2
    <3>1. IsFiniteSet({i}) /\ Cardinality({i}) = 1
      BY FS_Singleton
    <3>2. Cardinality({i} \cup {j}) = Cardinality({i}) + 1
      BY <1>4, <3>1, FS_AddElement
    <3>3. {i} \cup {j} = {i, j}
      OBVIOUS
    <3> QED
      BY <3>1, <3>2, <3>3
  <2>3. Cardinality({i, j}) <= Cardinality(S) /\ Cardinality(S) \in Nat
    BY <1>3, <2>1, FS_Subset, FS_CardinalityType
  <2>4. Cardinality(S) <= 1
    BY DEF S
  <2> QED
    BY <2>2, <2>3, <2>4
<1> QED
  BY <1>4 DEF S

\* For all types of parameters and results: with the call type that
\* _same_type_hard_mode or generate_fuzzable_type_and_call_type found, the argument
\* has the type of its parameter, when the call type takes off at most one thing.
THEOREM ArgumentHasParamTypeHolds == ConversionSpec => []ArgumentHasParamType
<1>1. ConversionInv => ArgumentHasParamType
  <2> SUFFICES ASSUME ConversionInv, progress = "passed",
                      Cardinality(Reductions(call_type)) <= 1,
                      \A k \in DOMAIN call_type : call_type[k] # "MutRawPointer",
                      origin = <<>> => ~ConvertedElements(param)
               PROVE  value = param
    BY DEF ArgumentHasParamType
  <2>1. Chosen /\ param \in Types /\ call_type # NotCompatible
    BY DEF ConversionInv, Chosen
  <2>2. value = CallString(call_type, Bound, Last(param))
    BY DEF ConversionInv, WrittenSoFar
  <2>3. call_type \in Calling
    BY <2>1, ChosenFacts
  <2>4. Plain(call_type) /\ NoMutPointer(call_type)
    BY <2>3, AtMostOne DEF Plain, NoMutPointer
  <2>5. CASE origin = <<>>
    <3>1. <<>> \notin Types
      BY TypeShape
    <3>2. IsFuzzableType(param) /\ call_type = GenerateFuzzableTypeAndCallType(param).call_type
      BY <2>1, <2>5, <3>1 DEF Chosen
    <3>3. DecodedAs(param, GenerateFuzzableTypeAndCallType(param))
      BY <2>1, <3>2, DecodedMakes
    <3> QED
      BY <2>2, <2>4, <2>5, <3>2, <3>3 DEF DecodedAs, Bound
  <2>6. CASE origin # <<>>
    <3>1. origin \in Types /\ call_type = SameType(FinalType(origin), param)
      BY <2>1, <2>6 DEF Chosen
    <3>2. FinalType(origin) \in Types
      BY <3>1, FinalTypeType
    <3>3. CallString(call_type, FinalType(origin), Last(param)) = param
      BY <2>1, <2>3, <2>4, <3>1, <3>2, SameTypeMakes
    <3> QED
      BY <2>2, <2>6, <3>3 DEF Bound
  <2> QED
    BY <2>5, <2>6
<1> QED
  BY <1>1, ConversionInvariant, PTL
=============================================================================
