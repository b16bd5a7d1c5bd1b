---------------------------- MODULE FileUtilProofs ----------------------------
(***************************************************************************)
(* Proofs about FileUtil: whatever was generated, however often the        *)
(* program was run and wherever it panicked, test and replay programs fit  *)
(* together and a finished run has written all of them.                    *)
(*                                                                         *)
(* PairsMatch says nothing about a step that adds a program to one of the  *)
(* directories.  IInv adds what write_files has achieved at each of its    *)
(* points: which directory is empty and how far the other one is written.  *)
(*                                                                         *)
(* EveryTargetHasATest needs besides that the ranks of n names are         *)
(* 0..n - 1, so that sorting loses and doubles none of them.               *)
(***************************************************************************)
EXTENDS FileUtil, FiniteSetTheorems, TLAPS

\* The first n programs, and the next one as far as it is written.
Partly(targets, r, n, part) ==
  Whole(targets, r, n) \cup {File(n, targets[n + 1], r, part)}

\* PairsMatch, of any two sets of files.
Matching(tests, replays) ==
  \A t \in tests, f \in replays :
    t.number = f.number => t.target = f.target /\ t.run = f.run /\ t.part = "whole"

Tests == files["afl_files"]
Replays == files["replay_files"]

\* No file is where there is no directory.
DiskInv ==
  /\ DOMAIN files = Dirs
  /\ DOMAIN kind = Dirs
  /\ \A d \in Dirs : kind[d] # "dir" => files[d] = {}

\* How far the writing has come.
WriteInv ==
  /\ count \in Nat
  /\ pc = "replay_files" => kind["afl_files"] = "dir" /\ Tests = {}
  /\ pc \in {"test", "test_opened", "replay", "replay_opened", "done"} =>
       \A d \in Dirs : kind[d] = "dir"
  /\ pc = "test" => Replays = {} /\ Tests = Whole(test_files, run, count)
  /\ pc = "test_opened" => Replays = {} /\ Tests = Partly(test_files, run, count, "empty")
  /\ pc \in {"replay", "replay_opened", "done"} =>
       Len(test_files) \in Nat /\ Tests = Whole(test_files, run, Len(test_files))
  /\ pc = "replay" => Replays = Whole(test_files, run, count)
  /\ pc = "replay_opened" => Replays = Partly(test_files, run, count, "empty")
  /\ pc = "done" => Replays = Whole(test_files, run, Len(test_files))

IInv == DiskInv /\ WriteInv /\ PairsMatch

-----------------------------------------------------------------------------
\* Nothing is written at first,
LEMMA WholeNone ==
  ASSUME NEW targets, NEW r
  PROVE  Whole(targets, r, 0) = {}
  BY DEF Whole

\* and one program more after each file.
LEMMA WholeMore ==
  ASSUME NEW targets, NEW r, NEW n \in Nat
  PROVE  (Partly(targets, r, n, "empty") \ {File(n, targets[n + 1], r, "empty")})
           \cup {File(n, targets[n + 1], r, "whole")} = Whole(targets, r, n + 1)
<1>1. \A f \in Whole(targets, r, n) : f # File(n, targets[n + 1], r, "empty")
  BY DEF Whole, File
<1>2. Partly(targets, r, n, "empty") \ {File(n, targets[n + 1], r, "empty")} = Whole(targets, r, n)
  BY <1>1 DEF Partly
<1>3. ASSUME NEW f
      PROVE  f \in Whole(targets, r, n + 1)
               <=> f \in Whole(targets, r, n) \/ f = File(n, targets[n + 1], r, "whole")
  <2>1. ASSUME NEW m \in 1..(n + 1), f = File(m - 1, targets[m], r, "whole")
        PROVE  f \in Whole(targets, r, n) \/ f = File(n, targets[n + 1], r, "whole")
    <3>1. CASE m \in 1..n
      BY <2>1, <3>1 DEF Whole
    <3>2. CASE m = n + 1
      <4>1. m - 1 = n
        BY <3>2
      <4> QED
        BY <2>1, <3>2, <4>1
    <3> QED
      BY <3>1, <3>2
  <2>2. ASSUME NEW m \in 1..n, f = File(m - 1, targets[m], r, "whole")
        PROVE  f \in Whole(targets, r, n + 1)
    <3>1. m \in 1..(n + 1)
      OBVIOUS
    <3> QED
      BY <2>2, <3>1 DEF Whole
  <2>3. File(n, targets[n + 1], r, "whole") \in Whole(targets, r, n + 1)
    <3>1. n + 1 \in 1..(n + 1) /\ (n + 1) - 1 = n
      OBVIOUS
    <3> QED
      BY <3>1, Zenon DEF Whole
  <2> QED
    BY <2>1, <2>2, <2>3 DEF Whole
<1> QED
  BY <1>2, <1>3

\* The files of one number in two directories that are written, the first one
\* wholly, are for the same target.
LEMMA WrittenMatch ==
  ASSUME NEW targets, NEW r, NEW n \in Nat, NEW k \in Nat, NEW part
  PROVE  Matching(Whole(targets, r, n), Partly(targets, r, k, part))
<1> SUFFICES ASSUME NEW t \in Whole(targets, r, n), NEW f \in Partly(targets, r, k, part),
                    t.number = f.number
             PROVE  t.target = f.target /\ t.run = f.run /\ t.part = "whole"
  BY DEF Matching
<1>1. PICK m \in 1..n : t = File(m - 1, targets[m], r, "whole")
  BY DEF Whole
<1>2. PICK i \in 1..(k + 1) :
        f.number = i - 1 /\ f.target = targets[i] /\ f.run = r
  <2>1. CASE f \in Whole(targets, r, k)
    BY <2>1 DEF Whole, File
  <2>2. CASE f = File(k, targets[k + 1], r, part)
    BY <2>2 DEF File
  <2> QED
    BY <2>1, <2>2 DEF Partly
<1>3. t.number = m - 1 /\ t.target = targets[m] /\ t.run = r /\ t.part = "whole"
  BY <1>1 DEF File
<1>4. m = i
  BY <1>2, <1>3
<1> QED
  BY <1>2, <1>3, <1>4

-----------------------------------------------------------------------------
\* Whatever is on the disk before the first run, no file of ours is.
LEMMA Initially == Init => IInv
  BY DEF Init, IInv, DiskInv, WriteInv, PairsMatch, Dirs, Tests, Replays

\* Each step keeps the invariant.
LEMMA Invariance == IInv /\ [Next]_vars => IInv'
<1> SUFFICES ASSUME IInv, [Next]_vars PROVE IInv'
  OBVIOUS
<1> USE DEF Tests, Replays
<1>1. CASE Generate
  BY <1>1 DEF IInv, DiskInv, WriteInv, PairsMatch, Generate
<1>2. CASE RemoveTestPath
  BY <1>2 DEF IInv, DiskInv, WriteInv, PairsMatch, RemoveTestPath
<1>3. ASSUME NEW d \in Dirs, RemoveFile(d) PROVE IInv'
  BY <1>3 DEF IInv, DiskInv, WriteInv, PairsMatch, RemoveFile, Dirs
<1>4. ASSUME NEW d \in Dirs, RemoveEntry(d) PROVE IInv'
  BY <1>4 DEF IInv, DiskInv, WriteInv, PairsMatch, RemoveEntry, Dirs
<1>5. ASSUME NEW d \in Dirs, RemoveDir(d) PROVE IInv'
  BY <1>5 DEF IInv, DiskInv, WriteInv, PairsMatch, RemoveDir, Dirs
<1>6. ASSUME NEW d \in Dirs, CreateDir(d) PROVE IInv'
  <2>1. files' = files /\ count' = 0 /\ files[d] = {}
    BY <1>6 DEF IInv, DiskInv, CreateDir
  <2>2. Whole(test_files', run', count') = {}
    BY <2>1, WholeNone
  <2>3. DiskInv' /\ PairsMatch'
    BY <1>6, <2>1 DEF IInv, DiskInv, PairsMatch, CreateDir, Dirs
  <2>4. CASE d = "afl_files"
    <3>1. pc' = "replay_files"
      BY <1>6, <2>4 DEF CreateDir, After
    <3>2. WriteInv'
      BY <1>6, <2>1, <2>4, <3>1 DEF IInv, DiskInv, WriteInv, CreateDir, Dirs
    <3> QED
      BY <2>3, <3>2 DEF IInv
  <2>5. CASE d = "replay_files"
    <3>1. pc' = "test"
      BY <1>6, <2>5 DEF CreateDir, After
    <3>2. pc = "replay_files" /\ Tests = {} /\ kind["afl_files"] = "dir"
      BY <1>6, <2>5 DEF IInv, WriteInv, CreateDir
    <3>3. Tests' = {} /\ Replays' = {}
      BY <2>1, <2>5, <3>2
    <3>4. \A e \in Dirs : kind'[e] = "dir"
      BY <1>6, <2>5, <3>2 DEF IInv, DiskInv, CreateDir, Dirs
    <3>5. WriteInv'
      BY <2>1, <2>2, <3>1, <3>3, <3>4 DEF WriteInv
    <3> QED
      BY <2>3, <3>5 DEF IInv
  <2> QED
    BY <2>4, <2>5 DEF Dirs
<1>7. CASE Create("test")
  BY <1>7 DEF IInv, DiskInv, WriteInv, PairsMatch, Create, Dirs, DirOf, Opened, Partly, Current
<1>8. CASE Create("replay")
  <2>1. Replays' = Partly(test_files, run, count, "empty") /\ Tests' = Tests
    BY <1>8 DEF IInv, DiskInv, WriteInv, Create, Dirs, DirOf, Partly, Current
  <2>2. PairsMatch'
    <3>1. count \in Nat /\ Len(test_files) \in Nat /\ Tests' = Whole(test_files, run, Len(test_files))
      BY <1>8, <2>1 DEF IInv, WriteInv, Create, Opened
    <3>2. Matching(Tests', Partly(test_files, run, count, "empty"))
      BY <3>1, WrittenMatch
    <3> QED
      BY <2>1, <3>2 DEF PairsMatch, Matching, Partly
  <2> QED
    BY <1>8, <2>1, <2>2 DEF IInv, DiskInv, WriteInv, Create, Dirs, Opened
<1>9. CASE WriteAll("test")
  <2>1. Tests' = Whole(test_files, run, count + 1) /\ Replays' = {}
    BY <1>9, WholeMore DEF IInv, DiskInv, WriteInv, WriteAll, Dirs, DirOf, Opened, Current
  <2>2. DiskInv' /\ PairsMatch'
    BY <1>9, <2>1 DEF IInv, DiskInv, WriteInv, PairsMatch, WriteAll, Dirs, DirOf, Opened
  <2>3. WriteInv'
    BY <1>9, <2>1 DEF IInv, WriteInv, WriteAll, Opened
  <2> QED
    BY <2>2, <2>3 DEF IInv
<1>10. CASE WriteAll("replay")
  <2>1. Replays' = Whole(test_files, run, count + 1) /\ Tests' = Tests
    BY <1>10, WholeMore DEF IInv, DiskInv, WriteInv, WriteAll, Dirs, DirOf, Opened, Current
  <2>2. PairsMatch'
    <3>1. count \in Nat /\ Len(test_files) \in Nat /\ Tests' = Whole(test_files, run, Len(test_files))
      BY <1>10, <2>1 DEF IInv, WriteInv, WriteAll, Opened
    <3>2. Matching(Tests', Partly(test_files, run, count + 1, "empty"))
      BY <3>1, WrittenMatch
    <3> QED
      BY <2>1, <3>2 DEF PairsMatch, Matching, Partly
  <2>3. DiskInv'
    BY <1>10, <2>1 DEF IInv, DiskInv, WriteInv, WriteAll, Dirs, DirOf, Opened
  <2>4. WriteInv'
    BY <1>10, <2>1 DEF IInv, WriteInv, WriteAll, Opened
  <2> QED
    BY <2>2, <2>3, <2>4 DEF IInv
<1>11. CASE EndOfFiles("test")
  <2>1. Whole(test_files', run', count') = {}
    BY <1>11, WholeNone DEF EndOfFiles
  <2> QED
    BY <1>11, <2>1 DEF IInv, DiskInv, WriteInv, PairsMatch, EndOfFiles, After
<1>12. CASE EndOfFiles("replay")
  BY <1>12 DEF IInv, DiskInv, WriteInv, PairsMatch, EndOfFiles, After
<1>13. CASE Panic
  BY <1>13 DEF IInv, DiskInv, WriteInv, PairsMatch, Panic
<1>14. CASE PanicTorn("test")
  BY <1>14 DEF IInv, DiskInv, WriteInv, PairsMatch, PanicTorn, Dirs, DirOf, Opened
<1>15. CASE PanicTorn("replay")
  <2>1. Replays' \subseteq Partly(test_files, run, count, "torn") /\ Tests' = Tests
    BY <1>15 DEF IInv, DiskInv, WriteInv, PanicTorn, Dirs, DirOf, Opened, Current, Partly
  <2>2. PairsMatch'
    <3>1. count \in Nat /\ Len(test_files) \in Nat /\ Tests' = Whole(test_files, run, Len(test_files))
      BY <1>15, <2>1 DEF IInv, WriteInv, PanicTorn, Opened
    <3>2. Matching(Tests', Partly(test_files, run, count, "torn"))
      BY <3>1, WrittenMatch
    <3> QED
      BY <2>1, <3>2 DEF PairsMatch, Matching, Partly
  <2> QED
    BY <1>15, <2>1, <2>2 DEF IInv, DiskInv, WriteInv, PanicTorn, Dirs, DirOf, Opened
<1>16. CASE Rerun
  BY <1>16 DEF IInv, DiskInv, WriteInv, PairsMatch, Rerun
<1>17. CASE UNCHANGED vars
  BY <1>17 DEF IInv, DiskInv, WriteInv, PairsMatch, vars
<1> QED
  BY <1>1, <1>2, <1>3, <1>4, <1>5, <1>6, <1>7, <1>8, <1>9, <1>10, <1>11, <1>12, <1>13,
     <1>14, <1>15, <1>16, <1>17 DEF Next, Work, Terminating

-----------------------------------------------------------------------------
\* For every set of targets, every bound and any number of panicked runs: a test
\* and a replay program of the same number are for the same sequence.
THEOREM PairsAlwaysMatch == Spec => []PairsMatch
  BY Initially, Invariance, PTL DEF Spec, IInv

\* For every set of targets, every bound and any number of panicked runs: a run
\* that finishes has written all of its programs and left no other file.
THEOREM FinishedRunsAreComplete == Spec => []FinishedIsComplete
<1>1. IInv => FinishedIsComplete
  BY DEF IInv, WriteInv, FinishedIsComplete, Dirs, Tests, Replays
<1> QED
  BY <1>1, Initially, Invariance, PTL DEF Spec

-----------------------------------------------------------------------------
(* From the generated sequences to the tests *)

\* The targets a run writes are those of the sequences it generated.
TargetsInv ==
  pc \notin {"start", "panicked"} =>
    api_sequences \in Generated /\ test_files = NewFileHelper(api_sequences)

\* Each name is that of one of the first targets.
OneEach(names, targets, size) ==
  \A name \in names :
    \E m \in 1..size : \A k \in 1..size : targets[k].name = name <=> k = m

\* Of two names the greater one has the greater rank, and ranks stay below the
\* number of names.
LEMMA RankMonotone ==
  ASSUME NEW names \in SUBSET Nat, IsFiniteSet(names), NEW b \in names
  PROVE  /\ Rank(names, b) \in Nat
         /\ Rank(names, b) < Cardinality(names)
         /\ \A a \in names : a < b => Rank(names, a) < Rank(names, b)
<1> DEFINE Below(a) == {other \in names : other < a}
<1>1. ASSUME NEW a \in names
      PROVE  IsFiniteSet(Below(a)) /\ Cardinality(Below(a)) \in Nat /\ a \notin Below(a)
  BY FS_Subset, FS_CardinalityType
<1>2. Cardinality(Below(b)) < Cardinality(names)
  <2>1. Below(b) \in SUBSET names /\ Below(b) # names /\ Cardinality(names) \in Nat
    BY <1>1, FS_CardinalityType
  <2> HIDE DEF Below
  <2> QED
    BY <1>1, <2>1, FS_Subset
<1>3. ASSUME NEW a \in names, a < b PROVE Cardinality(Below(a)) < Cardinality(Below(b))
  <2>1. a \in Below(b)
    BY <1>3
  <2>2. Below(a) \in SUBSET Below(b)
    <3>1. \A other \in names : other \in Nat /\ (other < a => other < b)
      BY <1>3
    <3> QED
      BY <3>1
  <2>3. Below(a) # Below(b)
    BY <1>1, <2>1
  <2> HIDE DEF Below
  <2> QED
    BY <1>1, <2>2, <2>3, FS_Subset
<1> QED
  BY <1>1, <1>2, <1>3 DEF Rank

\* So every place in the order is taken by one name.
LEMMA EveryRankTaken ==
  ASSUME NEW names \in SUBSET Nat, IsFiniteSet(names), NEW n \in 1..Cardinality(names)
  PROVE  \E name \in names : Rank(names, name) = n - 1
<1> DEFINE size == Cardinality(names)
           f == [name \in names |-> Rank(names, name) + 1]
<1>1. size \in Nat
  BY FS_CardinalityType
<1>2. \A name \in names : Rank(names, name) \in Nat /\ Rank(names, name) < size
  BY RankMonotone
<1>3. f \in [names -> 1..size]
  BY <1>1, <1>2
<1>4. ASSUME NEW a \in names, NEW b \in names, f[a] = f[b] PROVE a = b
  <2>1. a \in Nat /\ b \in Nat /\ Rank(names, a) = Rank(names, b)
    BY <1>2, <1>4
  <2>2. ~(a < b) /\ ~(b < a)
    BY <1>2, <2>1, RankMonotone
  <2> QED
    BY <2>1, <2>2
<1>5. f \in Injection(names, 1..size)
  BY <1>3, <1>4 DEF Injection, IsInjective
<1>6. IsFiniteSet(1..size) /\ Cardinality(1..size) = size
  BY <1>1, FS_Interval
<1>7. f \in Surjection(names, 1..size)
  BY <1>5, <1>6, FS_Injection
<1>8. PICK name \in names : f[name] = n
  BY <1>7 DEF Surjection
<1> QED
  BY <1>2, <1>8

\* The greatest of some numbers, the one with the highest rank.
LEMMA Greatest ==
  ASSUME NEW S \in SUBSET Nat, IsFiniteSet(S), S # {}
  PROVE  Max(S) \in S /\ \A y \in S : y <= Max(S)
<1>1. Cardinality(S) \in Nat /\ Cardinality(S) # 0
  BY FS_CardinalityType, FS_EmptySet
<1>2. Cardinality(S) \in 1..Cardinality(S)
  BY <1>1
<1>3. PICK x \in S : Rank(S, x) = Cardinality(S) - 1
  BY <1>2, EveryRankTaken
<1>4. ASSUME NEW y \in S PROVE x >= y
  <2>1. ~(x < y)
    <3>1. Rank(S, y) \in Nat /\ Rank(S, y) < Cardinality(S)
          /\ (x < y => Rank(S, x) < Rank(S, y))
      BY RankMonotone
    <3> QED
      BY <1>1, <1>3, <3>1
  <2> QED
    BY <2>1
<1>5. Max(S) \in S /\ \A y \in S : Max(S) >= y
  BY <1>4 DEF Max
<1> QED
  BY <1>5

\* As many sequences are generated as may be chosen, so those that read input
\* all are.
LEMMA AllChosen ==
  ASSUME NEW sequences \in Generated
  PROVE  FirstChoose(sequences) = {i \in 1..MaxNum : sequences[i].fuzzables}
<1> DEFINE P == {i \in DOMAIN sequences : sequences[i].fuzzables /\ sequences[i].len >= MaxLen}
<1>1. DOMAIN sequences = 1..MaxNum /\ \A i \in 1..MaxNum : sequences[i].len = MaxLen
  BY DEF Generated
<1>2. MaxNum \in Nat /\ MaxLen \in Nat
  BY FileUtilAssumption
<1>3. P = {i \in 1..MaxNum : sequences[i].fuzzables}
  BY <1>1, <1>2
<1>4. MaxNum <= Max({1, MaxNum}) /\ Max({1, MaxNum}) \in Nat
  <2>1. {1, MaxNum} \in SUBSET Nat /\ IsFiniteSet({1, MaxNum}) /\ {1, MaxNum} # {}
    <3>1. IsFiniteSet({1} \cup {MaxNum}) /\ {1} \cup {MaxNum} = {1, MaxNum}
      BY FS_Singleton, FS_AddElement
    <3> QED
      BY <1>2, <3>1
  <2>2. Max({1, MaxNum}) \in {1, MaxNum} /\ \A y \in {1, MaxNum} : y <= Max({1, MaxNum})
    BY <2>1, Greatest
  <2> QED
    BY <1>2, <2>2
<1>5. ASSUME NEW i \in P PROVE Cardinality({j \in P : j < i}) < Max({1, MaxNum})
  <2>1. i \in 1..MaxNum /\ {j \in P : j < i} \in SUBSET (1..(i - 1))
    BY <1>2, <1>3
  <2>2. IsFiniteSet(1..(i - 1)) /\ Cardinality(1..(i - 1)) = i - 1
    BY <1>2, <2>1, FS_Interval
  <2>3. /\ Cardinality({j \in P : j < i}) <= i - 1
        /\ Cardinality({j \in P : j < i}) \in Nat
    BY <2>1, <2>2, FS_Subset, FS_CardinalityType
  <2> QED
    BY <1>2, <1>4, <2>1, <2>3
<1>6. FirstChoose(sequences) = FirstOf(P)
  BY DEF FirstChoose
<1>7. FirstOf(P) = P
  BY <1>5 DEF FirstOf
<1> QED
  BY <1>3, <1>6, <1>7

\* The names of some of the sequences are finitely many numbers.
LEMMA NamesFinite ==
  ASSUME NEW sequences \in Generated, NEW chosen \in SUBSET (1..MaxNum)
  PROVE  /\ Names(sequences, chosen) \in SUBSET Nat
         /\ IsFiniteSet(chosen)
         /\ IsFiniteSet(Names(sequences, chosen))
<1>1. IsFiniteSet(chosen)
  <2>1. 1 \in Int /\ MaxNum \in Int
    BY FileUtilAssumption
  <2>2. IsFiniteSet(1..MaxNum)
    BY <2>1, FS_Interval
  <2> QED
    BY <2>2, FS_Subset
<1>2. \A i \in 1..MaxNum : sequences[i] \in Targets
  BY DEF Generated
<1>3. Names(sequences, chosen) \in SUBSET Nat
  BY <1>2, FileUtilAssumption DEF Names
<1> DEFINE f == [i \in chosen |-> sequences[i].name]
<1>4. f \in Surjection(chosen, Names(sequences, chosen))
  BY DEF Surjection, Names
<1> QED
  BY <1>1, <1>3, <1>4, FS_Surjection

\* Of those that print alike, the one that stays has their name.
LEMMA LastHasName ==
  ASSUME NEW sequences \in Generated, NEW chosen \in SUBSET (1..MaxNum),
         NEW name \in Names(sequences, chosen)
  PROVE  LastNamed(sequences, chosen, name).name = name
<1> DEFINE S == {i \in chosen : sequences[i].name = name}
<1>1. S \in SUBSET Nat /\ S # {}
  <2>1. \A i \in 1..MaxNum : i \in Nat
    BY FileUtilAssumption
  <2>2. \E i \in chosen : name = sequences[i].name
    BY DEF Names
  <2> QED
    BY <2>1, <2>2
<1>2. IsFiniteSet(S)
  BY NamesFinite, FS_Subset
<1>3. Max(S) \in S
  BY <1>1, <1>2, Greatest
<1> QED
  BY <1>3 DEF LastNamed

\* Each name comes once in what is left of the chosen sequences.
LEMMA EachNameOnce ==
  ASSUME NEW sequences \in Generated, NEW chosen \in SUBSET (1..MaxNum),
         NEW names, names = Names(sequences, chosen)
  PROVE  /\ Cardinality(names) \in Nat
         /\ DOMAIN Deduplicated(sequences, chosen) = 1..Cardinality(names)
         /\ Len(Deduplicated(sequences, chosen)) = Cardinality(names)
         /\ OneEach(names, Deduplicated(sequences, chosen), Cardinality(names))
<1> DEFINE size == Cardinality(names)
           At(k) == CHOOSE name \in names : Rank(names, name) = k - 1
           unique == [k \in 1..size |-> LastNamed(sequences, chosen, At(k))]
<1>1. names \in SUBSET Nat /\ IsFiniteSet(names) /\ size \in Nat
  BY NamesFinite, FS_CardinalityType
<1>2. Deduplicated(sequences, chosen) = unique
  BY DEF Deduplicated
<1>3. ASSUME NEW k \in 1..size PROVE At(k) \in names /\ Rank(names, At(k)) = k - 1
  BY <1>1, EveryRankTaken
<1> HIDE DEF At
<1>4. ASSUME NEW k \in 1..size PROVE unique[k].name = At(k)
  BY <1>3, LastHasName
<1>5. ASSUME NEW name \in names
      PROVE  \E m \in 1..size : \A k \in 1..size : unique[k].name = name <=> k = m
  <2> DEFINE m == Rank(names, name) + 1
  <2>1. Rank(names, name) \in Nat /\ m \in 1..size
    BY <1>1, RankMonotone
  <2>2. ASSUME NEW k \in 1..size PROVE At(k) = name <=> k = m
    <3>1. CASE At(k) = name
      BY <1>3, <2>1, <3>1
    <3>2. CASE k = m
      <4>1. At(k) \in names /\ Rank(names, At(k)) = Rank(names, name)
        BY <1>3, <2>1, <3>2
      <4>2. ~(At(k) < name) /\ ~(name < At(k))
        BY <1>1, <2>1, <4>1, RankMonotone
      <4>3. At(k) \in Nat /\ name \in Nat
        BY <1>1, <4>1
      <4>4. At(k) = name
        BY <4>2, <4>3
      <4> QED
        BY <3>2, <4>4
    <3> QED
      BY <3>1, <3>2
  <2> QED
    BY <1>4, <2>1, <2>2
<1>6. DOMAIN unique = 1..size /\ Len(unique) = size
  BY <1>1
<1> QED
  BY <1>1, <1>2, <1>5, <1>6 DEF OneEach

\* Every name has one target, when there is room for all.
LEMMA EachNameOneTarget ==
  ASSUME NEW sequences \in Generated,
         NEW names, names = {s.name : s \in {t \in Range(sequences) : t.fuzzables}},
         Cardinality(names) <= MaxTestFileNumber
  PROVE  OneEach(names, NewFileHelper(sequences), Len(NewFileHelper(sequences)))
<1> DEFINE chosen == {i \in 1..MaxNum : sequences[i].fuzzables}
           unique == Deduplicated(sequences, chosen)
           size == Cardinality(names)
<1>1. FirstChoose(sequences) = chosen /\ chosen \in SUBSET (1..MaxNum)
  BY AllChosen
<1>2. names = Names(sequences, chosen)
  <2>1. DOMAIN sequences = 1..MaxNum
    BY DEF Generated
  <2> QED
    BY <2>1 DEF Names, Range
<1> HIDE DEF chosen
<1>3. /\ size \in Nat /\ DOMAIN unique = 1..size /\ Len(unique) = size
      /\ OneEach(names, unique, size)
  BY <1>1, <1>2, EachNameOnce
<1>4. Min({size, MaxTestFileNumber}) = size
  BY <1>3, FileUtilAssumption DEF Min
<1>5. NewFileHelper(sequences) = SubSeq(unique, 1, size)
  BY <1>1, <1>3, <1>4 DEF NewFileHelper
<1> HIDE DEF unique, size
<1>6. SubSeq(unique, 1, size) = [k \in 1..size |-> unique[k]]
  BY <1>3
<1>7. Len(NewFileHelper(sequences)) = size
  BY <1>3, <1>5, <1>6
<1>8. \A k \in 1..size : NewFileHelper(sequences)[k] = unique[k]
  BY <1>5, <1>6
<1> SUFFICES ASSUME NEW name \in names
             PROVE  \E m \in 1..size :
                      \A k \in 1..size : NewFileHelper(sequences)[k].name = name <=> k = m
  BY <1>7 DEF OneEach
<1>9. PICK m \in 1..size : \A k \in 1..size : unique[k].name = name <=> k = m
  BY <1>3 DEF OneEach
<1> WITNESS m \in 1..size
<1> QED
  BY <1>8, <1>9

\* No step changes the targets of a run.
LEMMA TargetsKept == TargetsInv /\ [Next]_vars => TargetsInv'
<1> SUFFICES ASSUME TargetsInv, [Next]_vars PROVE TargetsInv'
  OBVIOUS
<1>1. CASE Generate
  BY <1>1 DEF TargetsInv, Generate
<1>2. CASE Rerun
  BY <1>2 DEF TargetsInv, Rerun
<1>3. CASE UNCHANGED vars
  BY <1>3 DEF TargetsInv, vars
<1>4. ASSUME UNCHANGED <<api_sequences, test_files>>,
             pc \notin {"start", "panicked"} \/ pc' = "panicked"
      PROVE  TargetsInv'
  BY <1>4 DEF TargetsInv
<1>5. CASE RemoveTestPath \/ Panic \/ \E step \in {"test", "replay"} : PanicTorn(step)
  BY <1>4, <1>5 DEF RemoveTestPath, Panic, PanicTorn
<1>6. ASSUME NEW d \in Dirs, RemoveFile(d) \/ RemoveEntry(d) \/ RemoveDir(d) \/ CreateDir(d)
      PROVE  TargetsInv'
  BY <1>4, <1>6 DEF RemoveFile, RemoveEntry, RemoveDir, CreateDir, Dirs
<1>7. ASSUME NEW step \in {"test", "replay"}, Create(step) \/ WriteAll(step) \/ EndOfFiles(step)
      PROVE  TargetsInv'
  BY <1>4, <1>7 DEF Create, WriteAll, EndOfFiles, Opened
<1> QED
  BY <1>1, <1>2, <1>3, <1>5, <1>6, <1>7 DEF Next, Work, Terminating

\* For every set of targets, every bound and any number of panicked runs: a run
\* that finishes leaves one test for each sequence that reads input, of those
\* that print alike one in all, if MAX_TEST_FILE_NUMBER allows it.
THEOREM NoTargetIsLost == Spec => []EveryTargetHasATest
<1>1. Init => TargetsInv
  BY DEF Init, TargetsInv
<1>2. IInv /\ TargetsInv => EveryTargetHasATest
  <2> DEFINE names == {s.name : s \in {t \in Range(api_sequences) : t.fuzzables}}
  <2> SUFFICES ASSUME IInv, TargetsInv, pc = "done",
                      Cardinality(names) <= MaxTestFileNumber, NEW name \in names
               PROVE  Cardinality({f \in Tests : f.target.name = name}) = 1
    BY DEF EveryTargetHasATest, Tests
  <2>1. api_sequences \in Generated /\ test_files = NewFileHelper(api_sequences)
    BY DEF TargetsInv
  <2>2. PICK m \in 1..Len(test_files) :
          \A k \in 1..Len(test_files) : test_files[k].name = name <=> k = m
    <3>1. names = {s.name : s \in {t \in Range(api_sequences) : t.fuzzables}}
      OBVIOUS
    <3> HIDE DEF names
    <3>2. OneEach(names, test_files, Len(test_files))
      BY <2>1, <3>1, EachNameOneTarget
    <3> QED
      BY <3>2 DEF OneEach
  <2>3. Tests = Whole(test_files, run, Len(test_files))
    BY DEF IInv, WriteInv
  <2>4. {f \in Tests : f.target.name = name} = {File(m - 1, test_files[m], run, "whole")}
    BY <2>2, <2>3 DEF Whole, File
  <2> QED
    BY <2>4, FS_Singleton
<1> QED
  BY <1>1, <1>2, Initially, Invariance, TargetsKept, PTL DEF Spec

=============================================================================
