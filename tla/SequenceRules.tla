----------------------------- MODULE SequenceRules -----------------------------
(***************************************************************************)
(* The rules for the call sequences that is_fun_satisfied (api_graph.rs)   *)
(* builds and _merge_another_sequence (api_sequence.rs) puts together: who *)
(* may use which result and which variable, and until when.                *)
(***************************************************************************)
EXTENDS ApiSequence

(* The arguments of a sequence, in the order they are evaluated in. *)

Args(s, c) == DOMAIN s.functions[c].params
Arg(s, c, p) == s.functions[c].params[p]
ArgType(s, c, p) == api_functions[s.functions[c].func].inputs[p]

\* Argument p of call c is made from the result of call j.
UsesResult(s, c, p, j) ==
  Arg(s, c, p).kind = "FunctionReturn" /\ Arg(s, c, p).index = j

\* Argument p of call c is variable n.
UsesVariable(s, c, p, n) ==
  Arg(s, c, p).kind = "FuzzableType" /\ Arg(s, c, p).index = n

Before(c, p, d, q) == c < d \/ (c = d /\ p < q)

MovesAt(s, c, p) == MoveCondition(ArgType(s, c, p), Arg(s, c, p).call_type)

MutBorrowsAt(s, c, p) ==
  IsMutableBorrowOccurs(ArgType(s, c, p), Arg(s, c, p).call_type)

ImmutBorrowsAt(s, c, p) ==
  /\ ~MovesAt(s, c, p)
  /\ IsImmutableBorrowOccurs(ArgType(s, c, p), Arg(s, c, p).call_type)

\* The results the last call uses.
UsedByLast(s) ==
  LET last == Len(s.functions)
  IN  IF last = 0 THEN {}
      ELSE {Arg(s, last, p).index :
              p \in {q \in Args(s, last) : Arg(s, last, q).kind = "FunctionReturn"}}

-----------------------------------------------------------------------------
\* A call only uses results of calls before it, and a result that an argument
\* moved is not used by any argument after it: neither by a later call nor by a
\* later argument of the same call (api_graph.rs skips _moved_indexes).
NoUseAfterMoveIn(s) ==
  \A c \in DOMAIN s.functions : \A p \in Args(s, c) :
    Arg(s, c, p).kind = "FunctionReturn" =>
      /\ Arg(s, c, p).index \in 1..(c - 1)
      /\ MovesAt(s, c, p) =>
           \A d \in DOMAIN s.functions : \A q \in Args(s, d) :
             Before(c, p, d, q) => ~UsesResult(s, d, q, Arg(s, c, p).index)

\* While a call is evaluated, a result that one argument borrows mutably is
\* neither moved nor borrowed by any other argument of that call (_multi_mut
\* and _immutable_borrow of is_fun_satisfied), whatever the order of the two.
ExclusiveMutBorrowIn(s) ==
  \A c \in DOMAIN s.functions : \A p, q \in Args(s, c) :
    /\ p # q
    /\ Arg(s, c, p).kind = "FunctionReturn"
    /\ UsesResult(s, c, q, Arg(s, c, p).index)
    /\ MutBorrowsAt(s, c, p)
    => ~MovesAt(s, c, q) /\ ~MutBorrowsAt(s, c, q) /\ ~ImmutBorrowsAt(s, c, q)

\* Once call c has moved or mutably borrowed result o, with argument p, nothing
\* uses result b any more.
EndsBorrow(s, c, p, o, b) ==
  UsesResult(s, c, p, o) /\ (MovesAt(s, c, p) \/ MutBorrowsAt(s, c, p)) =>
    \A d \in DOMAIN s.functions : \A q \in Args(s, d) :
      Before(c, p, d, q) => ~UsesResult(s, d, q, b)

\* A reference that careful_pairs records is not used any more once the result
\* it refers to has been moved or mutably borrowed.
RecordedBorrowsEndIn(s) ==
  \A pair \in s.careful_pairs :
    \A c \in DOMAIN s.functions : \A p \in Args(s, c) :
      c > pair[2] => EndsBorrow(s, c, p, pair[1], pair[2])

\* The result of call b is a reference into the result o it borrowed.
BorrowsFrom(s, b, o) ==
  /\ \E p \in Args(s, b) : UsesResult(s, b, p, o) /\ ImmutBorrowsAt(s, b, p)
  /\ IsImmutableBorrowType(api_functions[s.functions[b].func].output)
  /\ ~IsImmutableBorrowType(api_functions[s.functions[o].func].output)

\* Recorded or not, a reference into a result is not used any more once that
\* result has been moved or mutably borrowed, as a second mutable access would
\* then overlap with the reference (careful_pairs of is_fun_satisfied).
BorrowEndsWithOwnerIn(s) ==
  \A b \in DOMAIN s.functions : \A o \in 1..(b - 1) :
    BorrowsFrom(s, b, o) =>
      \A c \in DOMAIN s.functions : \A p \in Args(s, c) :
        c > b => EndsBorrow(s, c, p, o, b)

\* Every decoded variable is the argument of exactly one parameter, and every
\* fuzzable argument has its variable: the generated test binds _param0,
\* _param1, ... once each and uses no unbound one.
FuzzablesUsedOnceIn(s) ==
  /\ \A n \in DOMAIN s.fuzzable_params :
       \E c \in DOMAIN s.functions : \E p \in Args(s, c) :
         /\ UsesVariable(s, c, p, n)
         /\ \A d \in DOMAIN s.functions : \A q \in Args(s, d) :
              UsesVariable(s, d, q, n) => d = c /\ q = p
  /\ \A c \in DOMAIN s.functions : \A p \in Args(s, c) :
       Arg(s, c, p).kind = "FuzzableType" =>
         Arg(s, c, p).index \in DOMAIN s.fuzzable_params

\* Argument p of call c is made from the result of call j, along edge d.
PassedAlong(s, c, p, j, d) ==
  /\ UsesResult(s, c, p, j)
  /\ d = CheckDependency(s.functions[j].func, s.functions[c].func, p)

\* Edge d was tried for argument p of call c: it leads from a result that is not
\* after the one that was passed in the end.
TriedFor(s, c, p, d) ==
  /\ Arg(s, c, p).kind = "FunctionReturn"
  /\ \E j \in 1..Arg(s, c, p).index :
       d \in DependencyIndexes(s.functions[j].func, s.functions[c].func, p)

\* Every edge an argument is passed along is counted as covered, and every edge
\* that is counted was tried for an argument of the sequence.
CoversItsEdgesIn(s) ==
  /\ \A c \in DOMAIN s.functions : \A p \in Args(s, c) : \A j \in 1..(c - 1) :
       \A d \in DOMAIN api_dependencies :
         PassedAlong(s, c, p, j, d) => d \in s.covered_dependencies
  /\ \A d \in s.covered_dependencies :
       \E c \in DOMAIN s.functions : \E p \in Args(s, c) : TriedFor(s, c, p, d)

=============================================================================
