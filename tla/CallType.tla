------------------------------- MODULE CallType -------------------------------
(***************************************************************************)
(* call_type.rs: how the value a call returned is turned into an argument. *)
(*                                                                         *)
(* The Rust enum nests one CallType inside another and never branches, so  *)
(* a call type is the sequence of its constructors, outermost first, that  *)
(* ends in one of the constructors without an inner call type.             *)
(* _BorrowedRef(_Deref(_DirectCall)) is <<"BorrowedRef", "Deref",          *)
(* "DirectCall">>.  The clean::Type a raw pointer constructor carries is   *)
(* the type the conversion produces and is left out.                       *)
(***************************************************************************)
EXTENDS Naturals, Sequences, SequencesExt

Unwraps == {"UnwrapOption", "UnwrapResult"}

Wrappers == Unwraps \cup
  {"BorrowedRef", "MutBorrowedRef", "ConstRawPointer", "MutRawPointer",
   "UnsafeDeref", "Deref", "ToOption", "ToResult"}

Leaves == {"NotCompatible", "DirectCall", "AsConvert"}

DirectCall == <<"DirectCall">>
NotCompatible == <<"NotCompatible">>

-----------------------------------------------------------------------------
UnsafeCallType(ct) == Head(ct) = "UnsafeDeref"

\* A borrow of the variable itself is the only call type that does not move.
ContainsMoveCallType(ct) ==
  LET moves[k \in 1..Len(ct)] ==
        CASE ct[k] \in Leaves \cup Unwraps -> TRUE
          [] ct[k] \in {"BorrowedRef", "MutBorrowedRef"} ->
               ct[k + 1] # "DirectCall" /\ moves[k + 1]
          [] OTHER -> moves[k + 1]
  IN  moves[1]

\* _contains_unwrap_call_type continues in _contains_move_call_type, not in
\* itself, so it also answers yes for call types without any unwrap.
ContainsUnwrapCallType(ct) ==
  CASE Head(ct) \in Leaves  -> FALSE
    [] Head(ct) \in Unwraps -> TRUE
    [] OTHER                -> ContainsMoveCallType(Tail(ct))

NeedMutTag(ct) == Head(ct) \in {"MutBorrowedRef", "MutRawPointer"}

-----------------------------------------------------------------------------
\* Mutant: the pieces are not reversed.
SplitFromOutermostFirst(ct, split, k) ==
  IF k = Len(ct) THEN <<<<ct[k]>>>>
  ELSE IF ct[k + 1] \in Unwraps THEN <<<<ct[k]>> \o DirectCall>> \o split[k + 1]
  ELSE <<<<ct[k]>> \o Head(split[k + 1])>> \o Tail(split[k + 1])

\* The pieces of the part of ct from k on, innermost first; split has those of the
\* parts that start further inside.  An unwrap starts a piece, and the one around
\* it is closed by a DirectCall.
SplitFrom(ct, split, k) ==
  IF k = Len(ct) THEN <<<<ct[k]>>>>
  ELSE IF ct[k + 1] \in Unwraps THEN Append(split[k + 1], <<ct[k]>> \o DirectCall)
  ELSE Append(Front(split[k + 1]), <<ct[k]>> \o Last(split[k + 1]))

Splits(ct) == LET split[k \in 1..Len(ct)] == SplitFrom(ct, split, k) IN split

\* _split_at_unwrap_call_type: the conversions the generated code performs one
\* after the other, innermost first; an outermost unwrap is followed by a
\* DirectCall that passes the unwrapped value on.
SplitAtUnwrapCallType(ct) ==
  IF ~ContainsUnwrapCallType(ct) THEN <<ct>>
  ELSE IF ct[1] \in Unwraps THEN Append(Splits(ct)[1], DirectCall)
  ELSE Splits(ct)[1]

=============================================================================
