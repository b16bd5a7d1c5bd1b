-------------------------------- MODULE ApiUtil --------------------------------
(***************************************************************************)
(* api_util.rs and prelude_type.rs: the questions the generator asks about *)
(* Rust types.                                                             *)
(*                                                                         *)
(* A clean::Type is the sequence of its type constructors, outermost       *)
(* first: &mut Option<A> is <<"RefMut", "Option", "A">>.  Of Result the ok *)
(* type is kept, a tuple is a pair of equal types, and the signatures name *)
(* no lifetimes.  Generic functions are dropped by filter_functions before *)
(* any of these questions is asked.                                        *)
(***************************************************************************)
EXTENDS CallType

CONSTANT StructTypes    \* names of the crate's own types

Numbers == {"u8", "u16", "i32"}
PrimTypes == Numbers \cup {"char", "bool", "str"}
Preludes == {"Option", "Result"}
Pointers == {"Ref", "RefMut", "Ptr", "PtrMut"}
TypeWrappers == Preludes \cup Pointers \cup {"Slice", "Array", "Tuple"}

\* The types nested at most depth deep over the given leaves.
TypesUpTo(depth, leaves) ==
  {w \o <<l>> : w \in BoundedSeq(TypeWrappers, depth), l \in leaves}

Suffix(s, k) == SubSeq(s, k, Len(s))

\* A type: constructors around a primitive type or one of the crate.
IsType(ty) ==
  /\ ty \in Seq(TypeWrappers \cup PrimTypes \cup StructTypes) /\ ty # <<>>
  /\ \A k \in 1..(Len(ty) - 1) : ty[k] \in TypeWrappers
  /\ ty[Len(ty)] \in PrimTypes \cup StructTypes

-----------------------------------------------------------------------------
(* prelude_type.rs *)

\* Option and Result are the only prelude types that get special treatment.
PreludeTypeNeedSpecialDealing(ty) == Head(ty) \in Preludes

\* _get_final_type of a type: one level of Option or Result is taken off.
FinalType(ty) == IF PreludeTypeNeedSpecialDealing(ty) THEN Tail(ty) ELSE ty

\* Mutant: the value is passed without its Option or Result.
ToCallTypeUnwrapped(prelude, inner) == inner

ToCallType(prelude, inner) ==
  <<IF prelude = "Option" THEN "ToOption" ELSE "ToResult">> \o inner

UnwrapCallType(prelude, inner) ==
  <<IF prelude = "Option" THEN "UnwrapOption" ELSE "UnwrapResult">> \o inner

-----------------------------------------------------------------------------
(* api_util.rs: classification of types *)

IsEndType(ty) ==
  LET end[k \in 1..Len(ty)] ==
        IF ty[k] \in TypeWrappers THEN end[k + 1] ELSE ty[k] \in PrimTypes
  IN  end[1]

\* _is_generic_type: anywhere inside, a path with type arguments; of those only
\* Option and Result are left.
IsGenericType(ty) == \E k \in DOMAIN ty : ty[k] \in Preludes

IsImmutableBorrowType(ty) == \E k \in DOMAIN ty : ty[k] = "Ref"

CopyType(ty) ==
  LET copy[k \in 1..Len(ty)] ==
        CASE ty[k] \in {"Tuple", "Array"} -> copy[k + 1]
          [] ty[k] \in {"Ref", "Ptr", "PtrMut"} -> TRUE
          [] OTHER -> ty[k] \in PrimTypes \ {"str"}
  IN  copy[1]

-----------------------------------------------------------------------------
(* api_util.rs: conversion of one type into another *)

\* _same_type_primitive: numbers convert with `as`, and char with u8.
SameTypePrimitive(out, inp) ==
  CASE out \in Numbers /\ inp = <<out>>                              -> DirectCall
    [] out \in Numbers /\ Len(inp) = 1 /\ inp[1] \in Numbers \ {out} -> <<"AsConvert">>
    [] out = "u8" /\ inp = <<"char">>                                -> <<"AsConvert">>
    [] out = "char" /\ inp = <<"char">>                              -> DirectCall
    [] out = "char" /\ inp = <<"u8">>                                -> <<"AsConvert">>
    [] OTHER                                                         -> NotCompatible

PointerCallType(p) ==
  CASE p = "Ref"    -> "BorrowedRef"
    [] p = "RefMut" -> "MutBorrowedRef"
    [] p = "Ptr"    -> "ConstRawPointer"
    [] p = "PtrMut" -> "MutRawPointer"

\* A pointer or prelude of the input type is put around what is made of the rest.
PutAround(constructor, rest) ==
  IF rest = NotCompatible THEN NotCompatible
  ELSE IF constructor \in Pointers THEN <<PointerCallType(constructor)>> \o rest
  ELSE ToCallType(constructor, rest)

\* A pointer or prelude is taken off the output type from p on, and inside is what
\* is made of the rest; something behind a reference can only be copied.
TakeOff(out, p, inside, inp) ==
  CASE out[p] \in Preludes ->
         IF inside = NotCompatible THEN NotCompatible ELSE UnwrapCallType(out[p], inside)
    [] out[p] \in {"Ptr", "PtrMut"} ->
         IF inside = NotCompatible THEN NotCompatible ELSE <<"UnsafeDeref">> \o inside
    [] out[p] \in {"Ref", "RefMut"} ->
         IF inside = NotCompatible \/ ~CopyType(Suffix(out, p + 1)) THEN NotCompatible
         ELSE <<"Deref">> \o inside
    [] out[p] \in PrimTypes -> SameTypePrimitive(out[p], inp)
    [] OTHER -> NotCompatible

\* One level of _same_type_hard_mode, for the output type from p and the input type
\* from q on: pointers and preludes are first taken off the input type, then off the
\* output type.  same relates what is left of both.
SameTypeFrom(out, inp, same, p, q) ==
  IF Suffix(out, p) = Suffix(inp, q) THEN DirectCall
  ELSE IF inp[q] \in Pointers \cup Preludes THEN PutAround(inp[q], same[<<p, q + 1>>])
  ELSE TakeOff(out, p, same[<<p + 1, q>>], Suffix(inp, q))

SameTypes(out, inp) ==
  LET same[at \in (1..Len(out)) \X (1..Len(inp))] ==
        SameTypeFrom(out, inp, same, at[1], at[2])
  IN  same

SameType(out, inp) == SameTypes(out, inp)[<<1, 1>>]

-----------------------------------------------------------------------------
(* api_util.rs: what passing an argument does to the value it is made from *)

\* The type of the parameter is asked for but never decides the answer.
MoveCondition(ty, ct) == ContainsMoveCallType(ct)

IsMutableBorrowOccurs(ty, ct) ==
  /\ ~ContainsMoveCallType(ct)
  /\ Head(ty) \in {"RefMut", "PtrMut"}
  /\ Head(ct) \in {"DirectCall", "MutBorrowedRef", "MutRawPointer"}

IsImmutableBorrowOccurs(ty, ct) ==
  /\ Head(ty) \in {"Ref", "Ptr"}
  /\ Head(ct) \in {"DirectCall", "BorrowedRef", "ConstRawPointer"}

=============================================================================
