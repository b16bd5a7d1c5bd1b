------------------------------- MODULE FuzzType -------------------------------
(***************************************************************************)
(* fuzz_type.rs: which parameters the fuzzer can fill from its input       *)
(* bytes, the variable it decodes for each, and how many bytes that takes. *)
(*                                                                         *)
(* A FuzzableType is again a sequence of constructors: RefSlice and Tuple  *)
(* around a primitive type or RefStr.  The intermediate FuzzableCallType   *)
(* has the shape of the type itself, so the two passes of the code are one *)
(* walk here.                                                              *)
(***************************************************************************)
EXTENDS ApiUtil

NoFuzzable == <<"NoFuzzable">>

\* fuzzable_call_type: everything but the crate's own types and Result.
IsFuzzableType(ty) ==
  Last(ty) \in PrimTypes /\ \A k \in DOMAIN ty : ty[k] # "Result"

-----------------------------------------------------------------------------
NotGenerated == [fuzzable_type |-> NoFuzzable, call_type |-> NotCompatible]

\* The same fuzzable variable, wrapped once more when it is passed.
Wrapped(constructor, inner) ==
  IF inner = NotGenerated THEN NotGenerated
  ELSE [inner EXCEPT !.call_type = <<constructor>> \o @]

\* The components of a tuple have to be passed as they are decoded.
AsTuple(inner) ==
  IF inner.call_type # DirectCall THEN NotGenerated
  ELSE [inner EXCEPT !.fuzzable_type = <<"Tuple">> \o @]

\* The elements of a slice are decoded as they are: their own call type is
\* dropped.
AsSlice(inner) ==
  IF inner = NotGenerated THEN NotGenerated
  ELSE [fuzzable_type |-> <<"RefSlice">> \o inner.fuzzable_type, call_type |-> DirectCall]

\* One level of generate_fuzzable_type_and_call_type, at k; gen has what it
\* returns for the parts of ty that start further inside.
GeneratedFrom(ty, gen, k) ==
  CASE ty[k] \in PrimTypes -> [fuzzable_type |-> <<ty[k]>>, call_type |-> DirectCall]
    [] ty[k] = "Tuple" -> AsTuple(gen[k + 1])
    [] ty[k] = "Ref" /\ ty[k + 1] = "str" ->
         [fuzzable_type |-> <<"RefStr">>, call_type |-> DirectCall]
    [] ty[k] = "Ref" /\ ty[k + 1] = "Slice" -> AsSlice(gen[k + 2])
    [] ty[k] = "Ref" /\ ty[k + 1] \notin {"str", "Slice"} ->
         Wrapped("BorrowedRef", gen[k + 1])
    [] ty[k] \in Pointers \ {"Ref"} -> Wrapped(PointerCallType(ty[k]), gen[k + 1])
    [] ty[k] = "Option" -> Wrapped("ToOption", gen[k + 1])
    [] OTHER -> NotGenerated      \* Slice, Array

Generated(ty) == LET gen[k \in 1..Len(ty)] == GeneratedFrom(ty, gen, k) IN gen
GenerateFuzzableTypeAndCallType(ty) == Generated(ty)[1]

-----------------------------------------------------------------------------
(* Lengths in bytes. *)

PrimLength(p) ==
  CASE p \in {"u8", "bool"}  -> 1
    [] p = "u16"             -> 2
    [] p \in {"i32", "char"} -> 4
    [] OTHER                 -> 0

IsFixedLength(ft) == \A k \in DOMAIN ft : ft[k] \notin {"RefSlice", "RefStr"}

\* The lengths of a type are those of the part of it that starts at its first
\* constructor.  The components of a tuple are alike.
MinLengths(ft) ==
  LET min[k \in DOMAIN ft] ==
        CASE ft[k] = "Tuple"    -> 2 * min[k + 1]
          [] ft[k] = "RefSlice" -> min[k + 1]
          [] ft[k] = "RefStr"   -> 1
          [] OTHER              -> PrimLength(ft[k])
  IN  min

FixedPartLengths(ft) ==
  LET fixed[k \in DOMAIN ft] ==
        CASE ft[k] = "Tuple"                  -> 2 * fixed[k + 1]
          [] ft[k] \in {"RefSlice", "RefStr"} -> 0
          [] OTHER                            -> PrimLength(ft[k])
  IN  fixed

DynamicLengthParamNumbers(ft) ==
  LET number[k \in DOMAIN ft] ==
        CASE ft[k] = "Tuple"                  -> 2 * number[k + 1]
          [] ft[k] \in {"RefSlice", "RefStr"} -> 1
          [] OTHER                            -> 0
  IN  number

MinLength(ft) == MinLengths(ft)[1]
FixedPartLength(ft) == FixedPartLengths(ft)[1]
DynamicLengthParamNumber(ft) == DynamicLengthParamNumbers(ft)[1]

\* _is_multiple_dynamic_length: a slice of something without a fixed length.
IsMultipleDynamicLength(ft) ==
  \E k \in DOMAIN ft :
    /\ \A m \in 1..(k - 1) : ft[m] = "Tuple"
    /\ ft[k] = "RefSlice"
    /\ ~IsFixedLength(Suffix(ft, k + 1))

=============================================================================
