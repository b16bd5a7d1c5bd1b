------------------------------ MODULE Conversion ------------------------------
(***************************************************************************)
(* How the text of a call makes one argument (the body writer of           *)
(* api_sequence.rs and _to_call_string of call_type.rs), as the Rust types *)
(* of the expressions it writes.                                           *)
(*                                                                         *)
(* The argument is a variable decoded from the input or the result of an   *)
(* earlier call, bound without its outermost Option or Result.  Its call   *)
(* type is split at the unwraps: one statement per piece binds a helper    *)
(* variable, and the last piece is written as the argument itself.         *)
(***************************************************************************)
EXTENDS Dependencies

CONSTANTS
  OutputTypes,          \* the result types of functions
  InputTypes            \* the types of parameters

\* The crate's own types are not named like a constructor or a primitive type.
ASSUME TypesAssumption ==
  /\ \A ty \in OutputTypes \cup InputTypes : IsType(ty)
  /\ StructTypes \cap (TypeWrappers \cup PrimTypes) = {}

VARIABLES
  progress,
  param,                \* the type of the parameter
  origin,               \* result type of the earlier call; <<>> if decoded
  call_type,            \* how the variable is passed
  value,                \* the type of the variable the next piece is applied to
  written               \* how many pieces are written

conversion_vars == <<progress, param, origin, call_type, value, written>>

-----------------------------------------------------------------------------
\* An expression that has no type: rustc rejects the generated test.
Untyped == <<>>

\* The type of one constructor's text around an expression of type ty.  Rust
\* does not cast a shared reference to a pointer to mut.
Around(constructor, ty) ==
  IF ty = Untyped THEN Untyped
  ELSE CASE constructor = "BorrowedRef"     -> <<"Ref">> \o ty
         [] constructor = "MutBorrowedRef"  -> <<"RefMut">> \o ty
         [] constructor = "ConstRawPointer" -> <<"Ptr">> \o ty
         [] constructor = "ToOption"        -> <<"Option">> \o ty
         [] constructor = "ToResult"        -> <<"Result">> \o ty
         [] constructor \in {"Deref", "UnsafeDeref"} /\ Head(ty) \in Pointers -> Tail(ty)
         [] constructor = "UnwrapOption" /\ Head(ty) = "Option" -> Tail(ty)
         [] constructor = "UnwrapResult" /\ Head(ty) = "Result" -> Tail(ty)
         [] OTHER -> Untyped

\* One level of _to_call_string, at k, applied to a variable of type ty; text has
\* what is written further inside.  A number is converted to the type target.
TextFrom(ct, ty, target, text, k) ==
  CASE ct[k] = "DirectCall" -> ty
    [] ct[k] = "AsConvert" ->
         IF Len(ty) = 1 /\ ty[1] \in Numbers \cup {"char"} THEN <<target>> ELSE Untyped
    [] OTHER -> Around(ct[k], text[k + 1])

Texts(ct, ty, target) ==
  LET text[k \in 1..Len(ct)] == TextFrom(ct, ty, target, text, k) IN text
CallString(ct, ty, target) == Texts(ct, ty, target)[1]

\* _to_type_string: the type a decoded variable is declared with.
TypeFrom(ft, type, k) ==
  CASE ft[k] = "RefSlice" -> <<"Ref", "Slice">> \o type[k + 1]
    [] ft[k] = "RefStr"   -> <<"Ref", "str">>
    [] ft[k] = "Tuple"    -> <<"Tuple">> \o type[k + 1]
    [] OTHER              -> <<ft[k]>>

TypeStrings(ft) == LET type[k \in 1..Len(ft)] == TypeFrom(ft, type, k) IN type
ToTypeString(ft) == TypeStrings(ft)[1]

Pieces == SplitAtUnwrapCallType(call_type)

-----------------------------------------------------------------------------
\* A parameter of a function in the graph, and the call type that
\* is_fun_satisfied records for it.
ConversionInit ==
  /\ param \in {ty \in InputTypes :
                  ~ContainsUnsupportedFuzzableType(Function(<<ty>>, <<>>))}
  /\ IF IsFuzzableType(param)
     THEN /\ origin = <<>>
          /\ call_type = GenerateFuzzableTypeAndCallType(param).call_type
     ELSE /\ origin \in OutputTypes
          /\ call_type = SameType(FinalType(origin), param)
  /\ call_type # NotCompatible
  /\ value = <<>>
  /\ written = 0
  /\ progress = "bind"

\* The header declares the decoded variable.
DeclareParam ==
  /\ progress = "bind" /\ origin = <<>>
  /\ value' = ToTypeString(GenerateFuzzableTypeAndCallType(param).fuzzable_type)
  /\ progress' = "write"
  /\ UNCHANGED <<param, origin, call_type, written>>

\* let _local = if let Some(x) = f(..) {x} else {exit}, or without the if let.
BindResult ==
  /\ progress = "bind" /\ origin # <<>>
  /\ value' = FinalType(origin)
  /\ progress' = "write"
  /\ UNCHANGED <<param, origin, call_type, written>>

\* let helper = piece;
HelperLine ==
  /\ progress = "write" /\ written + 1 < Len(Pieces)
  /\ value' = CallString(Pieces[written + 1], value, Last(param))
  /\ written' = written + 1
  /\ UNCHANGED <<progress, param, origin, call_type>>

\* The last piece is the argument of the call.
WriteArgument ==
  /\ progress = "write" /\ written + 1 = Len(Pieces)
  /\ value' = CallString(Last(Pieces), value, Last(param))
  /\ written' = written + 1
  /\ progress' = "passed"
  /\ UNCHANGED <<param, origin, call_type>>

Passed == progress = "passed" /\ UNCHANGED conversion_vars

ConversionNext ==
  \/ DeclareParam
  \/ BindResult
  \/ HelperLine
  \/ WriteArgument
  \/ Passed

ConversionSpec == ConversionInit /\ [][ConversionNext]_conversion_vars

-----------------------------------------------------------------------------
Bound ==
  IF origin = <<>>
  THEN ToTypeString(GenerateFuzzableTypeAndCallType(param).fuzzable_type)
  ELSE FinalType(origin)

\* Splitting loses and reorders nothing: the statements, one after the other,
\* make the same value as the whole call type would in one expression.
SplitKeepsMeaning == progress = "passed" => value = CallString(call_type, Bound, Last(param))

\* The constructors that take something off the value; of two of them the
\* call type has the inner one first.
Reductions(ct) ==
  {k \in DOMAIN ct : ct[k] \in Unwraps \cup {"Deref", "UnsafeDeref", "AsConvert"}}

\* Elements of a slice that are not decoded as the type they have.
ConvertedElements(ty) ==
  \E k \in 2..Len(ty) :
    /\ ty[k] = "Slice"
    /\ GenerateFuzzableTypeAndCallType(Suffix(ty, k + 1)).call_type # DirectCall

\* An argument has the type of its parameter, however deep the parameter type
\* is, as long as at most one thing is taken off the result, no pointer to mut
\* is made and the elements of slices are decoded as they are.
ArgumentHasParamType ==
  /\ progress = "passed"
  /\ Cardinality(Reductions(call_type)) <= 1
  /\ \A k \in DOMAIN call_type : call_type[k] # "MutRawPointer"
  /\ origin = <<>> => ~ConvertedElements(param)
  => value = param

=============================================================================
