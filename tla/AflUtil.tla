-------------------------------- MODULE AflUtil --------------------------------
(***************************************************************************)
(* afl_util.rs: the decoders (helpers) that a generated test uses to make  *)
(* the variables of a sequence from the input bytes.                       *)
(***************************************************************************)
EXTENDS FuzzType

\* The bytes the decoder of a primitive type reads: wider ones call the one of
\* half their width twice, bool and char that of the number they are made from.
DecoderReads(p) ==
  CASE p \in {"u8", "bool"}  -> 1
    [] p = "u16"             -> 2
    [] p \in {"i32", "char"} -> 4

\* as: an integer of twice the width.  Values are bytes, the most significant
\* one first; a signed one is filled up with its sign.
Widened(value, signed) ==
  LET fill == IF signed /\ value[1] >= 128 THEN 255 ELSE 0
  IN  [i \in DOMAIN value |-> fill] \o value

\* value << n, half the width of a widened value.
Shifted(value) ==
  LET half == Len(value) \div 2
  IN  [i \in DOMAIN value |-> IF i <= half THEN value[i + half] ELSE 0]

\* Mutant: the byte read first is the least significant one.
CombinedLittleEndian(high, low) ==
  LET half == Len(low) \div 2
  IN  SubSeq(low, half + 1, Len(low)) \o SubSeq(high, 1, half)

\* high | low.  In every byte one of them is 0 or 255.
Combined(high, low) ==
  [i \in DOMAIN low |-> IF 255 \in {high[i], low[i]} THEN 255 ELSE high[i] + low[i]]

\* ((data0 << n) | data1), of the results of two calls for half the width.
Joined(high, low, signed) == Combined(Shifted(Widened(high, signed)), Widened(low, signed))

\* _to_u16 and _to_i16, _to_u32 and _to_i32, of the bytes from index on.
To16(bytes, index, signed) == Joined(<<bytes[index]>>, <<bytes[index + 1]>>, signed)
To32(bytes, index, signed) ==
  Joined(To16(bytes, index, signed), To16(bytes, index + 2, signed), signed)

\* The decoder that reads exactly these bytes.
DecodedInteger(bytes, signed) ==
  CASE Len(bytes) = 1 -> <<bytes[1]>>
    [] Len(bytes) = 2 -> To16(bytes, 1, signed)
    [] Len(bytes) = 4 -> To32(bytes, 1, signed)

\* The value of a decoder.  bool is true for even bytes, and char is made from
\* a u32.
Decoded(p, bytes) ==
  IF p = "bool" THEN <<1 - (bytes[1] % 2)>> ELSE DecodedInteger(bytes, p = "i32")

\* char::from_u32: at most 0x10FFFF, and no surrogate.
IsChar(value) ==
  /\ value[1] = 0 /\ value[2] <= 16
  /\ ~(value[2] = 0 /\ value[3] \in 216..223)

Dynamic(constructor) == constructor \in {"RefStr", "RefSlice"}

-----------------------------------------------------------------------------
(* The decoders the program has to define. *)

NoHelper == <<"NoHelper">>

\* What the innermost of the nested tuples of a variable consists of.
Component(ft) ==
  LET depth == {k \in DOMAIN ft : \A m \in 1..(k - 1) : ft[m] = "Tuple"}
  IN  Suffix(ft, CHOOSE k \in depth : \A m \in depth : m <= k)

\* _new_from_fuzzable, for everything but tuples.
NewFromFuzzable(ft) == IF ft = <<"str">> THEN NoHelper ELSE ft

\* Mutant: char is decoded without the helper of u32.
DependentHelperNotOfChar(p) ==
  CASE p \in {"bool", "u16"} -> <<"u8">>
    [] p = "i16"             -> <<"i8">>
    [] p = "i32"             -> <<"i16">>
    [] p = "u32"             -> <<"u16">>
    [] OTHER                 -> <<>>

\* _get_all_dependent_afl_helpers: the helper of a type and those it calls.
\* The helpers of i8, i16 and u32 exist only for the wider ones here.
DependentHelper(p) ==
  CASE p \in {"bool", "u16"} -> <<"u8">>
    [] p = "i16"             -> <<"i8">>
    [] p = "i32"             -> <<"i16">>
    [] p = "u32"             -> <<"u16">>
    [] p = "char"            -> <<"u32">>
    [] OTHER                 -> <<>>

WithDependents(helpers) ==
  helpers \cup {DependentHelper(h[1]) : h \in {x \in helpers : Len(x) = 1}}

\* The calls are three deep at most: from char to u32, u16 and u8.
GetAllDependentAflHelpers(ft) ==
  WithDependents(WithDependents(WithDependents({NewFromFuzzable(Component(ft))}))) \ {<<>>}

\* _get_all_dependent_afl_helpers_of_sequence, without duplicates.
HelpersOfSequence(params) ==
  UNION {GetAllDependentAflHelpers(params[n]) : n \in DOMAIN params}

\* The Rust function a helper stands for: one for slices of all types.
FunctionOf(helper) == IF Head(helper) = "RefSlice" THEN "slice" ELSE Head(helper)

\* _get_afl_helpers_functions_of_sequence: how often a function is defined.
\* The test for the slice helper comes before an unconditional push.
TimesDefined(params, function) ==
  Cardinality({h \in HelpersOfSequence(params) : FunctionOf(h) = function})

\* The functions the text of a decoder calls.
Calls(function) ==
  CASE function \in {"bool", "u16"} -> {"u8"}
    [] function = "i16"             -> {"i8"}
    [] function = "i32"             -> {"i16"}
    [] function = "u32"             -> {"u16"}
    [] function = "char"            -> {"u32"}
    [] OTHER                        -> {}

=============================================================================
