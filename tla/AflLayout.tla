------------------------------- MODULE AflLayout -------------------------------
(***************************************************************************)
(* The fuzz closure of a generated test (_afl_closure_body of              *)
(* api_sequence.rs, _generate_param_initial_rhs of afl_util.rs): how the   *)
(* input is divided among the variables of a sequence.                     *)
(*                                                                         *)
(* Variables are added the way is_fun_satisfied does.  Then the fuzzer     *)
(* feeds an input; if its length is acceptable, the variables are decoded  *)
(* one after the other: those of fixed length from the front of the input, *)
(* the others from equal shares of the rest, the last of which is longer.  *)
(* A slice is made of those bytes of its share that are whole elements at  *)
(* aligned addresses.                                                      *)
(***************************************************************************)
EXTENDS AflUtil, FiniteSetsExt

CONSTANTS
  ParamTys,             \* the types of parameters in the crate
  MaxParams,            \* bound on the variables of a sequence
  MaxData,              \* bound on the length of an input
  Patterns,             \* the bytes an input repeats
  Addresses             \* where in memory an input may be

ASSUME BoundsAssumption ==
  /\ MaxParams \in Nat /\ MaxData \in Nat
  /\ Addresses \subseteq Nat
  /\ \A pattern \in Patterns : pattern \in Seq(0..255) /\ pattern # <<>>

ASSUME ParamTysAssumption == \A ty \in ParamTys : IsType(ty)

VARIABLES
  pc,
  fuzzable_params,      \* the variables of the sequence
  data,                 \* the input
  address,              \* the address of its first byte
  next,                 \* the variable to decode next
  fixed_start_index,    \* where the next variable of fixed length starts
  dynamic_param_index,  \* how many variables of dynamic length came before
  regions               \* the parts of the input decoded, and their values

vars == <<pc, fuzzable_params, data, address, next, fixed_start_index,
          dynamic_param_index, regions>>

-----------------------------------------------------------------------------
data_len == Len(data)

\* The total of the first n lengths, of all variables.
Totals(lengths) ==
  LET total[n \in 0..Len(lengths)] == IF n = 0 THEN 0 ELSE total[n - 1] + lengths[n]
  IN  total
Total(lengths) == Totals(lengths)[Len(lengths)]

MinLengthsOf(params) == [n \in DOMAIN params |-> MinLength(params[n])]
FixedPartsOf(params) == [n \in DOMAIN params |-> FixedPartLength(params[n])]
DynamicPartsOf(params) == [n \in DOMAIN params |-> DynamicLengthParamNumber(params[n])]

IsFuzzablesFixedLength == \A n \in DOMAIN fuzzable_params : IsFixedLength(fuzzable_params[n])
FuzzablesMinLength == Total(MinLengthsOf(fuzzable_params))
FuzzableFixedPartLength == Total(FixedPartsOf(fuzzable_params))
TotalDynamicParams == Total(DynamicPartsOf(fuzzable_params))

\* let dynamic_length = (data.len() - dynamic_param_start_index) / number
DynamicLength == (data_len - FuzzableFixedPartLength) \div TotalDynamicParams

\* Where the next share of dynamic length starts.
ShareStart(dyn) == FuzzableFixedPartLength + dyn * DynamicLength

\* Mutant: no share reaches to the end of the input.
RegionShares(constructor, fixed, dyn) ==
  IF Dynamic(constructor)
  THEN [from |-> ShareStart(dyn), to |-> ShareStart(dyn + 1)]
  ELSE [from |-> fixed, to |-> fixed + DecoderReads(constructor)]

\* The bytes from..(to - 1) a variable that is no tuple is decoded from.
Region(constructor, fixed, dyn) ==
  IF Dynamic(constructor)
  THEN [from |-> ShareStart(dyn),
        to   |-> IF dyn = TotalDynamicParams - 1 THEN data_len ELSE ShareStart(dyn + 1)]
  ELSE [from |-> fixed, to |-> fixed + DecoderReads(constructor)]

\* A region of the part of ft at k: what the decoder makes of the bytes if their
\* number is fixed and they are there, and the type of the elements if it makes a
\* slice.
WithValue(ft, k, region) ==
  [from |-> region.from, to |-> region.to, type |-> ft[k],
   element |-> IF ft[k] = "RefSlice" THEN Suffix(ft, k + 1) ELSE <<>>,
   value |-> IF Dynamic(ft[k]) \/ region.to > data_len THEN <<>>
             ELSE Decoded(ft[k], SubSeq(data, region.from + 1, region.to))]

\* No char: its decoder leaves the program.
NoChar(region) ==
  region.type = "char" /\ region.value # <<>> /\ ~IsChar(region.value)

\* _generate_param_initial_rhs of the part of ft from k on, at a start of the fixed
\* and the dynamic part: the components of a tuple follow each other.  of has the
\* parts that start further inside.
RegionsFrom(ft, of, k) ==
  [at \in Nat \X Nat |->
     IF ft[k] # "Tuple" THEN <<WithValue(ft, k, Region(ft[k], at[1], at[2]))>>
     ELSE of[k + 1][at] \o
          of[k + 1][<<at[1] + FixedPartLengths(ft)[k + 1],
                      at[2] + DynamicLengthParamNumbers(ft)[k + 1]>>]]

RegionsOf(ft) == LET of[k \in DOMAIN ft] == RegionsFrom(ft, of, k) IN of

ParamRegions(ft) == RegionsOf(ft)[1][<<fixed_start_index, dynamic_param_index>>]

Bytes(r) == r.from..(r.to - 1)

\* Of the elements of a slice.  Tuples of one type are aligned like that type.
ElementSize(r) == MinLength(r.element)
Alignment(r) == PrimLength(Last(r.element))

\* The bytes from start on to the next address that is a multiple of align.
AlignOffset(start, align) == (align - (start % align)) % align

\* The bytes a variable is made of.  _to_slice keeps the middle part of align_to:
\* as many elements as there are from the first aligned address in its share on,
\* none if no address in it is aligned.
Kept(r) ==
  LET first == r.from + AlignOffset(address + r.from, Alignment(r))
      elements == (r.to - first) \div ElementSize(r)
  IN  IF r.type # "RefSlice" THEN Bytes(r)
      ELSE IF first > r.to THEN {}
      ELSE first..(first + elements * ElementSize(r) - 1)

-----------------------------------------------------------------------------
Init ==
  /\ pc = "generate"
  /\ fuzzable_params = <<>>
  /\ data = <<>>
  /\ address = 0
  /\ next = 1
  /\ fixed_start_index = 0
  /\ dynamic_param_index = 0
  /\ regions = <<>>

\* is_fun_satisfied adds a variable for a parameter of type ty.
AddParam(ty) ==
  /\ pc = "generate"
  /\ Len(fuzzable_params) < MaxParams
  /\ IsFuzzableType(ty)
  /\ GenerateFuzzableTypeAndCallType(ty).fuzzable_type # NoFuzzable
  /\ ~IsMultipleDynamicLength(GenerateFuzzableTypeAndCallType(ty).fuzzable_type)
  /\ fuzzable_params' =
       Append(fuzzable_params, GenerateFuzzableTypeAndCallType(ty).fuzzable_type)
  /\ UNCHANGED <<pc, data, address, next, fixed_start_index, dynamic_param_index, regions>>

\* Mutant: the input may be shorter than the variables.
AcceptsShort(n) == IsFuzzablesFixedLength => n >= FuzzablesMinLength

\* if data.len() != min_len {return;}, with < if some length is dynamic.
Accepts(n) ==
  IF IsFuzzablesFixedLength THEN n = FuzzablesMinLength ELSE n >= FuzzablesMinLength

\* A variable whose type ends in str, which only &str does not, has no decoder:
\* the text that is written for it is no Rust.  A test with two slice decoders does
\* not compile either (SliceDecoderOnce); what it would decode is looked at here.
Compiles == \A n \in DOMAIN fuzzable_params : Last(fuzzable_params[n]) # "str"

\* The test that was generated is not built.
Reject ==
  /\ pc = "generate" /\ ~Compiles
  /\ pc' = "rejected"
  /\ UNCHANGED <<fuzzable_params, data, address, next, fixed_start_index,
                 dynamic_param_index, regions>>

\* The fuzzer feeds an input of n bytes, which is somewhere in memory.
Feed(n, pattern, start) ==
  /\ pc = "generate" /\ fuzzable_params # <<>> /\ Compiles
  /\ data' = [i \in 1..n |-> pattern[((i - 1) % Len(pattern)) + 1]]
  /\ address' = start
  /\ pc' = IF Accepts(n) THEN "decode" ELSE "returned"
  /\ UNCHANGED <<fuzzable_params, next, fixed_start_index, dynamic_param_index, regions>>

\* A variable is decoded, all of its components if it is a tuple.
Decode ==
  /\ pc = "decode" /\ next <= Len(fuzzable_params)
  /\ \E ft \in {fuzzable_params[next]} : \E decoded \in {ParamRegions(ft)} :
       /\ \A n \in DOMAIN decoded : ~NoChar(decoded[n])
       /\ regions' = regions \o decoded
       /\ fixed_start_index' = fixed_start_index + FixedPartLength(ft)
       /\ dynamic_param_index' = dynamic_param_index + DynamicLengthParamNumber(ft)
  /\ next' = next + 1
  /\ UNCHANGED <<pc, fuzzable_params, data, address>>

\* The bytes are no char or no UTF-8: the decoder leaves with process::exit(0).
Exit ==
  /\ pc = "decode" /\ next <= Len(fuzzable_params)
  /\ \E decoded \in {ParamRegions(fuzzable_params[next])} : \E n \in DOMAIN decoded :
       \/ decoded[n].type = "RefStr"
       \/ NoChar(decoded[n])
  /\ pc' = "exited"
  /\ UNCHANGED <<fuzzable_params, data, address, next, fixed_start_index,
                 dynamic_param_index, regions>>

\* test_function is called.
CallTest ==
  /\ pc = "decode" /\ next > Len(fuzzable_params)
  /\ pc' = "called"
  /\ UNCHANGED <<fuzzable_params, data, address, next, fixed_start_index,
                 dynamic_param_index, regions>>

Terminating == pc \in {"rejected", "returned", "exited", "called"} /\ UNCHANGED vars

Next ==
  \/ \E ty \in ParamTys : AddParam(ty)
  \/ Reject
  \/ \E n \in 0..MaxData, pattern \in Patterns, start \in Addresses :
       Feed(n, pattern, start)
  \/ Decode
  \/ Exit
  \/ CallTest
  \/ Terminating

Spec == Init /\ [][Next]_vars

-----------------------------------------------------------------------------
\* No decoder reads beyond the end of an input whose length was accepted, and
\* no share of it starts after it ends: the generated test does not panic
\* before it calls the function under test.
ReadsInBounds ==
  \A n \in DOMAIN regions :
    regions[n].from <= regions[n].to /\ regions[n].to <= data_len

\* When the test function is called no byte of the input is used for two variables,
\* whatever the nesting of tuples, and none is ignored but at the ends of the share
\* of a slice of wider elements: in front fewer bytes than the elements are aligned
\* to, at the end fewer than one element has.
InputPartitioned ==
  pc = "called" =>
    /\ \A m, n \in DOMAIN regions : m # n => Kept(regions[m]) \cap Kept(regions[n]) = {}
    /\ \A x \in 0..(data_len - 1) : \E n \in DOMAIN regions :
         \/ x \in Kept(regions[n])
         \/ /\ regions[n].type = "RefSlice"
            /\ x \in Bytes(regions[n])
            /\ \/ x - regions[n].from < Alignment(regions[n]) - 1
               \/ regions[n].to - x < ElementSize(regions[n])

\* An unsigned integer is the bytes of its region, the first of which is the
\* most significant.  For a signed one this fails: a byte of 0x80 and above
\* fills all bytes before it with ones, whatever the input has there.
IntegersFromBytes ==
  \A n \in DOMAIN regions :
    LET bytes == SubSeq(data, regions[n].from + 1, regions[n].to)
    IN  /\ regions[n].type \in {"u8", "u16", "char"} => regions[n].value = bytes
        /\ regions[n].type = "i32" =>
             \A i \in DOMAIN bytes :
               regions[n].value[i] =
                 IF \E k \in (i + 1)..Len(bytes) : bytes[k] >= 128 THEN 255 ELSE bytes[i]

\* Every decoder that the closure or another decoder calls is defined.  A variable
\* without a decoder is never called for: its type is a str that is not behind &.
CalledDecodersDefined ==
  LET defined == {FunctionOf(h) : h \in HelpersOfSequence(fuzzable_params) \ {NoHelper}}
  IN  /\ \A n \in DOMAIN fuzzable_params :
           \/ FunctionOf(Component(fuzzable_params[n])) \in defined
           \/ Last(fuzzable_params[n]) = "str"
      /\ \A f \in defined : Calls(f) \subseteq defined

-----------------------------------------------------------------------------
(* What a comment of the code says, and a run refutes. *)

\* afl_util.rs: the slice decoder is generic and has to be added only once.
SliceDecoderOnce == TimesDefined(fuzzable_params, "slice") <= 1

=============================================================================
