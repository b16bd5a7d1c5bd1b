----------------------------- MODULE MCConversion -----------------------------
(***************************************************************************)
(* The sized types of two and three constructors.                          *)
(***************************************************************************)
EXTENDS Conversion

\* str and slices only occur behind a pointer.
Sized(ty) ==
  \A k \in DOMAIN ty :
    ty[k] \in {"str", "Slice"} => k > 1 /\ ty[k - 1] \in Pointers

ShallowTypes == {ty \in TypesUpTo(2, {"A", "u8"}) : Sized(ty)}

DeepTypes ==
  {ty \in TypesUpTo(2, {"A", "u8", "str"}) \cup
          {<<w>> \o ty : w \in Pointers \cup Preludes,
                         ty \in TypesUpTo(2, {"A", "u16"})} : Sized(ty)}

=============================================================================
