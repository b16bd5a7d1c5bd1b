------------------------------ MODULE MCAflLayout ------------------------------
(***************************************************************************)
(* Parameter types of fixed and dynamic length, alone and in tuples.       *)
(***************************************************************************)
EXTENDS AflLayout

LayoutTys == {
  <<"u8">>, <<"Option", "u16">>, <<"RefMut", "i32">>, <<"char">>,
  <<"Ref", "str">>, <<"RefMut", "str">>, <<"Ref", "Slice", "u16">>,
  <<"Tuple", "u16">>, <<"Tuple", "Ref", "str">>,
  <<"Tuple", "Tuple", "Ref", "Slice", "u8">>,
  <<"Ref", "Slice", "Ref", "str">>, <<"Ref", "Slice", "Tuple", "bool">>}

\* Bytes around the sign bit, and inputs with and without chars.
FewPatterns == {<<0, 1, 128>>, <<0>>, <<255, 127, 3, 200>>}

\* Slices of two element types.
SliceTys == {<<"Ref", "Slice", "u8">>, <<"Ref", "Slice", "i32">>}

=============================================================================
