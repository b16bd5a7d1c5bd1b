------------------------------ MODULE MCFileUtil ------------------------------
(***************************************************************************)
(* Two sequences that print alike, one that prints differently and one     *)
(* that reads no input, in a generator that is asked for two or three.     *)
(***************************************************************************)
EXTENDS FileUtil

Target(name, arguments, fuzzables) ==
  [name |-> name, arguments |-> arguments, fuzzables |-> fuzzables, len |-> 2]

FewTargets ==
  {Target(1, "a", TRUE), Target(1, "b", TRUE), Target(2, "a", TRUE),
   Target(3, "a", TRUE), Target(4, "a", FALSE)}

=============================================================================
