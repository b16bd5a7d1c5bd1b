------------------------------- MODULE Ownership -------------------------------
(***************************************************************************)
(* What a Rust program may do with the values its calls return, reduced to *)
(* what is_fun_satisfied has to guarantee: each call produces one value,   *)
(* may only use values that exist and are not gone, and may make some of   *)
(* them go away for good (they are moved, or they borrowed from a value    *)
(* that is moved or mutably borrowed).                                     *)
(***************************************************************************)
EXTENDS Naturals

VARIABLES
  produced,     \* number of values returned so far
  gone,         \* the values that can no longer be used
  used          \* the values the last call used

Init ==
  /\ produced = 0
  /\ gone = {}
  /\ used = {}

Call ==
  /\ produced' = produced + 1
  /\ used' \subseteq (1..produced) \ gone
  /\ gone \subseteq gone'
  /\ gone' \subseteq 1..produced

\* A new program.
Fresh ==
  /\ produced' = 0
  /\ gone' = {}
  /\ used' = {}

Next == Call \/ Fresh

Spec == Init /\ [][Next]_<<produced, gone, used>>

=============================================================================
