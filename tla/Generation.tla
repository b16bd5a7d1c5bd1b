------------------------------ MODULE Generation ------------------------------
(***************************************************************************)
(* The searches over the graph that generate_all_possoble_sequences and    *)
(* _default_generate_sequences choose from: bfs in four modes, bfs with a  *)
(* backward search after it, the backward search alone, and the deep bfs.  *)
(* _heuristic_choose then takes fuzz targets from what they found.         *)
(***************************************************************************)
EXTENDS DeepBfs, Backward, Choice

vars == <<bfs_vars, deep_vars, backward_vars, choice_vars>>

GenerationInit == Init /\ DeepInit /\ BackwardInit /\ ChoiceInit

Terminating == pc = "chosen" /\ UNCHANGED vars

Next ==
  \/ BfsNext /\ UNCHANGED <<deep_vars, backward_vars, choice_vars>>
  \/ DeepNext /\ UNCHANGED <<backward_vars, choice_vars>>
  \/ BackwardNext /\ UNCHANGED <<deep_vars, choice_vars>>
  \/ ChoiceNext /\ UNCHANGED <<deep_vars, backward_vars>>
  \/ Terminating

\* The loops run on until they end.
Spec == GenerationInit /\ [][Next]_vars /\ WF_vars(Next)

\* Every search ends and so does the choice, whatever functions fit where.
Termination == <>(pc = "chosen")

=============================================================================
