-------------------------------- MODULE Choice --------------------------------
(***************************************************************************)
(* ApiGraph::_heuristic_choose (api_graph.rs): the sequences that become   *)
(* fuzz targets.  Every iteration takes the sequence that covers most new  *)
(* functions and edges, first among those with an input of dynamic length, *)
(* then among the others.                                                  *)
(***************************************************************************)
EXTENDS Bfs

CONSTANT MaxSizes                 \* values of max_size

ASSUME MaxSizesAssumption == MaxSizes \subseteq Nat

VARIABLES
  max_size,                       \* the two arguments
  stop_at_visit_all_nodes,
  iterations,                     \* how many the loop has begun
  try_to_find_dynamic_length_flag,
  sorted_chosen_sequences         \* indexes, in the order they are chosen

choice_vars == <<max_size, stop_at_visit_all_nodes, iterations,
                 try_to_find_dynamic_length_flag, sorted_chosen_sequences>>

ChoiceInit ==
  /\ max_size = 0
  /\ stop_at_visit_all_nodes = FALSE
  /\ iterations = 0
  /\ try_to_find_dynamic_length_flag = TRUE
  /\ sorted_chosen_sequences = <<>>

-----------------------------------------------------------------------------
IsFuzzablesFixedLength(s) ==
  \A n \in DOMAIN s.fuzzable_params : IsFixedLength(s.fuzzable_params[n])

\* Worth fuzzing: input to read, and every result but the last is used.
Valid ==
  {j \in DOMAIN api_sequences :
     /\ ~HasNoFuzzables(api_sequences[j])
     /\ ~ContainsDeadCodeExceptLastOne(api_sequences[j])}

Nodes(indexes) == UNION {Contained(api_sequences[j]) : j \in indexes}
Edges(indexes) == UNION {api_sequences[j].covered_dependencies : j \in indexes}

already_chosen_sequences == Range(sorted_chosen_sequences)
already_covered_nodes == Nodes(already_chosen_sequences)
already_covered_edges == Edges(already_chosen_sequences)

\* What this iteration chooses from.
Eligible ==
  {j \in Valid \ already_chosen_sequences :
     IsFuzzablesFixedLength(api_sequences[j]) # try_to_find_dynamic_length_flag}

NewNodes(j) == Cardinality(Nodes({j}) \ already_covered_nodes)
NewEdges(j) == Cardinality(Edges({j}) \ already_covered_edges)

\* Sequence j replaces k when the loop finds it after k.
Better(j, k) ==
  \/ NewNodes(j) > NewNodes(k)
  \/ /\ NewNodes(j) = NewNodes(k)
     /\ \/ NewEdges(j) > NewEdges(k)
        \/ /\ NewEdges(j) = NewEdges(k)
           /\ Len(api_sequences[j].functions) < Len(api_sequences[k].functions)

\* The first of the best; none if no sequence covers anything new.
Best ==
  {j \in Eligible :
     /\ NewNodes(j) > 0 \/ NewEdges(j) > 0
     /\ \A k \in Eligible : ~Better(k, j) /\ (k < j => Better(j, k))}

-----------------------------------------------------------------------------
ChoiceStart ==
  /\ pc = "done"
  /\ max_size' \in MaxSizes
  /\ stop_at_visit_all_nodes' \in BOOLEAN
  /\ pc' = IF Valid = {} THEN "chosen" ELSE "choosing"
  /\ UNCHANGED <<algorithm, len, todo, api_sequences, api_functions_visited, iterations,
                 try_to_find_dynamic_length_flag, sorted_chosen_sequences>>

\* The breaks at the end of an iteration.
Enough(chosen) ==
  \/ Cardinality(chosen) = Cardinality(Valid)
  \/ api_dependencies # <<>> /\ Cardinality(Edges(chosen)) = Len(api_dependencies)
  \/ stop_at_visit_all_nodes /\ Cardinality(Nodes(chosen)) = Cardinality(Nodes(Valid))

Choose ==
  /\ pc = "choosing" /\ iterations < max_size + 1
  /\ \E j \in Best :
       /\ try_to_find_dynamic_length_flag => NewNodes(j) > 0
       /\ sorted_chosen_sequences' = Append(sorted_chosen_sequences, j)
       /\ pc' = IF Enough(already_chosen_sequences \cup {j}) THEN "chosen" ELSE pc
  /\ iterations' = iterations + 1
  /\ UNCHANGED <<algorithm, len, todo, api_sequences, api_functions_visited, max_size,
                 stop_at_visit_all_nodes, try_to_find_dynamic_length_flag>>

\* Mutant: the first pass without success ends the choice.
SwitchStops ==
  /\ pc = "choosing" /\ iterations < max_size + 1
  /\ try_to_find_dynamic_length_flag
  /\ \A j \in Best : NewNodes(j) = 0
  /\ pc' = "chosen"
  /\ iterations' = iterations + 1
  /\ UNCHANGED <<algorithm, len, todo, api_sequences, api_functions_visited, max_size,
                 stop_at_visit_all_nodes, sorted_chosen_sequences,
                 try_to_find_dynamic_length_flag>>

\* No sequence of dynamic length covers a new function: that takes an iteration.
Switch ==
  /\ pc = "choosing" /\ iterations < max_size + 1
  /\ try_to_find_dynamic_length_flag
  /\ \A j \in Best : NewNodes(j) = 0
  /\ try_to_find_dynamic_length_flag' = FALSE
  /\ iterations' = iterations + 1
  /\ UNCHANGED <<algorithm, pc, len, todo, api_sequences, api_functions_visited, max_size,
                 stop_at_visit_all_nodes, sorted_chosen_sequences>>

\* Nothing new is left, or the loop is over.
ChoiceEnd ==
  /\ pc = "choosing"
  /\ \/ iterations = max_size + 1
     \/ ~try_to_find_dynamic_length_flag /\ Best = {}
  /\ pc' = "chosen"
  /\ UNCHANGED <<algorithm, len, todo, api_sequences, api_functions_visited, choice_vars>>

ChoiceNext ==
  \/ ChoiceStart
  \/ Choose
  \/ Switch
  \/ ChoiceEnd

-----------------------------------------------------------------------------
\* A choice that was not cut short, neither by max_size nor because every edge
\* is covered, leaves no function out that some valid sequence calls, although
\* the pass over the dynamic sequences is over before the other one begins.
ChoiceCoversFunctions ==
  pc = "chosen" =>
    \/ iterations = max_size + 1
    \/ api_dependencies # <<>> /\ Cardinality(already_covered_edges) = Len(api_dependencies)
    \/ already_covered_nodes = Nodes(Valid)

=============================================================================
