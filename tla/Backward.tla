------------------------------- MODULE Backward -------------------------------
(***************************************************************************)
(* ApiGraph::_try_to_cover_unvisited_nodes (api_graph.rs): functions that  *)
(* the search before it did not append.  A round looks, for each of them   *)
(* and for each parameter that needs a result, for a sequence whose last   *)
(* call returns one, puts these sequences one after the other and appends  *)
(* the function.  The functions are taken in the order of a hash set.      *)
(***************************************************************************)
EXTENDS Bfs, SequenceRules

VARIABLES
  unvisited_nodes,
  rounds,                         \* how many rounds are left
  candidate_sequences,            \* indexes of sequences, taken in their order
  nodes_left,                     \* the nodes this round has not tried yet
  covered_node_this_iteration

backward_vars ==
  <<unvisited_nodes, rounds, candidate_sequences, nodes_left, covered_node_this_iteration>>

BackwardInit ==
  /\ unvisited_nodes = {}
  /\ rounds = 0
  /\ candidate_sequences = {}
  /\ nodes_left = {}
  /\ covered_node_this_iteration = {}

\* _DirectBackwardSearch begins with nothing.
BackwardDirect ==
  /\ pc = "start" /\ algorithm = "_DirectBackwardSearch"
  /\ api_sequences' = <<>>
  /\ api_functions_visited' = {}
  /\ pc' = "backward"
  /\ UNCHANGED <<algorithm, len, todo, backward_vars>>

BackwardStart ==
  /\ pc = "backward"
  /\ unvisited_nodes' = Funs \ api_functions_visited
  /\ rounds' = Cardinality(unvisited_nodes')
  /\ pc' = "round"
  /\ UNCHANGED <<algorithm, len, todo, api_sequences, api_functions_visited,
                 candidate_sequences, nodes_left, covered_node_this_iteration>>

-----------------------------------------------------------------------------
\* _choose_candidate_sequence_for_merge: not ended, and no call in vain.
ChooseCandidateSequenceForMerge ==
  {n \in DOMAIN api_sequences :
     /\ ~IsSequenceEnded(api_sequences[n])
     /\ api_sequences[n].functions # <<>>
     /\ ~ContainsDeadCodeExceptLastOne(api_sequences[n])}

\* The parameters of f that need a result, in their order.
ResultParams(f) ==
  LET found[i \in 0..Len(api_functions[f].inputs)] ==
        IF i = 0 THEN <<>>
        ELSE IF IsFuzzableType(api_functions[f].inputs[i]) THEN found[i - 1]
        ELSE Append(found[i - 1], i)
  IN  found[Len(api_functions[f].inputs)]

\* The candidates, among those given, that end in a result for parameter i of f.
Fitting(candidates, f, i) ==
  {n \in candidates :
     DependencyIndexes(Last(api_sequences[n].functions).func, f, i) # {}}

CanBeCovered(candidates, f) ==
  \A k \in DOMAIN ResultParams(f) : Fitting(candidates, f, ResultParams(f)[k]) # {}

\* The first that reads the input, or else the last.
Dependent(candidates, f, i) ==
  LET fitting == Fitting(candidates, f, i)
      fuzzed  == {n \in fitting : ~HasNoFuzzables(api_sequences[n])}
  IN  IF fuzzed # {} THEN Min(fuzzed) ELSE Max(fitting)

Merged(candidates, f) ==
  MergeSequences([k \in DOMAIN ResultParams(f) |->
                    api_sequences[Dependent(candidates, f, ResultParams(f)[k])]])

\* What is_fun_satisfied returns for the merged sequence, None without one.
Covering(candidates, f) ==
  IF CanBeCovered(candidates, f)
  THEN {IsFunSatisfied(f, s) : s \in {Merged(candidates, f)}}
  ELSE {{}}

\* Mutant: candidates are collected in the first round only.
BackwardRoundOnce ==
  /\ pc = "round" /\ rounds > 0
  /\ candidate_sequences' =
       IF candidate_sequences = {} THEN ChooseCandidateSequenceForMerge
       ELSE candidate_sequences
  /\ covered_node_this_iteration' = {}
  /\ nodes_left' = unvisited_nodes
  /\ pc' = "cover"
  /\ UNCHANGED <<algorithm, len, todo, api_sequences, api_functions_visited,
                 unvisited_nodes, rounds>>

BackwardRound ==
  /\ pc = "round" /\ rounds > 0
  /\ candidate_sequences' = ChooseCandidateSequenceForMerge
  /\ covered_node_this_iteration' = {}
  /\ nodes_left' = unvisited_nodes
  /\ pc' = "cover"
  /\ UNCHANGED <<algorithm, len, todo, api_sequences, api_functions_visited,
                 unvisited_nodes, rounds>>

CoverNode(f) ==
  /\ pc = "cover" /\ f \in nodes_left
  /\ \E new \in Covering(candidate_sequences, f) :
       LET covered == IF new = {} THEN {} ELSE {f}
       IN  /\ api_sequences' = api_sequences \o SetToSeq(new)
           /\ api_functions_visited' = api_functions_visited \cup covered
           /\ covered_node_this_iteration' = covered_node_this_iteration \cup covered
  /\ nodes_left' = nodes_left \ {f}
  /\ UNCHANGED <<algorithm, pc, len, todo, unvisited_nodes, rounds, candidate_sequences>>

\* Mutant: a round is repeated although it covered nothing.
EndRoundRepeats ==
  /\ pc = "cover" /\ nodes_left = {}
  /\ unvisited_nodes' = unvisited_nodes \ covered_node_this_iteration
  /\ rounds' = IF covered_node_this_iteration = {} THEN rounds ELSE rounds - 1
  /\ pc' = "round"
  /\ UNCHANGED <<algorithm, len, todo, api_sequences, api_functions_visited,
                 candidate_sequences, nodes_left, covered_node_this_iteration>>

\* A round that covers nothing is the last one.
EndRound ==
  /\ pc = "cover" /\ nodes_left = {}
  /\ IF covered_node_this_iteration = {}
     THEN pc' = "done" /\ UNCHANGED <<unvisited_nodes, rounds>>
     ELSE /\ unvisited_nodes' = unvisited_nodes \ covered_node_this_iteration
          /\ rounds' = rounds - 1
          /\ pc' = "round"
  /\ UNCHANGED <<algorithm, len, todo, api_sequences, api_functions_visited,
                 candidate_sequences, nodes_left, covered_node_this_iteration>>

BackwardDone ==
  /\ pc = "round" /\ rounds = 0
  /\ pc' = "done"
  /\ UNCHANGED <<algorithm, len, todo, api_sequences, api_functions_visited, backward_vars>>

BackwardNext ==
  \/ BackwardDirect
  \/ BackwardStart
  \/ BackwardRound
  \/ \E f \in Funs : CoverNode(f)
  \/ EndRound
  \/ BackwardDone

-----------------------------------------------------------------------------
\* Sequences put one after the other always take the function they were chosen
\* for: the arguments of the earlier parameters never use up or borrow the
\* result that was meant for a later one.  The code prints "Should not go to
\* here. Only if algorithm error occurs" when they do.
NoAlgorithmError ==
  [][\A f \in nodes_left \ nodes_left' :
       CanBeCovered(candidate_sequences, f) => f \in api_functions_visited']_nodes_left

\* The rounds are enough: when the search ends, by its bound or by a round
\* without success, no function is left that the sequences found so far could
\* be put together for.
CoversAllItCan ==
  pc = "done" /\ algorithm \in {"default", "_DirectBackwardSearch"} =>
    \A f \in Funs \ api_functions_visited :
      ~CanBeCovered(ChooseCandidateSequenceForMerge, f)

\* The sequence appended last, if any: the list grows and nothing else.
Newest == IF api_sequences = <<>> THEN {} ELSE {Last(api_sequences)}

\* Each sequence, as it is appended, obeys the rules for sequences: in a merged
\* sequence, too, a result moved in one of the parts is not used any more, and
\* no argument disturbs a mutable borrow.  Renumbering binds every variable to
\* one argument.
MergedObeyRules ==
  \A s \in Newest :
    NoUseAfterMoveIn(s) /\ ExclusiveMutBorrowIn(s) /\ FuzzablesUsedOnceIn(s)

\* A reference that careful_pairs records dies with its owner in merged
\* sequences, too.  Only the pairs of the first part survive a merge: a reference
\* made in a later part may still be used after its owner has been mutated.
RecordedBorrowsEnd == \A s \in Newest : RecordedBorrowsEndIn(s)

=============================================================================
