-------------------------------- MODULE DeepBfs --------------------------------
(***************************************************************************)
(* ApiGraph::_try_deep_bfs (api_graph.rs): a breadth-first search without  *)
(* a bound on the length that gives up after a round which covers neither  *)
(* a new function nor a new edge, or when there are too many sequences.    *)
(***************************************************************************)
EXTENDS Bfs

CONSTANT MaxSequenceNumbers   \* bounds the search may be called with

ASSUME MaxSequenceNumbersAssumption == MaxSequenceNumbers \subseteq Nat

VARIABLES
  max_sequence_number,
  deep_covered_nodes,             \* already_covered_nodes and _edges of the code
  deep_covered_edges,
  has_new_coverage_flag

deep_vars ==
  <<max_sequence_number, deep_covered_nodes, deep_covered_edges, has_new_coverage_flag>>

DeepInit ==
  /\ max_sequence_number = 0
  /\ deep_covered_nodes = {}
  /\ deep_covered_edges = {}
  /\ has_new_coverage_flag = FALSE

DeepStart ==
  /\ pc = "start" /\ algorithm = "_TryDeepBfs"
  /\ api_functions_visited' = {}
  /\ IF Funs = {}
     THEN pc' = "done" /\ api_sequences' = <<>>
     ELSE pc' = "deep" /\ api_sequences' = <<NewSequence>>
  /\ max_sequence_number' \in MaxSequenceNumbers
  /\ UNCHANGED <<algorithm, len, todo, deep_covered_nodes, deep_covered_edges,
                 has_new_coverage_flag>>

\* As many calls as there are functions, or the bound on the sequences.
DeepEnough ==
  \/ len >= Cardinality(Funs)
  \/ /\ len > 2
     /\ Len(api_sequences) * Cardinality(api_functions_visited) >= max_sequence_number

\* A round takes the sequences of length len that have not ended.
DeepCollect ==
  /\ pc = "deep" /\ ~DeepEnough
  /\ todo' = {n \in DOMAIN api_sequences :
                /\ ~IsSequenceEnded(api_sequences[n])
                /\ Len(api_sequences[n].functions) = len} \X Funs
  /\ has_new_coverage_flag' = FALSE
  /\ pc' = "deepen"
  /\ UNCHANGED <<algorithm, len, api_sequences, api_functions_visited,
                 max_sequence_number, deep_covered_nodes, deep_covered_edges>>

DeepStop ==
  /\ pc = "deep" /\ DeepEnough
  /\ pc' = "done"
  /\ UNCHANGED <<algorithm, len, todo, api_sequences, api_functions_visited, deep_vars>>

\* Mutant: the flag tells of the last sequence of the round only.
DeepExtendLastOnly ==
  /\ pc = "deepen"
  /\ \E n \in DOMAIN api_sequences, f \in Funs :
       /\ ComesFirst(n, f)
       /\ \E new \in {IsFunSatisfied(f, api_sequences[n])} :
            LET nodes == UNION {Contained(s) : s \in new}
                edges == UNION {s.covered_dependencies : s \in new}
            IN  /\ api_sequences' = api_sequences \o SetToSeq(new)
                /\ api_functions_visited' =
                     api_functions_visited \cup (IF new = {} THEN {} ELSE {f})
                /\ deep_covered_nodes' = deep_covered_nodes \cup nodes
                /\ deep_covered_edges' = deep_covered_edges \cup edges
                /\ has_new_coverage_flag' =
                     \/ ~(nodes \subseteq deep_covered_nodes)
                     \/ ~(edges \subseteq deep_covered_edges)
       /\ todo' = todo \ {<<n, f>>}
  /\ UNCHANGED <<algorithm, pc, len, max_sequence_number>>

DeepExtend ==
  /\ pc = "deepen"
  /\ \E n \in DOMAIN api_sequences, f \in Funs :
       /\ ComesFirst(n, f)
       /\ \E new \in {IsFunSatisfied(f, api_sequences[n])} :
            LET nodes == UNION {Contained(s) : s \in new}
                edges == UNION {s.covered_dependencies : s \in new}
            IN  /\ api_sequences' = api_sequences \o SetToSeq(new)
                /\ api_functions_visited' =
                     api_functions_visited \cup (IF new = {} THEN {} ELSE {f})
                /\ deep_covered_nodes' = deep_covered_nodes \cup nodes
                /\ deep_covered_edges' = deep_covered_edges \cup edges
                /\ has_new_coverage_flag' =
                     \/ has_new_coverage_flag
                     \/ ~(nodes \subseteq deep_covered_nodes)
                     \/ ~(edges \subseteq deep_covered_edges)
       /\ todo' = todo \ {<<n, f>>}
  /\ UNCHANGED <<algorithm, pc, len, max_sequence_number>>

\* The next length, unless the round covered nothing new.
DeepNextLen ==
  /\ pc = "deepen" /\ todo = {}
  /\ IF has_new_coverage_flag
     THEN len' = len + 1 /\ pc' = "deep"
     ELSE pc' = "done" /\ UNCHANGED len
  /\ UNCHANGED <<algorithm, todo, api_sequences, api_functions_visited, deep_vars>>

DeepNext ==
  \/ DeepStart
  \/ DeepCollect
  \/ DeepExtend
  \/ DeepNextLen
  \/ DeepStop

-----------------------------------------------------------------------------
\* The functions and edges that the sequences of up to n calls cover.
CoverageUpTo(n) ==
  LET short == {s \in Range(api_sequences) : Len(s.functions) <= n}
  IN  <<UNION {Contained(s) : s \in short},
        UNION {s.covered_dependencies : s \in short}>>

\* The deep search pays for no round in vain: when it has ended, every length up
\* to len covered a function or an edge that no shorter sequence covers, and
\* either one of the two bounds is met or the calls after len cover nothing new.
DeepRoundsEarnTheirKeep ==
  pc = "done" /\ algorithm = "_TryDeepBfs" =>
    /\ \A n \in 1..len : CoverageUpTo(n) # CoverageUpTo(n - 1)
    /\ DeepEnough \/ CoverageUpTo(len + 1) = CoverageUpTo(len)

=============================================================================
