---------------------------------- MODULE Bfs ----------------------------------
(***************************************************************************)
(* ApiGraph::bfs (api_graph.rs): every sequence of up to max_len calls, in *)
(* the order of their lengths.  A round collects the sequences of one      *)
(* length and tries to append each function to each of them.               *)
(*                                                                         *)
(* generate_all_possoble_sequences runs it in four modes, and              *)
(* _default_generate_sequences goes on with a backward search after it.    *)
(* The variables are those all searches over the graph share.              *)
(***************************************************************************)
EXTENDS ApiGraph

CONSTANT MaxLen           \* bfs_max_len of generate_all_possoble_sequences

ASSUME MaxLenAssumption == MaxLen \in Nat

VARIABLES
  algorithm,              \* which search generates the sequences
  pc,
  len,                    \* the length of the sequences this round extends
  todo,                   \* pairs of a sequence's index and a function yet to try
  api_sequences,          \* the fields of the graph
  api_functions_visited

bfs_vars == <<algorithm, pc, len, todo, api_sequences, api_functions_visited>>

\* The algorithms that call bfs, and the two arguments they call it with.
ByBfs == algorithm \in {"_Bfs", "_FastBfs", "_BfsEndPoint", "_FastBfsEndPoint", "default"}
stop_at_end_function == algorithm \in {"_BfsEndPoint", "_FastBfsEndPoint", "default"}
fast_mode == algorithm \in {"_FastBfs", "_FastBfsEndPoint"}

-----------------------------------------------------------------------------
Init ==
  /\ algorithm \in {"_Bfs", "_FastBfs", "_BfsEndPoint", "_FastBfsEndPoint", "default",
                    "_TryDeepBfs", "_DirectBackwardSearch"}
  /\ pc = "start"
  /\ len = 0
  /\ todo = {}
  /\ api_sequences = <<>>
  /\ api_functions_visited = {}

\* Where the caller of bfs goes on.
AfterBfs == IF algorithm = "default" THEN "backward" ELSE "done"

\* Nothing is visited, and an empty sequence is there to begin with.
Start ==
  /\ pc = "start" /\ ByBfs
  /\ api_functions_visited' = {}
  /\ IF MaxLen < 1
     THEN pc' = AfterBfs /\ UNCHANGED api_sequences
     ELSE pc' = "collect" /\ api_sequences' = Append(api_sequences, NewSequence)
  /\ UNCHANGED <<algorithm, len, todo>>

\* The sequences of length len that are not finished.
Extensible ==
  {n \in DOMAIN api_sequences :
     /\ ~(stop_at_end_function /\ IsSequenceEnded(api_sequences[n]))
     /\ Len(api_sequences[n].functions) = len}

\* Mutant: every round extends the sequences of all lengths.
CollectAll ==
  /\ pc = "collect" /\ len < MaxLen
  /\ todo' = {n \in DOMAIN api_sequences :
                ~(stop_at_end_function /\ IsSequenceEnded(api_sequences[n]))} \X Funs
  /\ pc' = "extend"
  /\ UNCHANGED <<algorithm, len, api_sequences, api_functions_visited>>

Collect ==
  /\ pc = "collect" /\ len < MaxLen
  /\ todo' = Extensible \X Funs
  /\ pc' = "extend"
  /\ UNCHANGED <<algorithm, len, api_sequences, api_functions_visited>>

\* The loop over the functions is inside the loop over the sequences.
ComesFirst(n, f) ==
  /\ <<n, f>> \in todo
  /\ \A pair \in todo : n < pair[1] \/ (n = pair[1] /\ f <= pair[2])

\* The fast mode appends each function once.
Skip(f) == fast_mode /\ f \in api_functions_visited

Extend ==
  /\ pc = "extend"
  /\ \E n \in DOMAIN api_sequences, f \in Funs :
       /\ ComesFirst(n, f)
       /\ \E new \in {IF Skip(f) THEN {} ELSE IsFunSatisfied(f, api_sequences[n])} :
            /\ api_sequences' = api_sequences \o SetToSeq(new)
            /\ api_functions_visited' =
                 api_functions_visited \cup (IF new = {} THEN {} ELSE {f})
       /\ todo' = todo \ {<<n, f>>}
  /\ UNCHANGED <<algorithm, pc, len>>

NextLen ==
  /\ pc = "extend" /\ todo = {}
  /\ len' = len + 1
  /\ pc' = "collect"
  /\ UNCHANGED <<algorithm, todo, api_sequences, api_functions_visited>>

Finish ==
  /\ pc = "collect" /\ len >= MaxLen
  /\ pc' = AfterBfs
  /\ UNCHANGED <<algorithm, len, todo, api_sequences, api_functions_visited>>

BfsNext ==
  \/ Start
  \/ Collect
  \/ Extend
  \/ NextLen
  \/ Finish

-----------------------------------------------------------------------------
MayBeExtended(s) ==
  Len(s.functions) < MaxLen /\ ~(stop_at_end_function /\ IsSequenceEnded(s))

\* What is_fun_satisfied returns for sequences of the set that may be extended.
Extensions(sequences) ==
  UNION {IsFunSatisfied(f, s) : f \in Funs, s \in {t \in sequences : MayBeExtended(t)}}

\* The search repeats nothing and invents nothing, although every round reads
\* the list that it appends to: each sequence of the list is there once and is
\* the extension of another one.  It is exhaustive: no extension is missing or,
\* in the fast mode, none whose last call is one of an unvisited function.  That
\* mode appends no function twice, over all rounds.
Exhaustive ==
  pc = AfterBfs /\ ByBfs /\ MaxLen > 0 =>
    /\ Len(api_sequences) = Cardinality(Range(api_sequences))
    /\ \E extensions \in {Extensions(Range(api_sequences))} :
         /\ Range(api_sequences) \subseteq {NewSequence} \cup extensions
         /\ \A s \in extensions \ Range(api_sequences) :
              fast_mode /\ Last(s.functions).func \in api_functions_visited
    /\ \A m, n \in DOMAIN api_sequences :
         /\ fast_mode /\ m # n
         /\ api_sequences[m].functions # <<>> /\ api_sequences[n].functions # <<>>
         => Last(api_sequences[m].functions).func # Last(api_sequences[n].functions).func

=============================================================================
