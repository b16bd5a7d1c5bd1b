------------------------------ MODULE RandomWalk ------------------------------
(***************************************************************************)
(* ApiGraph::random_walk (api_graph.rs): a sequence drawn from those found *)
(* so far is extended with a function drawn from all functions, until      *)
(* enough sequences have max_len calls.                                    *)
(*                                                                         *)
(* The vector of sequences is the set of its elements: which of them are   *)
(* in it more than once only changes the odds of a draw.  A draw that      *)
(* finds nothing new is a stuttering step, unless it counts.               *)
(***************************************************************************)
EXTENDS ApiGraph

CONSTANTS
  MaxSize,                \* max_size: how many sequences are asked for
  WalkLen                 \* max_len, where generate_all_possoble_sequences sets one

ASSUME BoundsAssumption == MaxSize \in Nat /\ WalkLen \in Nat

VARIABLES
  stop_at_end_function,   \* the argument that chooses the mode
  pc,
  seq_num,                \* sequences of at least max_len calls found so far
  api_sequences,          \* the fields of the graph
  api_functions_visited

walk_vars == <<stop_at_end_function, pc, seq_num, api_sequences, api_functions_visited>>

\* _RandomWalkEndPoint passes a max_len of 0.
max_len == IF stop_at_end_function THEN 0 ELSE WalkLen

-----------------------------------------------------------------------------
WalkInit ==
  /\ stop_at_end_function \in BOOLEAN
  /\ pc = "start"
  /\ seq_num = 0
  /\ api_sequences = {}
  /\ api_functions_visited = {}

\* Without functions there is nothing to walk on.
Start ==
  /\ pc = "start"
  /\ api_functions_visited' = {}
  /\ IF Funs = {}
     THEN pc' = "done" /\ api_sequences' = {}
     ELSE pc' = "loop" /\ api_sequences' = {NewSequence}
  /\ UNCHANGED <<stop_at_end_function, seq_num>>

\* Mutant: only sequences that count are kept.
FoundKeepsLong(new) ==
  /\ api_sequences' =
       api_sequences \cup (IF Len(new.functions) >= max_len THEN {new} ELSE {})
  /\ seq_num' = seq_num + (IF Len(new.functions) >= max_len THEN 1 ELSE 0)
  /\ pc' = IF seq_num' > MaxSize THEN "done" ELSE "loop"

\* A new sequence is kept; the walk ends with the one that is one too many.
Found(new) ==
  /\ api_sequences' = api_sequences \cup {new}
  /\ seq_num' = seq_num + (IF Len(new.functions) >= max_len THEN 1 ELSE 0)
  /\ pc' = IF seq_num' > MaxSize THEN "done" ELSE "loop"

\* Mutant: sequences that have ended are extended, too.
DrawEnded ==
  /\ pc = "loop"
  /\ \E s \in api_sequences : \E f \in Funs : \E new \in IsFunSatisfied(f, s) :
       /\ Found(new)
       /\ api_functions_visited' = api_functions_visited \cup {f}
  /\ UNCHANGED stop_at_end_function

Draw ==
  /\ pc = "loop"
  /\ \E s \in api_sequences : \E f \in Funs :
       /\ ~(stop_at_end_function /\ IsSequenceEnded(s))
       /\ \E new \in IsFunSatisfied(f, s) :
            /\ Found(new)
            /\ api_functions_visited' = api_functions_visited \cup {f}
  /\ UNCHANGED stop_at_end_function

Terminating == pc = "done" /\ UNCHANGED walk_vars

WalkNext ==
  \/ Start
  \/ Draw
  \/ Terminating

\* The loop goes on, and draws that find something new come up eventually: the
\* random numbers are independent and every draw is possible.
WalkSpec == WalkInit /\ [][WalkNext]_walk_vars /\ WF_walk_vars(WalkNext)

-----------------------------------------------------------------------------
\* The sequence before its last call was made.
IsExtension(new, s) ==
  /\ Len(new.functions) = Len(s.functions) + 1
  /\ SubSeq(new.functions, 1, Len(s.functions)) = s.functions
  /\ s.moved \subseteq new.moved
  /\ s.covered_dependencies \subseteq new.covered_dependencies

\* The walk keeps what it built on: every sequence but the empty one extends
\* another one of the set, and in the mode that stops at end functions never
\* one that had ended.
BuiltOnOthers ==
  \A new \in api_sequences :
    /\ new.functions # <<>> => \E s \in api_sequences : IsExtension(new, s)
    /\ stop_at_end_function => EndsAtEndFunction(new)

\* If some function can begin a sequence, the walk finds as many sequences as
\* it was asked for, in both modes: an ended or used-up sequence never is the
\* only one left to draw.
Termination == Startable # {} => <>(pc = "done")

=============================================================================
