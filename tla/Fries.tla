-------------------------------- MODULE Fries --------------------------------
(***************************************************************************)
(* ApiGraph::my_method (api_graph.rs), the generation algorithm that the   *)
(* driver in context.rs runs: max_num sequences of max_len calls, each     *)
(* grown from a start function by random draws.                            *)
(*                                                                         *)
(* The corpus files only change the weights of the draws.  Every weight is *)
(* at least 0.05, so each entry of a successor table can be drawn, whether *)
(* or not its function is covered already (the code draws at most three    *)
(* times to avoid one that is).  A draw whose function is_fun_satisfied    *)
(* refuses changes nothing and is repeated: it is a stuttering step here.  *)
(***************************************************************************)
EXTENDS ApiGraph, SequenceRules

CONSTANTS
  MaxNum,                 \* max_num of the driver
  MaxLen                  \* max_len of the driver

ASSUME BoundsAssumption == MaxNum \in Nat /\ MaxLen \in Nat

VARIABLES
  pc,                     \* where the two nested loops are
  sequences,              \* the finished sequences
  sequence,               \* the one being grown
  need_new,               \* nothing is left to use: a start function is due
  start_index_polling,    \* position in _start_functions, from 0
  covered_function,       \* functions that some sequence calls
  api_sequences,          \* the graph's field, assigned at the end
  api_functions_visited   \* the functions the graph has marked as visited

vars == <<pc, sequences, sequence, need_new, start_index_polling,
          covered_function, api_sequences, api_functions_visited>>

-----------------------------------------------------------------------------
\* construct_function_succ_table: the functions that take f's result.
SuccTable(f) ==
  {api_dependencies[d].input_fun :
     d \in {e \in DOMAIN api_dependencies : api_dependencies[e].output_fun = f}}

\* _get_available_function_indexs: functions with successors whose result is
\* not moved.
Available(s) ==
  {s.functions[c].func :
     c \in {k \in DOMAIN s.functions :
              k \notin s.moved /\ SuccTable(s.functions[k].func) # {}}}

\* Mutant: it wraps around one start function too early.
NextPollingShort ==
  IF start_index_polling + 2 >= Len(StartFunctions) THEN 0
  ELSE start_index_polling + 1

\* start_index_polling after its increment.
NextPolling ==
  IF start_index_polling + 1 >= Len(StartFunctions) THEN 0
  ELSE start_index_polling + 1

-----------------------------------------------------------------------------
Init ==
  /\ pc = "outer"
  /\ sequences = <<>>
  /\ sequence = NewSequence
  /\ need_new = FALSE
  /\ start_index_polling = 0
  /\ covered_function = {}
  /\ api_sequences = <<>>
  /\ api_functions_visited = {}

\* Mutant: one sequence more than asked for.
NewTurnOneMore ==
  /\ pc = "outer"
  /\ Len(sequences) <= MaxNum
  /\ sequence' = NewSequence
  /\ need_new' = FALSE
  /\ start_index_polling' = NextPolling
  /\ pc' = IF StartFunctions = <<>> THEN "panicked" ELSE "first"
  /\ UNCHANGED <<sequences, covered_function, api_sequences, api_functions_visited>>

\* Mutant: the moved results of the last sequence carry over.
NewTurnStaleMoves ==
  /\ pc = "outer"
  /\ Len(sequences) < MaxNum
  /\ sequence' = [NewSequence EXCEPT !.moved = sequence.moved]
  /\ need_new' = FALSE
  /\ start_index_polling' = NextPolling
  /\ pc' = IF StartFunctions = <<>> THEN "panicked" ELSE "first"
  /\ UNCHANGED <<sequences, covered_function, api_sequences, api_functions_visited>>

\* A fresh sequence, and the next start function in turn.  Without any start
\* function _start_functions[0] is out of bounds and the program panics.
NewTurn ==
  /\ pc = "outer"
  /\ Len(sequences) < MaxNum
  /\ sequence' = NewSequence
  /\ need_new' = FALSE
  /\ start_index_polling' = NextPolling
  /\ pc' = IF StartFunctions = <<>> THEN "panicked" ELSE "first"
  /\ UNCHANGED <<sequences, covered_function, api_sequences, api_functions_visited>>

\* f is appended to the sequence and counted.
Grow(f) ==
  /\ sequence' \in IsFunSatisfied(f, sequence)
  /\ covered_function' = covered_function \cup {f}
  /\ UNCHANGED <<sequences, start_index_polling, api_sequences, api_functions_visited>>

Polled == StartFunctions[start_index_polling + 1]

\* The start function whose turn it is begins the sequence, or the turn passes.
FirstCall ==
  /\ pc = "first"
  /\ \E f \in {Polled} : Grow(f)
  /\ pc' = "inner"
  /\ UNCHANGED need_new

\* Mutant: the function counts as covered before it is known to fit.
SkipTurnCovered ==
  /\ pc = "first"
  /\ IsFunSatisfied(Polled, sequence) = {}
  /\ pc' = "outer"
  /\ covered_function' = covered_function \cup {Polled}
  /\ UNCHANGED <<sequences, sequence, need_new, start_index_polling,
                 api_sequences, api_functions_visited>>

SkipTurn ==
  /\ pc = "first"
  /\ IsFunSatisfied(Polled, sequence) = {}
  /\ pc' = "outer"
  /\ UNCHANGED <<sequences, sequence, need_new, start_index_polling,
                 covered_function, api_sequences, api_functions_visited>>

Growing == pc = "inner" /\ Len(sequence.functions) < MaxLen

\* Mutant: start functions only when nothing else is available.
AddStartOnDemand ==
  /\ Growing /\ need_new
  /\ \E n \in DOMAIN StartFunctions : Grow(StartFunctions[n])
  /\ need_new' = FALSE
  /\ UNCHANGED pc

\* rand == 0 || need_new: any start function.
AddStart ==
  /\ Growing
  /\ \E n \in DOMAIN StartFunctions : Grow(StartFunctions[n])
  /\ need_new' = FALSE
  /\ UNCHANGED pc

\* A function that takes the result of a call in the sequence.
AddSuccessor ==
  /\ Growing /\ ~need_new
  /\ \E producer \in Available(sequence) :
       \E f \in SuccTable(producer) : Grow(f)
  /\ UNCHANGED <<pc, need_new>>

NothingAvailable ==
  /\ Growing /\ ~need_new
  /\ Available(sequence) = {}
  /\ need_new' = TRUE
  /\ UNCHANGED <<pc, sequences, sequence, start_index_polling,
                 covered_function, api_sequences, api_functions_visited>>

FinishSequence ==
  /\ pc = "inner"
  /\ Len(sequence.functions) >= MaxLen
  /\ sequences' = Append(sequences, sequence)
  /\ pc' = "outer"
  /\ UNCHANGED <<sequence, need_new, start_index_polling, covered_function,
                 api_sequences, api_functions_visited>>

\* The graph gets the sequences and the coverage.
Finish ==
  /\ pc = "outer"
  /\ Len(sequences) >= MaxNum
  /\ api_sequences' = sequences
  /\ api_functions_visited' = api_functions_visited \cup covered_function
  /\ pc' = "done"
  /\ UNCHANGED <<sequences, sequence, need_new, start_index_polling, covered_function>>

Terminating == pc \in {"done", "panicked"} /\ UNCHANGED vars

Next ==
  \/ NewTurn
  \/ FirstCall
  \/ SkipTurn
  \/ AddStart
  \/ AddSuccessor
  \/ NothingAvailable
  \/ FinishSequence
  \/ Finish
  \/ Terminating

\* The loops run until they break, and a draw that can succeed is repeated
\* until it does: the random numbers are independent.
Spec == Init /\ [][Next]_vars /\ WF_vars(Next)

-----------------------------------------------------------------------------
ContainedIn(seqs) == UNION {Contained(seqs[n]) : n \in DOMAIN seqs}

\* What the algorithm delivers: max_num sequences that all have max_len calls
\* (or one, if max_len is 0), although draws fail and turns are skipped.
DeliversRequestedSequences ==
  pc = "done" =>
    /\ Len(api_sequences) = MaxNum
    /\ \A n \in DOMAIN api_sequences :
         Len(api_sequences[n].functions) = IF MaxLen = 0 THEN 1 ELSE MaxLen

\* The functions reported as covered are those the sequences call: no call
\* that is_fun_satisfied refused and no call of an abandoned sequence counts.
CoverageIsReal ==
  /\ covered_function = ContainedIn(sequences) \cup
       (IF pc = "inner" THEN Contained(sequence) ELSE {})
  /\ pc = "done" => api_functions_visited = ContainedIn(api_sequences)

\* Polling gives every start function its turn: as many finished sequences as
\* there are functions that can begin one begin with all of them, and a
\* function begins a second one only after all others had their turn.
StartsTakeTurns ==
  \A n \in DOMAIN sequences : \A m \in (n + 1)..Len(sequences) :
    m - n < Cardinality(Startable) =>
      sequences[n].functions[1].func # sequences[m].functions[1].func

\* The random growth keeps to the ownership discipline: a call of a sequence
\* uses results that exist and are not moved, through all turns.
Rust == INSTANCE Ownership WITH
          produced <- Len(sequence.functions),
          gone     <- sequence.moved,
          used     <- UsedByLast(sequence)

ImplementsOwnership == Rust!Spec

\* The generation ends, if one start function can begin a sequence: failed
\* draws, skipped turns and sequences in which nothing can be used any more
\* never keep it from reaching max_num sequences.
Termination == Startable # {} => <>(pc = "done")

=============================================================================
