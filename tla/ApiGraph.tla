------------------------------- MODULE ApiGraph -------------------------------
(***************************************************************************)
(* api_graph.rs: what the generation algorithms ask of the graph, besides  *)
(* is_fun_satisfied.                                                       *)
(***************************************************************************)
EXTENDS ApiSequence

\* is_sequence_ended: the last call is one of an end function.
IsSequenceEnded(s) ==
  /\ s.functions # <<>>
  /\ IsEndFunction(api_functions[Last(s.functions).func])

\* extract_start_function
StartFunctions ==
  LET found[f \in 0..Len(api_functions)] ==
        IF f = 0 THEN <<>>
        ELSE IF IsStartFunction(api_functions[f]) THEN Append(found[f - 1], f)
        ELSE found[f - 1]
  IN  found[Len(api_functions)]

-----------------------------------------------------------------------------
(* Used to state properties. *)

\* The functions a sequence calls.
Contained(s) == {s.functions[c].func : c \in DOMAIN s.functions}

\* The start functions that can begin a sequence.
Startable ==
  {f \in Funs : IsStartFunction(api_functions[f]) /\ IsFunSatisfied(f, NewSequence) # {}}

\* Only the last call of a sequence is one of an end function.
EndsAtEndFunction(s) ==
  \A c \in DOMAIN s.functions :
    IsEndFunction(api_functions[s.functions[c].func]) => c = Len(s.functions)

=============================================================================
