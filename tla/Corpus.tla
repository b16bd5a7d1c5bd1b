--------------------------------- MODULE Corpus ---------------------------------
(***************************************************************************)
(* What is learnt from a program that uses the tested library: which local *)
(* depends on which in the bodies of its functions (extract_dep.rs), and   *)
(* which functions of the library it calls, in which order and on whose    *)
(* results (extract_info.rs).                                              *)
(*                                                                         *)
(* A body is what the two modules see of its MIR: locals 0.. (the result,  *)
(* the arguments, the rest), constants numbered after them, assigns        *)
(* <<l, d>> (an assignment to l reads d), and the call terminators in the  *)
(* order of the visit.  A call stores into its destination, which is no    *)
(* assignment: a result does not depend on the arguments of its call.      *)
(***************************************************************************)
EXTENDS Naturals, Sequences, FiniteSets, SequencesExt

CONSTANTS
  Corpora,              \* programs: functions from names to bodies
  TestedCrate,          \* the one of them that is the tested library itself
  Apis,                 \* functions whose path begins with the library's name
  PrimitiveArgs,        \* callees all of whose arguments are primitive
  PrimitiveReturn       \* callees that return a primitive type

Locals(body) == 0..(body.locals - 1)
Ids(body) == 0..(body.locals + body.constants - 1)

ASSUME CorporaAssumption ==
  \A corpus \in Corpora : \A f \in DOMAIN corpus :
    /\ corpus[f].locals \in Nat \ {0}
    /\ corpus[f].constants \in Nat
    /\ corpus[f].assigns \subseteq Locals(corpus[f]) \X Ids(corpus[f])
    /\ corpus[f].arg_count \in Nat
    /\ Len(corpus[f].calls) \in Nat
    /\ DOMAIN corpus[f].calls = 1..Len(corpus[f].calls)
    /\ \A n \in DOMAIN corpus[f].calls :
         /\ corpus[f].calls[n].direct \in BOOLEAN
         /\ corpus[f].calls[n].destination \in Locals(corpus[f])

VARIABLES
  pc,
  corpus,               \* the program
  to_compute,           \* functions whose dependencies are not computed yet
  caller,               \* the function they are computed for
  dependencies,         \* per local of its body: what it depends on
  index,                \* the row being propagated,
  idx,                  \*   the other row to look at next
  previous_iteration,   \*   and the row before this pass
  callee_dependencies,  \* per function: its calls and the sources of arguments
  starts,               \* functions extract_sequence has not started from
  stack,
  func_seq,
  visit_set,
  all_sequences,
  info_left,            \* functions extract_info has not looked at
  dependencies_info,    \* pairs: how often the first's result goes to the second
  order_info,           \* pairs of calls that follow each other
  function_info,        \* per function of the library: how often it is called
  printed               \* the files written

propagateVars == <<caller, dependencies, index, idx, previous_iteration>>
sequenceVars == <<starts, stack, func_seq, visit_set, all_sequences>>
infoVars == <<info_left, dependencies_info, order_info, function_info>>
vars == <<pc, corpus, to_compute, propagateVars, callee_dependencies,
          sequenceVars, infoVars, printed>>

Body == corpus[caller]

Init ==
  /\ pc = "compute"
  /\ corpus \in Corpora
  /\ to_compute = DOMAIN corpus
  /\ caller \in DOMAIN corpus
  /\ dependencies = <<>> /\ index = 0 /\ idx = 0 /\ previous_iteration = {}
  /\ callee_dependencies = <<>>
  /\ starts = DOMAIN corpus
  /\ stack = <<>> /\ func_seq = <<>> /\ visit_set = {} /\ all_sequences = <<>>
  /\ info_left = DOMAIN corpus
  /\ dependencies_info = <<>> /\ order_info = {} /\ function_info = <<>>
  /\ printed = <<>>

-----------------------------------------------------------------------------
(* LocalDependencies::compute *)

\* direct_dependencies: every local depends on itself, and on what is assigned
\* to it.  The propagation begins with the first row.
DirectDependencies(f) ==
  /\ pc = "compute" /\ f \in to_compute
  /\ to_compute' = to_compute \ {f}
  /\ caller' = f
  /\ \E body \in {corpus[f]} :
       dependencies' = [l \in Locals(body) |->
                          {l} \cup {d \in Ids(body) : <<l, d>> \in body.assigns}]
  /\ index' = 0 /\ idx' = 0
  /\ previous_iteration' = dependencies'[0]
  /\ pc' = "propagate"
  /\ UNCHANGED <<corpus, callee_dependencies, sequenceVars, infoVars, printed>>

\* if deps1[idx] { deps1.or(deps2); }, for another row idx.
OrRow ==
  /\ pc = "propagate" /\ idx < Body.locals
  /\ dependencies' =
       IF idx # index /\ idx \in dependencies[index]
       THEN [dependencies EXCEPT ![index] = @ \cup dependencies[idx]]
       ELSE dependencies
  /\ idx' = idx + 1
  /\ UNCHANGED <<pc, corpus, to_compute, caller, index, previous_iteration,
                 callee_dependencies, sequenceVars, infoVars, printed>>

\* Mutant: one pass over the other rows has to do.
StableAtOnce == TRUE

\* Mutant: the row before the pass is cleared, and not copied.
StableIfEmpty == dependencies[index] = {}

Stable == dependencies[index] = previous_iteration

\* The row has changed: another pass.
PassAgain ==
  /\ pc = "propagate" /\ idx = Body.locals /\ ~Stable
  /\ idx' = 0
  /\ previous_iteration' = dependencies[index]
  /\ UNCHANGED <<pc, corpus, to_compute, caller, dependencies, index,
                 callee_dependencies, sequenceVars, infoVars, printed>>

\* A stable point: the next row, if there is one.
NextRow ==
  /\ pc = "propagate" /\ idx = Body.locals /\ Stable
  /\ IF index + 1 < Body.locals
     THEN /\ index' = index + 1 /\ idx' = 0
          /\ previous_iteration' = dependencies[index + 1]
          /\ pc' = "propagate"
     ELSE /\ pc' = "origins"
          /\ UNCHANGED <<index, idx, previous_iteration>>
  /\ UNCHANGED <<corpus, to_compute, caller, dependencies,
                 callee_dependencies, sequenceVars, infoVars, printed>>

-----------------------------------------------------------------------------
(* extract_all_dependencies *)

\* Mutant: any call that stores into the local will do, not only the first.
StoringCallLast(local) ==
  LET calls == {n \in DOMAIN Body.calls : Body.calls[n].destination = local}
  IN  {Body.calls[n] : n \in {m \in calls : \A k \in calls : k <= m}}

\* callsites.iter().find(return_variable == local)
StoringCall(local) ==
  LET calls == {n \in DOMAIN Body.calls : Body.calls[n].destination = local}
  IN  {Body.calls[n] : n \in {m \in calls : \A k \in calls : m <= k}}

\* A call to a function pointer counts as the argument that holds it.
SourceOfCall(call) ==
  IF call.direct THEN {<<"ReturnVariable", call.callee>>}
  ELSE IF call.callee <= Body.arg_count THEN {<<"Argument", call.callee>>}
  ELSE {}

\* Where a dependency comes from; <<d, source>>, since one source may be found
\* through several dependencies.
Sources(d) ==
  IF d = 0 THEN {<<"ReturnVariable", caller>>}
  ELSE IF d <= Body.arg_count THEN {<<"Argument", d>>}
  ELSE IF d < Body.locals THEN UNION {SourceOfCall(call) : call \in StoringCall(d)}
  ELSE IF d \in Body.callables THEN {<<"FunctionId", d>>}
  ELSE {}

GetOrigins(l) == UNION {{<<d, s>> : s \in Sources(d)} : d \in dependencies[l]}

\* An argument is a local or a constant.
ArgSources(arg) ==
  IF arg \in Locals(Body) THEN GetOrigins(arg)
  ELSE {<<arg, <<"FunctionId", arg>>>> : a \in {arg} \cap Body.callables}

\* The calls of a body, with the sources of their arguments.  Nothing more is
\* learnt from the tested library itself, whose functions may be private.
CalleeDependencies ==
  /\ pc = "origins"
  /\ callee_dependencies' =
       [f \in DOMAIN callee_dependencies \cup {caller} |->
          IF f # caller THEN callee_dependencies[f]
          ELSE [n \in DOMAIN Body.calls |->
                  [direct      |-> Body.calls[n].direct,
                   callee      |-> Body.calls[n].callee,
                   arg_sources |-> [i \in DOMAIN Body.calls[n].arguments |->
                                      ArgSources(Body.calls[n].arguments[i])]]]]
  /\ pc' = IF to_compute # {} THEN "compute"
           ELSE IF corpus = TestedCrate THEN "print" ELSE "sequence"
  /\ UNCHANGED <<corpus, to_compute, propagateVars, sequenceVars, infoVars, printed>>

-----------------------------------------------------------------------------
(* ExtractInfo::extract_sequence *)

Flush(seq) == IF seq = <<>> THEN <<>> ELSE <<seq>>

\* The search starts from every function, in the order of a hash map.
StartFrom(f) ==
  /\ pc = "sequence" /\ stack = <<>> /\ func_seq = <<>> /\ f \in starts
  /\ starts' = starts \ {f}
  /\ stack' = <<f>>
  /\ UNCHANGED <<pc, corpus, to_compute, propagateVars, callee_dependencies,
                 func_seq, visit_set, all_sequences, infoVars, printed>>

\* A function of the program, not visited yet.
Pushes(f, visited) == f \in DOMAIN corpus /\ f \notin visited

\* Mutant: a call with primitive arguments does not start a new sequence.
BeginsNever(call) == FALSE

\* All arguments are primitive: a new sequence begins.
Begins(call) == call.callee \in PrimitiveArgs

\* One call: st holds the sequences, the current one and the stack.  A function
\* of the program whose path begins with the library's name is one of the
\* library's here, and never stacked.
AddCall(st, call, visited) ==
  IF ~call.direct THEN st
  ELSE LET begun == IF Begins(call)
                    THEN [st EXCEPT !.all = @ \o Flush(st.seq), !.seq = <<>>]
                    ELSE st
           added == Append(begun.seq, call.callee)
       IN  IF call.callee \in Apis
           THEN IF call.callee \in PrimitiveReturn
                THEN [begun EXCEPT !.all = Append(@, added), !.seq = <<>>]
                ELSE [begun EXCEPT !.seq = added]
           ELSE IF Pushes(call.callee, visited)
                THEN [begun EXCEPT !.stack = Append(@, call.callee)]
                ELSE begun

\* After the first n calls.
AddCalls(st, calls, visited) ==
  LET after[n \in 0..Len(calls)] ==
        IF n = 0 THEN st ELSE AddCall(after[n - 1], calls[n], visited)
  IN  after

\* The function on top of the stack is taken, and its calls gone through.
Pop ==
  /\ pc = "sequence" /\ stack # <<>>
  /\ visit_set' = visit_set \cup {Last(stack)}
  /\ \E calls \in {callee_dependencies[Last(stack)]},
        st \in {[all |-> all_sequences, seq |-> func_seq, stack |-> Front(stack)]} :
       \E after \in {AddCalls(st, calls, visit_set')[Len(calls)]} :
         all_sequences' = after.all /\ func_seq' = after.seq /\ stack' = after.stack
  /\ UNCHANGED <<pc, corpus, to_compute, propagateVars, callee_dependencies,
                 starts, infoVars, printed>>

\* The search is over; what is left is a sequence.
EndSearch ==
  /\ pc = "sequence" /\ stack = <<>> /\ func_seq # <<>>
  /\ all_sequences' = Append(all_sequences, func_seq)
  /\ func_seq' = <<>>
  /\ UNCHANGED <<pc, corpus, to_compute, propagateVars, callee_dependencies,
                 starts, stack, visit_set, infoVars, printed>>

SequencesDone ==
  /\ pc = "sequence" /\ stack = <<>> /\ func_seq = <<>> /\ starts = {}
  /\ pc' = "info"
  /\ UNCHANGED <<corpus, to_compute, propagateVars, callee_dependencies,
                 sequenceVars, infoVars, printed>>

-----------------------------------------------------------------------------
(* ExtractInfo::extract_info *)

\* A direct call of the library.
IsApiCall(call) == call.direct /\ call.callee \in Apis

\* Mutant: a counter that is there is not increased.
CountedOnce(counters, occurrences) ==
  [key \in DOMAIN counters \cup {o[1] : o \in occurrences} |->
     IF key \in DOMAIN counters THEN counters[key]
     ELSE Cardinality({o \in occurrences : o[1] = key})]

\* Counters increased by occurrences <<key, place>>.
Counted(counters, occurrences) ==
  [key \in DOMAIN counters \cup {o[1] : o \in occurrences} |->
     (IF key \in DOMAIN counters THEN counters[key] ELSE 0)
     + Cardinality({o \in occurrences : o[1] = key})]

\* A result of the library that the n-th call has for an argument: the pair of
\* functions, and where it was found.
Pairs(calls, n) ==
  UNION {{<<<<o[2][2], calls[n].callee>>, <<n, i, o[1]>>>> :
            o \in {x \in calls[n].arg_sources[i] :
                     x[2][1] = "ReturnVariable" /\ x[2][2] \in Apis}} :
         i \in DOMAIN calls[n].arg_sources}

\* The functions of the program, in the order of a hash map.
LookAt(f) ==
  /\ pc = "info" /\ f \in info_left
  /\ info_left' = info_left \ {f}
  /\ LET calls == callee_dependencies[f]
         order_sequence == SelectSeq(calls, IsApiCall)
         places == {n \in DOMAIN calls : IsApiCall(calls[n])}
     IN  /\ order_info' = order_info \cup
              {<<order_sequence[n].callee, order_sequence[n + 1].callee>> :
                 n \in 1..(Len(order_sequence) - 1)}
         /\ function_info' = Counted(function_info, {<<calls[n].callee, n>> : n \in places})
         /\ dependencies_info' =
              Counted(dependencies_info, UNION {Pairs(calls, n) : n \in places})
  /\ UNCHANGED <<pc, corpus, to_compute, propagateVars, callee_dependencies,
                 sequenceVars, printed>>

InfoDone ==
  /\ pc = "info" /\ info_left = {}
  /\ pc' = "print"
  /\ UNCHANGED <<corpus, to_compute, propagateVars, callee_dependencies,
                 sequenceVars, infoVars, printed>>

\* The four files, one after the other, each opened for appending.
PrintFile ==
  /\ pc = "print"
  /\ printed' = Append(printed,
       <<all_sequences, dependencies_info, order_info, function_info>>[Len(printed) + 1])
  /\ pc' = IF Len(printed) < 3 THEN "print" ELSE "done"
  /\ UNCHANGED <<corpus, to_compute, propagateVars, callee_dependencies,
                 sequenceVars, infoVars>>

\* A file cannot be opened, or written to.
PrintPanics ==
  /\ pc = "print"
  /\ pc' = "panicked"
  /\ UNCHANGED <<corpus, to_compute, propagateVars, callee_dependencies,
                 sequenceVars, infoVars, printed>>

Terminating == pc \in {"done", "panicked"} /\ UNCHANGED vars

Work ==
  \/ \E f \in DOMAIN corpus : DirectDependencies(f)
  \/ OrRow
  \/ PassAgain
  \/ NextRow
  \/ CalleeDependencies
  \/ \E f \in DOMAIN corpus : StartFrom(f)
  \/ Pop
  \/ EndSearch
  \/ SequencesDone
  \/ \E f \in DOMAIN corpus : LookAt(f)
  \/ InfoDone
  \/ PrintFile

Next == Work \/ PrintPanics \/ Terminating

\* The program runs on until it ends.
Fairness == WF_vars(Work)

Spec == Init /\ [][Next]_vars /\ Fairness

-----------------------------------------------------------------------------
\* A set of locals and constants of the body that holds all that is assigned to
\* its locals.
Closed(S) ==
  \A l \in S \cap Locals(Body) : \A d \in Ids(Body) : <<l, d>> \in Body.assigns => d \in S

\* The propagation, which changes the rows it reads and goes over each of them
\* only until that one is stable, ends with the least closed sets: a local has
\* all its indirect dependencies, and no others.
PropagatedIsClosure ==
  pc = "origins" =>
    \A l \in Locals(Body) :
      /\ l \in dependencies[l] /\ Closed(dependencies[l])
      /\ \A S \in SUBSET Ids(Body) : l \in S /\ Closed(S) => dependencies[l] \subseteq S

\* Wherever the search starts, and whatever functions it goes through, only the
\* first call of a sequence can do without the others (its arguments are all
\* primitive), and only the last has a result the others cannot use.
SequencesDelimited ==
  \A n \in DOMAIN all_sequences :
    LET s == all_sequences[n]
    IN  /\ s # <<>>
        /\ \A k \in DOMAIN s : (k > 1 => s[k] \notin PrimitiveArgs)
                            /\ (k < Len(s) => s[k] \notin PrimitiveReturn)

\* What the value of a local may come from, by assignments: it is in every set
\* that holds the local and all that is assigned to a local of the set.
ComesFrom(body, l) ==
  {d \in Ids(body) :
     \A S \in SUBSET Ids(body) :
       l \in S /\ (\A a \in body.assigns : a[1] \in S => a[2] \in S) => d \in S}

\* In the body the result of the m-th call reaches an argument of the n-th.
Flows(body, m, n) ==
  \E i \in DOMAIN body.calls[n].arguments :
    body.calls[n].arguments[i] \in Locals(body)
    /\ body.calls[m].destination \in ComesFrom(body, body.calls[n].arguments[i])

\* The call is the first in its body to store into that local, and the local
\* holds neither the result nor an argument of the body.
Found(body, m) ==
  /\ body.calls[m].destination > body.arg_count
  /\ \A k \in 1..(m - 1) : body.calls[k].destination # body.calls[m].destination

\* The direct calls of an api in the program, by function and position.
CallsOf(api) ==
  UNION {{<<f, n>> : n \in {k \in DOMAIN corpus[f].calls :
            corpus[f].calls[k].direct /\ corpus[f].calls[k].callee = api}} :
         f \in DOMAIN corpus}

\* What the body will return reaches an argument of its n-th call.
OwnResultFlows(body, n) ==
  \E i \in DOMAIN body.calls[n].arguments :
    body.calls[n].arguments[i] \in Locals(body)
    /\ 0 \in ComesFrom(body, body.calls[n].arguments[i])

\* The pairs counted are those of functions of the library the result of one of
\* which reaches the other; a flow is missed only if another call in the text
\* stores into the same variable first, or the variable holds the result or an
\* argument of the body.  The variable of the result counts as a result of the
\* body's own function, if that passes for one of the library.
DependenciesAreFlows ==
  pc = "print" /\ corpus # TestedCrate =>
    \A pre, succ \in Apis :
      <<pre, succ>> \in DOMAIN dependencies_info <=>
        \/ \E p \in CallsOf(pre), s \in CallsOf(succ) :
             /\ p[1] = s[1]
             /\ Flows(corpus[p[1]], p[2], s[2])
             /\ Found(corpus[p[1]], p[2])
        \/ \E s \in CallsOf(succ) : s[1] = pre /\ OwnResultFlows(corpus[pre], s[2])

\* Where an api is in the sequences.
OccurrencesOf(api) ==
  UNION {{<<n, k>> : k \in {j \in DOMAIN all_sequences[n] : all_sequences[n][j] = api}} :
         n \in DOMAIN all_sequences}

\* Whatever the order of the hash map, every call of the library in the program
\* is counted once, and the sequences hold a function of the library at least as
\* often as the program calls it, and none that it does not call.
EveryCallCounted ==
  pc = "print" /\ corpus # TestedCrate =>
    \A api \in Apis : \E calls \in {Cardinality(CallsOf(api))} :
      /\ (api \in DOMAIN function_info) = (calls > 0)
      /\ calls > 0 => function_info[api] = calls
      /\ Cardinality(OccurrencesOf(api)) >= calls
      /\ calls = 0 => OccurrencesOf(api) = {}

\* The search ends, whatever functions call each other, and so does the rest.
Termination == <>(pc \in {"done", "panicked"})

=============================================================================
