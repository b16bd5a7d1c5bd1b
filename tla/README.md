# FRIES in TLA+

FRIES generates fuzz targets for Rust libraries. It lives inside a patched
rustdoc, in `src/librustdoc/fuzz_targets_gen/`: rustdoc hands it the public
functions of a crate, it builds a graph of which function's result can be an
argument of which function, grows random *call sequences* from that graph and
writes each sequence as a test program that decodes the bytes of a fuzzer into
arguments. A test is only of use if rustc accepts it, so the generator has to
track, without a compiler, what Rust's ownership rules allow.

The rest of the repository, by far the most of its lines, is the Rust compiler
and is not modelled.

## Inventory

| Component | State | Operations | Interacts with | Hard because |
|---|---|---|---|---|
| Type conversions (`call_type.rs`, `api_util.rs`, `prelude_type.rs`) | none | is one type convertible into another and how (`CallType`), does passing it move or borrow | asked by graph construction and by every extension of a sequence; its answers are written out as text | nested types; the order of conversions |
| Fuzzable types (`fuzz_type.rs`) | none | which parameters are decoded from the input, as what, of what length | graph construction, extension, input layout | fixed and dynamic lengths in tuples |
| Crate traversal, impl resolution, module visibility (`context.rs`, `impl_util.rs`, `mod_visibility.rs`) | module tree, declared and resolved visibility, full names | depth-first walk, rounds over a hash map, filters | feed graph construction | order of hash maps; paths compared as strings |
| Graph construction (`api_graph.rs`, `api_function.rs`) | `api_functions`, `api_dependencies`, rejected functions | `add_api_function`, filters, `find_all_dependencies` | filled by the crate traversal, read by all generators | two tests of the same types in different places |
| Appending a call (`is_fun_satisfied`) | an `ApiSequence`: calls, decoded variables, moved results, `careful_pairs`, marks, covered edges; the sets of the running call | one decision per parameter | used by all generators | rules over several calls and over the arguments of one call |
| Generators (`my_method`, `bfs`, `random_walk`, `_try_deep_bfs`, `_try_to_cover_unvisited_nodes`) | finished sequences, current one, coverage, poll position, rounds left | rounds and random draws | `is_fun_satisfied`, merging; assign `api_sequences` | do they end, what do they deliver, limits |
| Merging and choosing (`_merge_another_sequence`, `_heuristic_choose`, `_first_choose`) | sequences, cover sets, pass of the choice | shift indexes, greedy cover | between generation and output | indexes of two sequences; two passes over shared sets |
| Test writer and input layout (`api_sequence.rs`, `afl_util.rs`) | none at generation; at run time the position in the input | length check, decoding, call of the test function | reads a finished sequence | integer division of the input, many nested types, sign extension |
| File output (`file_util.rs`, `replay_util.rs`) | the directories of a strategy, the files in them, the number of the next file | choose, remove, create, write | end of the driver | panics between removal and writing, leftovers of earlier runs |
| Corpus statistics (`extract_dep.rs`, `extract_info.rs`) | dependency matrix of a body, sources of arguments, search stack, counters | propagate, search, count, print | a run of its own, when the target directory is `target`; its files weight `my_method`'s draws | matrix completed in place, cycles, recursion |

Everything runs in one thread. What is hard to test is therefore not
interleaving but long sequences of legal steps, random draws, the order of hash
maps, loops that only end with luck, limits, panics in the middle of output, and
state that is copied, shifted or carried over. `PROJECT.json` lists these hazards
at their lines, with the properties that cover them.

What makes each part correct: a sequence uses no result after an argument moved
it, its calls do not use twice what one of their arguments borrows mutably, a
reference that `is_fun_satisfied` follows is not used after its owner was moved or
mutated by a later call, and every argument is accounted for; a generator delivers what it was asked for, counts
only what is there and ends; a merged sequence is as good as its parts; a test
reads its input within bounds and no byte twice; an argument has the type of its
parameter; the graph holds only what a user of the crate can name; tests and
replay programs belong together whatever failed before; the statistics say what
the programs do.

## Modules

Positions start at 1 in TLA+, so result `k` of the code is the one of call
`k + 1` in the models. An `Option<T>` returned by the code is a set of at most
one element.

| Module | Models | Notes |
|---|---|---|
| `CallType` | `call_type.rs` | a call type is the sequence of its constructors, outermost first |
| `ApiUtil` | `api_util.rs`, `prelude_type.rs` | a type is the sequence of its constructors; `SameType` is `_same_type_hard_mode` |
| `FuzzType` | `fuzz_type.rs` | decoded variables and their lengths |
| `Dependencies` | `add_api_function`, `find_all_dependencies`, `api_function.rs` | operators from a crate to its graph |
| `CrateWalk`, `CrateWalkProofs` | `impl_util.rs`, the walk of `context.rs`, `mod_visibility.rs`, `filter_functions` | one action per impl block, item, module of a round; a path is a sequence of names; `KeptOf` is the three filters, function by function |
| `ApiSequence` | `ApiSequence`, `is_fun_satisfied`, merging, dead code | the local variables of the running call are a record, the *frame*; `Frames` are the frames after each parameter, `IsFunSatisfied` is the whole call; the types of sequences and frames |
| `SequenceRules`, `SequenceRulesProofs` | the ownership rules for one sequence | what the invariants of the generators are stated with; lemmas that `is_fun_satisfied` keeps them |
| `SequenceBuilder` | `is_fun_satisfied`, one step per parameter | state `sequence`, `frame`; actions `Begin`, `FuzzableParam`, `MoveParam`, `MutBorrowParam`, `ImmutBorrowParam`, `OtherParam`, `ReturnNone`, `ReturnSome`, `StartOver` |
| `Ownership` | abstract specification | what a Rust program may do with the values its calls return |
| `ApiGraph` | questions the generators ask of the graph | `Startable` are the start functions that `is_fun_satisfied` takes as a first call |
| `Fries`, `FriesProofs` | `my_method` with the driver's arguments | the two loops are `pc`; composes `ApiSequence` and `Dependencies` |
| `Bfs` | `bfs` in its modes | one action per extension, so that the flags a round carries are visible; the two nested loops are the set `todo` of pairs, taken in order |
| `DeepBfs` | `_try_deep_bfs` | a search without a bound on the length |
| `Backward` | `_try_to_cover_unvisited_nodes` | puts sequences together for functions that were not reached |
| `Choice` | `_heuristic_choose` | the greedy choice of fuzz targets |
| `Generation`, `GenerationProofs` | `generate_all_possoble_sequences`, `_default_generate_sequences` | composes `Bfs`, `DeepBfs`, `Backward` and `Choice`: they share `api_sequences` and `pc` |
| `RandomWalk` | `random_walk` in both modes | its definitions have names of their own (`WalkSpec`, `WalkNext`, ...), so that its proofs can share a module with those of `SequenceBuilder` |
| `SequenceBuilderProofs` | | proofs about `SequenceBuilder` and `RandomWalk` |
| `AflUtil`, `AflLayout` | `afl_util.rs`, `_afl_closure_body` | `AflLayout` runs the generated closure on an input of any length at any address and computes the values of integers, bool and char, and which bytes of its share a slice keeps (`Kept`: the middle part of `align_to`); a test with a variable that has no decoder is not built (`Reject`) |
| `Conversion` | body writer, `_to_call_string` | computes the Rust type of each expression that is written; specification `ConversionSpec` |
| `ArgumentProofs` | | proofs about `AflLayout` and `Conversion`, which share the lemmas about types |
| `FileUtil`, `FileUtilProofs` | `file_util.rs`, `_first_choose`, the end of the FRIES branch of `context.rs` | the disk outlives a run; a panic is possible at every call to the file system |
| `Corpus`, `CorpusProofs` | `extract_dep.rs`, `extract_info.rs`, the corpus branch of `context.rs` | a body is what these modules read of its MIR |
| `MC*` | crates, type sets, disks and programs for the runs | edges of a crate are what `FindAllDependencies` finds |

Abstractions. Of `Result` the ok type is kept. A tuple is a pair of equal types.
Signatures name no lifetimes and no generic parameters (the driver sets
`support_generic` to false and generic functions are dropped); of the generic types
only `Option` and `Result` are left, and where one of them is not on the outside,
as in `&Option<A>`, there is no edge (`GenericSkipped`). Of the primitive
types there is one for each decoder width the lengths distinguish. The names of
functions, the indentation and the file text are left out. In `Fries` the corpus
only changes weights of draws; every weight is at least 0.05, so every draw
remains possible, and a draw that fails is a stuttering step. The set of
sequences of `RandomWalk` forgets how often a sequence occurs, which only
changes odds. In `CrateWalk` the two lists of names that the filters hold are the
`listing` of a function, and that the string of one path starts with another's is
decided by `NamePrefixes`. The root module is named after the crate, as rustdoc
does it, so the panic "No crate mod" exists in the model and is not reached in the
instance. In `FileUtil` the file number, the target, the run and how much of the
program has been written stand for a file. As committed, the driver has
`max_num` = 100, `max_len` = 15 and `MAX_TEST_FILE_NUMBER` = 300; the proofs hold
for all values, the runs use small ones.

## Runs

Passing runs:

- `sequences` (`Sequences.cfg`): functions around a container (make, look inside,
  push, join, copy, show) and functions with decoded parameters, raw pointers, a
  borrow inside `Option`, a reference to an `Option`, an unsafe function and a
  trait; ten in the graph, and two that `add_api_function` refuses. Sequences
  of up to five calls: the shortest violation of `BorrowEndsWithOwner` by a faulty
  generator takes four (make, borrow, mutate, use), of `NoUseAfterMove` three.
  `NoUseAfterMove`, `ExclusiveMutBorrow`, `BorrowEndsWithOwner`;
  `CoversItsEdges`: what a refused extension tried is not counted as covered, what
  an argument is passed along is; `FuzzablesUsedOnce`; `RefusedForWantOfResult`:
  with the filter of the graph, the checks inside `is_fun_satisfied` never fail;
  and `ImplementsOwnership`: refinement of `Ownership`. 21,903 states.
- `fries` (`Fries.cfg`): three sequences of four calls, three start functions of
  which one can never be called, results that can be used up, so that turns are
  skipped, `need_new` is set and draws fail. `DeliversRequestedSequences`,
  `CoverageIsReal`, `StartsTakeTurns`, `ImplementsOwnership`, `Termination`.
- `generation` (`Generation.cfg`): a crate of ten functions in which some need
  more results than a search of length three makes, one can never be called and
  one has no edge. All searches, with bounds on the number of sequences that stop
  the deep one and that do not (60, 100000), and choices of one and of up to eight
  targets. `bfs` against a reference definition of the set of all sequences
  (`Exhaustive`); the deep search,
  `DeepRoundsEarnTheirKeep`; the backward search, `CoversAllItCan` and
  `NoAlgorithmError`: the comment "Should not go to here" in the code is right for
  this crate, although arguments are chosen anew in a merged sequence; merged
  sequences, `MergedObeyRules` and, of the references that are still recorded,
  `RecordedBorrowsEnd`; the choice,
  `ChoiceCoversFunctions`; and `Termination` of all of them. 12,891 states.
- `random_walk` (`RandomWalk.cfg`): five sequences of at least two calls.
  `BuiltOnOthers`, `Termination`.
- `afl_layout` (`AflLayout.cfg`): one to three variables out of twelve types,
  nested tuples, slices of tuples and a `str` without a decoder included, and all
  inputs of up to 14 bytes in three patterns around the sign bit, at an even and an
  odd address; with three variables of up to four bytes,
  lengths below, at and above the minimum all occur. `ReadsInBounds`;
  `InputPartitioned`: no byte goes into two variables, and none into no variable
  but at the ends of the share of a slice, where `align_to` cuts off what is not an
  aligned whole element; `CalledDecodersDefined`; and `IntegersFromBytes`, what
  becomes of the bytes. 292,279 states.
- `conversion` (`Conversion.cfg`): all sized types of up to three constructors as
  results, of up to four as parameters. `SplitKeepsMeaning`,
  `ArgumentHasParamType`. The last one excludes results of which two layers are
  taken off, slices whose elements need a conversion, and pointers to mut, which
  are written as `&(x) as *mut T`, a cast that rustc rejects.
- `output` (`FileUtil.cfg`): two runs over one disk, which at first is absent, a
  stray file or a directory that someone made, up to two targets out of three
  sequences, and a panic at any call, a torn file included. Two runs are enough
  for one to find what another left; the proofs are for any number. `PairsMatch`,
  `FinishedIsComplete`, `EveryTargetHasATest`. 71,090 states.
- `visibility` (`CrateWalk.cfg`): crates with modules three levels deep, public
  and private, a name that begins with another's, impl blocks with and without
  traits, a function with the path of a private module, in all orders of the hash
  maps. `ResolvedRight`, `AllResolved`, `OnlyPublicPaths`; `LostByNameOnly`: the
  filter compares strings and loses nothing but what these cannot tell apart.
  28,464 states.
- `corpus` (`Corpus.cfg`): programs with cyclic assignments, reassigned locals,
  function pointers and mutual recursion, one that has a function whose path begins
  like the library's (`LikeLibrary`; the code compares path strings), and the
  library itself. `PropagatedIsClosure`, `SequencesDelimited`;
  `DependenciesAreFlows`, in which the first call that stores into a local counts as
  its source, as in the code; `EveryCallCounted`: the counters are exact, and the
  sequences hold a function of the library at least as often as it is called (more
  often if a function is searched twice) and no other; `Termination`. 18,035
  states.

Runs that refute a comment of the code (each is a finding in `PROJECT.json`):

- `edge_coverage`: the edge of a candidate that was refused stays among the
  dependencies that are "used", when a later candidate is taken;
- `unsafe_tag`: a raw pointer dereferenced below a borrow leaves the test without
  its unsafe block;
- `slice_decoder`: slices of two element types define the slice decoder twice.

Seen while modelling, kept in the models as the code has them, and not given runs
of their own:

- the random walk collects one sequence more than `max_size`, its maximum number
  (`api_graph.rs:711`);
- of a result type of two layers the conversions nest in the wrong order
  (`api_util.rs:630`); `_need_mut_tag` misses a `&mut` below `Some`; elements of
  slices that need a conversion (`&[Option<u8>]`) are passed unconverted;
  `&mut str` and pointers to `str` become variables without a decoder, and the text
  "No helper" is written for them;
- merging drops the `careful_pairs` and covered edges of the second sequence, so
  that a reference made in it may be used after its owner has been mutated;
- signed decoders of more than one byte fill the high bytes with ones when a
  lower byte is 0x80 or above; equal shares can leave a slice of wide elements
  with less than its `_min_length`;
- a private module `k::io` hides every function of a public `k::ioutil`
  (`api_graph.rs:231`); a `return` in `_analyse_impl` drops the methods after one
  that cannot be named;
- only the first call that stores into a local counts as the source of its value,
  and a result does not depend on the arguments of its call; the extracted files
  are opened for appending, so a second run repeats their rows;
- in code nothing calls, `_naive_choose_sequence` marks the wrong index and
  `ReverseApiSequence` mixes two kinds of index.

Deadlock is checked in every run; finished programs stutter in `Terminating`.

Fairness. `Fries`, `Generation` and `RandomWalk` assume weak fairness of their
next-state relation. The code
is a single thread in a loop, so it goes on as long as a step is possible; for
random draws weak fairness of the whole next-state relation says that draws which
all could change the state do not fail forever, which independent random numbers
guarantee with probability one. No particular draw is assumed to happen.
`Termination` of `Fries` and `RandomWalk` has the condition that some start
function can be called: without one, the loops of the code never end. `Corpus`
assumes `WF_vars(Work)`, where `Work` is what the program does by itself: a panic
may happen and need not.

## Proofs

Every theorem holds for every value of the constants that satisfies the named
assumptions of its modules. About a crate they say no more than what the code
that builds the graph ensures: functions are numbered and have finitely many
parameters (`FunctionsAssumption`), edges are numbered and join functions of the
graph (`DependenciesAssumption`), no function is one that `add_api_function`
refuses (`SupportedAssumption`), bounds are natural numbers. Parameters and results
have types: constructors around a primitive type or a type of the crate
(`TypesAssumption`, `ParamTysAssumption`), and the crate does not name a type of its
own like a primitive one. Each run evaluates the assumptions on its instance.

### Appending a call

`SequenceRulesProofs` holds the lemmas all generators rest on. The rules of
`SequenceRules` speak of finished calls and cannot be carried along by
themselves: what a call appends is decided parameter by parameter before. The
lemmas carry

- `FrameInv`, of the running call: the frame's sequence agrees with the old one,
  its sets contain what its arguments did to the results, no two of its arguments
  conflict, and the variables it added are each the argument of one parameter;
- `Recorded`, of the finished calls: `moved` holds every result that an argument
  moved, and every recorded reference whose owner was moved or mutably borrowed;
- `Sound`: `Recorded` and the rules that merged sequences obey as well;
- `Tracked`: `careful_pairs` holds every pair of an owner and a reference into
  it. Growing a sequence keeps it, merging loses it.

A parameter that takes a result preserves `FrameInv` because the result is in
`Usable(frame)`; appending the call turns `FrameInv` into `Sound` and `Tracked`
for one call more. What a recursive function computes is proved by induction over
its argument, each time from the lemma that a set of naturals with 0 and all
successors is all of them, which in turn follows from well-foundedness of `<`; so
is that the recursive function exists. No lemma looks into `MoveCondition` or
`SameType`: the results hold for any classification of moves and borrows.

`SequenceBuilderProofs`: `TypeCorrect`; the safety invariants of the runs
(`NeverUsedAfterMove`, `MutBorrowsExclusive`, `BorrowsEnd`, `VariablesUsedOnce`);
`VariablesNeverRefused` (with `SupportedAssumption`, a parameter that is decoded
never makes `is_fun_satisfied` fail, and the check on dynamic lengths after the
loop never does); `EdgesAreCovered`, from `Covering`: the edges of the running
call's arguments are counted in the frame, and what the frame counts beyond the
finished calls was tried for one of these arguments, so it goes with the frame if
the call is refused (the lemma `ParamStepIterates` ties each step to `NextParam`, of
which the generators' `IsFunSatisfied` is made); `MovedIsForever`, an action property; and `RefinesOwnership`,
the refinement of `Ownership`.

### Generators

`FriesProofs`, for every crate, `max_num` and `max_len`:

- `DeliversWhatIsAsked` and `CoverageAlwaysReal`, from `FInv`: how long the
  sequence may be at each place of the loops, that what is finished has the length
  asked for, what is delivered at the end, and that `covered_function` is what the
  sequences call;
- `DeliveredObeyRules` and `FriesRefinesOwnership`: every sequence is `Sound` and
  `Tracked`, and each step of `my_method` is one call, a fresh program or a
  stutter of `Ownership`;
- `TurnsAreTaken`, from `Polling`: every function that can begin a sequence and
  stands in `_start_functions` between the start of a finished sequence and the
  current position has begun a sequence since, or cannot; the position goes round, so
  between two sequences of one function all others have had their turn.

`SequenceBuilderProofs`, for the random walk: `WalkBuildsOnOthers` and
`WalkKeepsRules`. Extending is the only way into the set, so `WInv` adds the rules to `BuiltOnOthers`.

`GenerationProofs`, for the searches that share a list of sequences:

- `MergedKeepRules`, `MergedBorrowsEnd`: a merge shifts the indexes of the second
  sequence behind those of the first, so no call of one part uses a result or a
  variable of the other, and `Sound` of the parts gives `Sound` of the whole
  (`Tracked` is lost, which is why only recorded borrows are claimed). `ListInv`
  says that all that is in the list is `Live`: `Sound`, without a variable of two
  dynamic lengths, and with the result of its last call still there.
- `NeverAlgorithmError`: the result each part was chosen for is its last one and
  is not moved. Candidates are looked for from the front, so a parameter takes the
  result meant for it or one before that, and what the parameters so far have moved
  or borrowed does not reach beyond the parts meant for them; each finds an
  argument. The comment in the code is right for every crate.
- `BackwardCoversAll`, from `RoundsInv`: there are as many rounds left as
  functions that are not visited, and a round that covers nothing has tried all of
  them with the candidates that are there at the end.
- `SearchExhaustive`, from `BfsInv`: a sequence of the list is the extension of
  an earlier one, no two are alike, and the pairs that are not in `todo` any more
  have been tried. An extension determines the sequence it extends and the
  function, so nothing is found twice.
- `DeepRoundsPay`, from `DeepInv`: the covered nodes and edges are those of the
  list up to the length at hand, and the flag of a round says whether that length
  covers something new.
- `ChoiceLeavesNothingOut`, from `ChoiceInv`: once the pass over the sequences of
  dynamic length is over, they call nothing that is not covered. The greedy choice
  takes the best of the candidates, so none is left when the best adds nothing.

### Arguments: bytes and types

`ArgumentProofs` proves what the runs `afl_layout` and `conversion` check, for types
of any depth, any number of variables and inputs of any length.

Lengths, regions, call types, their texts and the declared types are recursive
functions over the constructors of a type. The library's induction theorems take an
operator and cannot be used, so the module starts from one fact about
well-foundedness, `LeastNumber` (a nonempty set of numbers has a least one), and
derives induction over sets of numbers, induction over a rank, and the existence of
a function whose values depend on values of lower rank. The rank is how many
constructors are left, for `SameType` those of both types. After that each function
has an *Unfold* lemma, its recursive equation, and nothing else looks at how it was
defined.

- `LayoutInvariant`, `ReadsInBoundsHolds`, `InputPartitionedHolds`. Neither
  property is inductive, since where a region lies depends on the variables before
  it. `LInv` says that `fixed_start_index` and `dynamic_param_index` are the totals of
  the variables decoded so far, and that their regions `Cover` what lies below: those
  of fixed length are end to end, the others are the shares in order, no two meet. A
  tuple covers because its components do, one after the other, by induction over
  its nesting. The length check gives the rest: the minimal length is at least the
  fixed part, and it is the fixed part when all lengths are fixed; the shares start
  at its end and the last one ends with the input, the remainder of the division
  included. What a slice keeps lies within its share, and what it leaves out is
  less than the alignment in front or less than an element at the end, by
  arithmetic on `%` and `\div`.
- `IntegersFromBytesHolds`: each byte of `high << n | low` is one of the two or 255,
  followed through the two levels of the decoder of `i32`.
- `CalledDecodersDefinedHolds`: three rounds of adding dependents are enough,
  decoder by decoder; only a `str` that is not behind `&` has none.
- `ConversionInvariant`, `SplitKeepsMeaningHolds`. `ConversionInv` says that the
  value is what the pieces written so far have made of the variable.
  `SplitKeeps` is the lemma behind it: by induction from the inside of a call type
  to its outside, writing the pieces of a part one after the other makes what the
  part makes in one expression; a piece that is extended on the outside extends the
  last statement, and an unwrap begins a new one on a value that was just bound.
- `ArgumentHasParamTypeHolds` has two halves. `SameTypeMakes`: if at most one thing
  is taken off the result, the conversion of one type into another, applied to the
  first, makes the second, by induction over the constructors of both. What is put
  around follows the parameter type; once something is taken off, nothing more is
  and the rest is the same type or a cast. `DecodedMakes`: the type that a decoded
  variable is declared with, wrapped by its call type, is the parameter type.

### Output, visibility, statistics

`FileUtilProofs` proves `PairsAlwaysMatch`, `FinishedRunsAreComplete` and
`NoTargetIsLost` (`EveryTargetHasATest`) for any
number of targets and runs and a panic anywhere, from `FileUtilAssumption`.
`PairsMatch` alone is not inductive: a replay program written next must meet the
right test. `IInv` adds `DiskInv` (a directory that is not there holds no file) and
`WriteInv` (where the program stands tells what is in the two directories: the
replay directory is empty while tests are written, and the tests are whole and of
this run while replay programs are). It holds because both directories are emptied
before the first test is created. `NoTargetIsLost` adds `TargetsInv` (the targets of
a run are those of the sequences it generated) and facts about the choice: no more
sequences are generated than may be chosen, and the ranks of n different names are
0 to n - 1, an injection into a set of the same size, so that sorting what is left
after deduplication neither loses nor doubles a name.

`CrateWalkProofs`, from `ItemsAssumption` and `ImplsAssumption` (modules hold
modules and functions, impl blocks hold methods, and all have names):

- `ModulesResolvedRight`, with `TypeOK` as the strengthening: a module is resolved
  from its parent, whose answer is right;
- `RoundsAreEnough`, by a measure: `TreeInv` says that the parent of every module
  met was met as well, and `RoundInv` that more modules are resolved than rounds
  have been begun, unless the running one still has a module that it will resolve.
  A round that begins with an unresolved module resolves at least one, since an
  unresolved module of least depth has a resolved parent, in whatever order the
  map lists them; the theorems on cardinalities turn that into the bound;
- `NoPrivatePaths` and `OnlyNamesLose`, from `PathsInv` (what is filtered is what
  was found). When all modules are resolved, a path that is not public starts with
  an invisible module, and it is dropped; a public path that is dropped starts,
  as a string, with a module that is not around it.

`CorpusProofs`, from `CorporaAssumption` (assignments, calls and their
destinations are within the body); functions of the program may pass for the
library's:

- `PropagateComputesClosure`: `IInv` is `TypeInv`, `HasDirect` (a row holds what
  is assigned directly), `HasNoOther` (a row is below every closed set that holds
  its local), `RowsDone` (a row before the current one holds the rows of all that
  it depends on) and `PassInv` (the current row holds, of what it held when the
  pass began, the rows looked at in this pass). At a stable point `PassInv` covers
  all rows the row depends on, so the next row can begin; rows that change later
  grow only by what the rows above them hold already.
- `SequencesAlwaysDelimited`: `LearntInv` says that what is recorded of a
  function's calls is what is in its body, `SeqInv` that each sequence is
  delimited, the current one can still be extended, a function that was not
  visited is on the stack or to be started from, and the sequences hold exactly
  the calls of the functions visited.
- `CallsAreCounted`: `InfoInv` says that the counters are the number of calls in
  the functions looked at, with the theorems on cardinalities of disjoint unions;
  with `SeqInv`, the sequences hold a place for every one.
- `PairsAreFlows`: a row that is closed is what its local comes from, so among the
  sources of an argument is the result of a function exactly if the result reaches
  the argument and the call is the first to store where it stores, or the function
  is the body's own and the variable of its result reaches the argument; `InfoInv`
  carries this over the functions looked at.

### Only model-checked

Liveness under fairness: `Termination` of `Fries`, `Generation`, `RandomWalk` and
`Corpus`, which the prover does not support. Every invariant and every action
property of the passing runs is stated by a theorem, the refinements of `Ownership`
included.

## Not modelled

- `_naive_choose_sequence`, `_random_choose`, `_reverse_construct` and
  `ReverseApiSequence`: nothing calls them.
- The fudge generator, which replays a file of recorded sequences through
  `is_fun_satisfied`, and the branches of the driver for fudge and random, which
  are switched off (`fries` is the constant true).
- Generic functions and the substitution of their parameters: filtered out, and
  partly `todo!()`.
- The values of floats and of the elements of slices; the text of test and replay
  programs; imports and headers.
- `rust-fuzzer`, which starts the patched rustdoc as a process.
- rustdoc and rustc.

## Plan

Done: type conversions, fuzzable types, the way of a function into the graph,
extension of sequences, all generators that can be switched on except fudge,
merging and choice, input layout with values, argument writing, file output with
panics and reruns, corpus statistics; proofs of all safety properties of the
extension of sequences, of the generators, of the input layout, of argument writing,
of the crate walk, of the corpus statistics and of the file output.

Left: the fudge generator.
