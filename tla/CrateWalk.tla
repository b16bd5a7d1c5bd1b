------------------------------- MODULE CrateWalk -------------------------------
(***************************************************************************)
(* How the functions of a crate get into the graph: the methods of impl    *)
(* blocks (impl_util.rs), the functions of modules (context.rs), and what  *)
(* filter_functions (api_graph.rs) leaves of them, with the visibility of  *)
(* modules that mod_visibility.rs works out.                               *)
(*                                                                         *)
(* A path is a sequence of names.  The code compares paths as strings, so  *)
(* the prefix of a path may end in the middle of a name: NamePrefixes      *)
(* tells which names begin with which.  A function's listing says whether  *)
(* its name is in one of the two lists the filters hold: "listed" in that  *)
(* of filter_functions, "hidden" in that of the visibility filter, which   *)
(* it reads once per invisible module.  Signatures do not matter here,     *)
(* except for whether a parameter has the type Self; add_api_function's    *)
(* own filter is in Dependencies.                                          *)
(***************************************************************************)
EXTENDS Naturals, Sequences, FiniteSets, SequencesExt

CONSTANTS
  CrateName,
  Names,              \* names of modules, types, traits and functions
  Items,              \* modules and functions
  Crates,             \* root modules: trees of modules and functions
  Impls,              \* the impl blocks of cache.impls
  NamePrefixes,       \* <<a, b>>: the name b begins with a, and is not a
  PreludePaths        \* the keys of PRELUDED_TYPE

Listings == {"none", "listed", "hidden"}

ASSUME ItemsAssumption ==
  /\ Crates \subseteq Items
  /\ \A item \in Items :
       /\ item.name \in Names
       /\ item.kind = "mod" => item.public \in BOOLEAN /\ item.items \in Seq(Items)
       /\ item.kind = "function" =>
            /\ item.public \in BOOLEAN /\ item.generic \in BOOLEAN
            /\ item.listing \in Listings

ASSUME ImplsAssumption ==
  \A impl \in Impls :
    /\ impl.type_name \subseteq Seq(Names) /\ impl.trait_name \subseteq Seq(Names)
    /\ Len(impl.methods) \in Nat /\ DOMAIN impl.methods = 1..Len(impl.methods)
    /\ \A n \in DOMAIN impl.methods :
         /\ impl.methods[n].name \in Names
         /\ impl.methods[n].public \in BOOLEAN /\ impl.methods[n].generic \in BOOLEAN
         /\ impl.methods[n].listing \in Listings

VARIABLES
  pc,
  impls_left,         \* impl blocks to analyse
  work,               \* items of the crate to visit, and the modules they are in
  inner,              \* mod_visibility: is the module declared pub?
  api_functions,
  found,              \* api_functions as it was before it was filtered
  round,              \* rounds of get_invisible_mods begun
  mods_left,          \* modules this round has not looked at
  new_mod_visibility  \* modules resolved, and whether they are visible

vars == <<pc, impls_left, work, inner, api_functions, found, round, mods_left,
          new_mod_visibility>>

\* starts_with, on strings.
StartsWith(path, prefix) ==
  /\ Len(prefix) <= Len(path)
  /\ SubSeq(path, 1, Len(prefix) - 1) = Front(prefix)
  /\ LET name == path[Len(prefix)]
     IN  name = Last(prefix) \/ <<Last(prefix), name>> \in NamePrefixes

Init ==
  /\ pc = "impls"
  /\ impls_left = Impls
  /\ \E root \in Crates : work = <<[current |-> <<>>, item |-> root]>>
  /\ inner = <<>>
  /\ api_functions = <<>>
  /\ found = <<>>
  /\ round = 0
  /\ mods_left = {}
  /\ new_mod_visibility = <<>>

-----------------------------------------------------------------------------
(* impl_util.rs *)

\* is_param_self_type looks into references and generic arguments only.
IsParamSelfType(ty) ==
  \E k \in DOMAIN ty :
    ty[k] = "Self" /\ \A n \in 1..(k - 1) : ty[n] \in {"Ref", "RefMut", "Option", "Result"}

ContainsSelfType(method) ==
  \E i \in DOMAIN method.inputs : IsParamSelfType(method.inputs[i])

\* What a method is called by: its trait, if that can be inferred from an
\* argument, or else its type.
MethodTypeName(impl, method) ==
  IF ContainsSelfType(method) /\ impl.trait_name # {} THEN impl.trait_name
  ELSE impl.type_name

\* Without such a name, or with a trait of another crate, the function
\* returns: this method and the ones after it are left out.
Returns(impl, method) ==
  \/ MethodTypeName(impl, method) = {}
  \/ impl.of_trait /\ impl.trait_name = {}

Analysed(impl) ==
  LET returns == {n \in DOMAIN impl.methods : Returns(impl, impl.methods[n])}
      before  == IF returns = {} THEN Len(impl.methods) ELSE Min(returns) - 1
  IN  [n \in 1..before |->
         LET method == impl.methods[n]
         IN  [full_name       |-> Append(CHOOSE p \in MethodTypeName(impl, method) : TRUE,
                                         method.name),
              trait_full_path |-> impl.trait_name,
              public          |-> method.public,
              generic         |-> method.generic,
              listing         |-> method.listing]]

\* Blocks without a trait come first; the order is otherwise that of a map.
AnalyseImpl(impl) ==
  /\ pc = "impls" /\ impl \in impls_left
  /\ impl.of_trait => \A other \in impls_left : other.of_trait
  /\ api_functions' = api_functions \o Analysed(impl)
  /\ impls_left' = impls_left \ {impl}
  /\ UNCHANGED <<pc, work, inner, found, round, mods_left, new_mod_visibility>>

ImplsDone ==
  /\ pc = "impls" /\ impls_left = {}
  /\ pc' = "walk"
  /\ UNCHANGED <<impls_left, work, inner, api_functions, found, round, mods_left,
                 new_mod_visibility>>

-----------------------------------------------------------------------------
(* add_bare_functions_into_api_graph_util *)

\* A module is entered: its items come next, before its siblings.
VisitMod ==
  /\ pc = "walk" /\ work # <<>>
  /\ LET item == Head(work).item
         path == Append(Head(work).current, item.name)
     IN  /\ item.kind = "mod"
         /\ inner' = [m \in DOMAIN inner \cup {path} |->
                        IF m = path THEN item.public ELSE inner[m]]
         /\ work' = [n \in DOMAIN item.items |->
                       [current |-> path, item |-> item.items[n]]] \o Tail(work)
  /\ UNCHANGED <<pc, impls_left, api_functions, found, round, mods_left,
                 new_mod_visibility>>

VisitFunction ==
  /\ pc = "walk" /\ work # <<>>
  /\ LET item == Head(work).item
     IN  /\ item.kind = "function"
         /\ api_functions' = Append(api_functions,
              [full_name       |-> Append(Head(work).current, item.name),
               trait_full_path |-> {},
               public          |-> item.public,
               generic         |-> item.generic,
               listing         |-> item.listing])
  /\ work' = Tail(work)
  /\ UNCHANGED <<pc, impls_left, inner, found, round, mods_left, new_mod_visibility>>

\* The walk is over, and get_invisible_mods begins with the root, which is
\* visible.  It panics if there is no module of that name.
WalkDone ==
  /\ pc = "walk" /\ work = <<>>
  /\ found' = api_functions
  /\ IF <<CrateName>> \in DOMAIN inner
     THEN pc' = "round" /\ new_mod_visibility' = [m \in {<<CrateName>>} |-> TRUE]
     ELSE pc' = "panicked" /\ UNCHANGED new_mod_visibility
  /\ UNCHANGED <<impls_left, work, inner, api_functions, round, mods_left>>

-----------------------------------------------------------------------------
(* ModVisibity::get_invisible_mods *)

Resolved == DOMAIN new_mod_visibility

NewRound ==
  /\ pc = "round"
  /\ round' = round + 1
  /\ mods_left' = DOMAIN inner
  /\ pc' = "resolve"
  /\ UNCHANGED <<impls_left, work, inner, api_functions, found, new_mod_visibility>>

\* Mutant: only the module's own declaration counts.
VisibleAlone(m) == inner[m]

\* A module is visible if it is pub and its parent is visible.
Visible(m) == inner[m] /\ new_mod_visibility[Front(m)]

\* The modules are looked at in the order of a hash map.  One whose parent has
\* not been resolved yet is left for another round.
Resolve(m) ==
  /\ pc = "resolve" /\ m \in mods_left
  /\ mods_left' = mods_left \ {m}
  /\ new_mod_visibility' =
       IF m \in Resolved \/ Front(m) \notin Resolved THEN new_mod_visibility
       ELSE [n \in Resolved \cup {m} |-> IF n = m THEN Visible(m) ELSE new_mod_visibility[n]]
  /\ UNCHANGED <<pc, impls_left, work, inner, api_functions, found, round>>

\* Mutant: one round has to do.
LastRoundFirst == TRUE

\* As many rounds as there are modules, or until all are resolved.
LastRound ==
  \/ Cardinality(Resolved) = Cardinality(DOMAIN inner)
  \/ round >= Cardinality(DOMAIN inner)

EndRound ==
  /\ pc = "resolve" /\ mods_left = {}
  /\ pc' = IF LastRound THEN "filter" ELSE "round"
  /\ UNCHANGED <<impls_left, work, inner, api_functions, found, round, mods_left,
                 new_mod_visibility>>

invisible_mods == {m \in Resolved : ~new_mod_visibility[m]}

-----------------------------------------------------------------------------
(* filter_functions *)

OnPreludeType(fn) ==
  \E p \in PreludePaths :
    StartsWith(fn.full_name, p) \/ \E t \in fn.trait_full_path : StartsWith(t, p)

\* Mutant: the module of the trait is not looked at.
InvisibleIgnoringTrait(fn) ==
  \E m \in invisible_mods : StartsWith(fn.full_name, m) \/ fn.listing = "hidden"

\* Mutant: the name of the module is looked for anywhere in the path.
InvisibleByLastName(fn) ==
  \E m \in invisible_mods :
    \/ Last(m) \in Range(fn.full_name)
    \/ StartsWith(fn.full_name, m)
    \/ fn.listing = "hidden"
    \/ \E t \in fn.trait_full_path : StartsWith(t, m)

\* The path of the function or that of its trait starts with a module that is
\* not visible.  A name of the list hides the function if any module is.
Invisible(fn) ==
  \E m \in invisible_mods :
    \/ StartsWith(fn.full_name, m)
    \/ fn.listing = "hidden"
    \/ \E t \in fn.trait_full_path : StartsWith(t, m)

\* What the three filters let through.
Kept(fn) ==
  /\ ~OnPreludeType(fn)
  /\ ~Invisible(fn) /\ fn.public
  /\ ~fn.generic /\ fn.listing # "listed"

\* The functions kept of the first n.
KeptOf(fns) ==
  LET kept[n \in 0..Len(fns)] ==
        IF n = 0 THEN <<>>
        ELSE IF Kept(fns[n]) THEN Append(kept[n - 1], fns[n]) ELSE kept[n - 1]
  IN  kept

Filter ==
  /\ pc = "filter"
  /\ api_functions' = KeptOf(api_functions)[Len(api_functions)]
  /\ pc' = "done"
  /\ UNCHANGED <<impls_left, work, inner, found, round, mods_left, new_mod_visibility>>

Terminating == pc \in {"done", "panicked"} /\ UNCHANGED vars

Next ==
  \/ \E impl \in Impls : AnalyseImpl(impl)
  \/ ImplsDone
  \/ VisitMod
  \/ VisitFunction
  \/ WalkDone
  \/ NewRound
  \/ \E m \in DOMAIN inner : Resolve(m)
  \/ EndRound
  \/ Filter
  \/ Terminating

Spec == Init /\ [][Next]_vars

-----------------------------------------------------------------------------
\* The items to visit, the modules met, and those resolved, of which there are
\* none while modules are still being met.
TypeOK ==
  /\ work \in Seq([current : Seq(Names), item : Items])
  /\ inner \in [DOMAIN inner -> BOOLEAN]
  /\ \A m \in DOMAIN inner : m \in Seq(Names) /\ m # <<>>
  /\ new_mod_visibility \in [Resolved -> BOOLEAN]
  /\ Resolved \subseteq DOMAIN inner
  /\ pc \in {"impls", "walk"} => Resolved = {}

\* All modules of the path below the root are declared pub.
AllPublic(path) ==
  \A k \in 2..Len(path) :
    SubSeq(path, 1, k) \in DOMAIN inner => inner[SubSeq(path, 1, k)]

\* All modules around the item of that path are declared pub.
Reachable(path) ==
  \A k \in 2..(Len(path) - 1) :
    SubSeq(path, 1, k) \in DOMAIN inner => inner[SubSeq(path, 1, k)]

\* Whatever the order of the hash map, a module that has been resolved is
\* visible if and only if it and all modules around it are declared pub.
ResolvedRight ==
  \A m \in Resolved : new_mod_visibility[m] = AllPublic(m)

\* The rounds are enough, even if the map lists every module before its parent:
\* no module is left without an answer, which would make it count as visible.
AllResolved == pc = "filter" => Resolved = DOMAIN inner

\* No function of the graph needs a private item: it is public, and so are the
\* modules on the path to it and on the path to its trait.
OnlyPublicPaths ==
  pc = "done" =>
    \A n \in DOMAIN api_functions :
      /\ api_functions[n].public
      /\ Reachable(api_functions[n].full_name)
      /\ \A t \in api_functions[n].trait_full_path : Reachable(t)

Wanted(fn) ==
  /\ ~OnPreludeType(fn) /\ fn.public /\ ~fn.generic /\ fn.listing = "none"
  /\ Reachable(fn.full_name) /\ \A t \in fn.trait_full_path : Reachable(t)

\* A function with public paths is lost for one reason only, that paths are compared
\* as strings: on the path to it, or to its trait, stands a name that begins with
\* that of a hidden sibling, or its path is also that of a hidden module.
LostByNameOnly ==
  pc = "done" =>
    \A n \in DOMAIN found :
      Wanted(found[n]) /\ found[n] \notin Range(api_functions) =>
        \E m \in invisible_mods : \E p \in {found[n].full_name} \cup found[n].trait_full_path :
          /\ Len(m) <= Len(p)
          /\ Front(m) = SubSeq(p, 1, Len(m) - 1)
          /\ <<Last(m), p[Len(m)]>> \in NamePrefixes \/ m = p

=============================================================================
