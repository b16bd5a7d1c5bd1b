------------------------------ MODULE MCCrateWalk ------------------------------
(***************************************************************************)
(* A crate k with the modules io, io::raw, ioutil and api, each of them    *)
(* public or private, io::raw::sys, and impl blocks for types and traits   *)
(* in them.  A function has the name of the module io.  Four levels of     *)
(* modules may take three rounds to resolve.                               *)
(***************************************************************************)
EXTENDS CrateWalk

Mod(name, public, items) ==
  [kind |-> "mod", name |-> name, public |-> public, items |-> items]
Fn(name, public, generic, listing) ==
  [kind |-> "function", name |-> name, public |-> public, generic |-> generic,
   listing |-> listing]

FewCrates ==
  {Mod("k", TRUE, <<
     Fn("io", TRUE, FALSE, "none"),
     Mod("ioutil", b[1], <<Fn("copy", TRUE, FALSE, "none")>>),
     Mod("io", b[2], <<
       Fn("read", TRUE, FALSE, "none"),
       Fn("fill", FALSE, FALSE, "none"),
       Mod("raw", b[3], <<
         Fn("read", TRUE, FALSE, "none"),
         Mod("sys", TRUE, <<Fn("call", TRUE, FALSE, "none")>>)>>)>>),
     Mod("api", b[4], <<
       Fn("run", TRUE, TRUE, "none"),
       Fn("io", TRUE, FALSE, "none"),
       Fn("lossy_normalization", TRUE, FALSE, "hidden"),
       Fn("with_capacity", TRUE, FALSE, "listed")>>)>>) :
   b \in [1..4 -> BOOLEAN]}

Inside(items) == UNION {Range(m.items) : m \in {i \in items : i.kind = "mod"}}
FewItems ==
  LET level1 == Inside(FewCrates)
      level2 == Inside(level1)
      level3 == Inside(level2)
  IN  FewCrates \cup level1 \cup level2 \cup level3 \cup Inside(level3)
Method(name, inputs) ==
  [name |-> name, inputs |-> inputs, public |-> TRUE, generic |-> FALSE,
   listing |-> "none"]

FewImpls == {
  [of_trait |-> FALSE, trait_name |-> {}, type_name |-> {<<"k", "api", "A">>},
   methods |-> <<Method("new", <<>>), Method("get", <<<<"Ref", "Self">>>>)>>],
  [of_trait |-> TRUE, trait_name |-> {<<"k", "io", "Read">>},
   type_name |-> {<<"k", "api", "A">>},
   methods |-> <<Method("take", <<<<"Self">>>>), Method("make", <<<<"Ref", "Slice", "Self">>>>)>>],
  [of_trait |-> TRUE, trait_name |-> {}, type_name |-> {<<"k", "api", "A">>},
   methods |-> <<Method("clone", <<<<"Ref", "Self">>>>)>>],
  [of_trait |-> TRUE, trait_name |-> {<<"k", "api", "Show">>}, type_name |-> {},
   methods |-> <<Method("show", <<<<"Ref", "Self">>>>), Method("name", <<>>),
                 Method("hide", <<<<"Ref", "Self">>>>)>>],
  [of_trait |-> TRUE, trait_name |-> {<<"k", "api", "Show">>},
   type_name |-> {<<"core", "Option">>},
   methods |-> <<Method("name", <<>>)>>] }

FewNames ==
  {item.name : item \in FewItems}
  \cup UNION {{impl.methods[n].name : n \in DOMAIN impl.methods} : impl \in FewImpls}
  \cup UNION {UNION {Range(p) : p \in impl.type_name \cup impl.trait_name} : impl \in FewImpls}

FewPrefixes == {<<"io", "ioutil">>}
FewPreludes == {<<"core", "Option">>, <<"core", "Result">>}

=============================================================================
