------------------------------- MODULE MCCorpus -------------------------------
(***************************************************************************)
(* A library with open() -> File, read(File) -> u8, seek(File) -> File and *)
(* version() -> u8, and programs that use it.  In one family of programs   *)
(* the assignments of a body are any; in another the functions call each   *)
(* other.  One program has a function of its own, file_copy, whose path    *)
(* begins with the name of the library, file.                              *)
(***************************************************************************)
EXTENDS Corpus

Call(callee, destination, arguments) ==
  [direct |-> TRUE, callee |-> callee, destination |-> destination, arguments |-> arguments]
CallPtr(local, destination) ==
  [direct |-> FALSE, callee |-> local, destination |-> destination, arguments |-> <<>>]

\* Any direct dependencies between three locals and on a constant.
AnyBodies ==
  {[locals |-> 3, arg_count |-> 0, constants |-> 1, callables |-> {3},
    assigns |-> assigns,
    calls |-> <<Call("open", 1, <<>>), Call("seek", 2, <<1>>), Call("read", 0, <<2>>)>>] :
   assigns \in SUBSET {<<l, d>> \in (0..2) \X (0..3) : l # d}}

\* Two calls that store into the same local, as in the branches of an if, and
\* a call of a function pointer and of another library.
Branches ==
  [locals |-> 6, arg_count |-> 1, constants |-> 1, callables |-> {6},
   assigns |-> {<<4, 2>>, <<5, 4>>},
   calls |-> <<CallPtr(1, 3), Call("open", 2, <<>>), Call("open", 4, <<>>),
               Call("seek", 2, <<4>>), Call("std", 3, <<6>>), Call("read", 0, <<5>>)>>]

Helper(calls) ==
  [locals |-> 4, arg_count |-> 1, constants |-> 0, callables |-> {}, assigns |-> {<<3, 2>>},
   calls |-> calls]

\* Two functions that call each other, and a third that calls both twice.
Recursive == [f \in {"main", "walk", "step"} |->
  CASE f = "main" -> Helper(<<Call("open", 2, <<>>), Call("walk", 0, <<2>>),
                              Call("step", 0, <<3>>), Call("seek", 2, <<3>>),
                              Call("step", 0, <<2>>)>>)
    [] f = "walk" -> Helper(<<Call("seek", 2, <<1>>), Call("step", 3, <<2>>)>>)
    [] f = "step" -> Helper(<<Call("walk", 3, <<1>>), Call("version", 0, <<>>),
                              Call("seek", 2, <<1>>), CallPtr(3, 0)>>)]

\* A function that passes for one of the library: it is called by another and by
\* itself, and uses the variable of its result as an argument.
LikeLibrary == [f \in {"main", "file_copy"} |->
  IF f = "main"
  THEN Helper(<<Call("open", 2, <<>>), Call("file_copy", 2, <<3>>), Call("seek", 0, <<2>>)>>)
  ELSE [Helper(<<Call("seek", 2, <<1>>), Call("file_copy", 0, <<2>>), Call("seek", 3, <<0>>),
                 Call("version", 3, <<>>)>>) EXCEPT !.assigns = {<<0, 3>>}]]

Library == [f \in {"open"} |-> Helper(<<Call("seek", 2, <<1>>), Call("seek", 3, <<2>>)>>)]

FewCorpora ==
  {[f \in {"main"} |-> body] : body \in AnyBodies}
  \cup {[f \in {"main", "other"} |->
           IF f = "main" THEN Branches
           ELSE Helper(<<Call("main", 2, <<1>>), Call("open", 3, <<>>)>>)],
         Recursive, LikeLibrary, Library}

=============================================================================
