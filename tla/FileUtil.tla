------------------------------- MODULE FileUtil -------------------------------
(***************************************************************************)
(* file_util.rs, ApiGraph::_first_choose, and the part of context.rs that  *)
(* calls them: the fuzz targets of one strategy, chosen from the generated *)
(* sequences and written to its two directories, a test program and a      *)
(* replay program of the same number for each.                             *)
(*                                                                         *)
(* Every call to the file system is unwrapped, so a run may panic at any   *)
(* of them, and whatever is on the disk is what the next run finds.        *)
(* Directories are removed entry by entry, and a file is first created and *)
(* then written.                                                           *)
(***************************************************************************)
EXTENDS Naturals, Sequences, FiniteSets, SequencesExt

CONSTANTS
  Targets,              \* sequences: the names of their calls, their length,
                        \* and whether they read input
  MaxNum,               \* max_num and max_len of context.rs
  MaxLen,
  MaxTestFileNumber,    \* MAX_TEST_FILE_NUMBER
  MaxRuns               \* bound: how often the program is run

ASSUME FileUtilAssumption ==
  /\ \A s \in Targets : s.name \in Nat /\ s.len \in Nat /\ s.fuzzables \in BOOLEAN
  /\ MaxNum \in Nat /\ MaxLen \in Nat /\ MaxTestFileNumber \in Nat /\ MaxRuns \in Nat

VARIABLES
  pc,
  run,                  \* number of this run
  api_sequences,        \* what this run generated
  test_files,           \* the sequences the programs are for, in order
  count,                \* programs written to the directory at hand
  test_path,            \* the directory of the strategy: absent, file or dir
  kind,                 \* the same of afl_files and replay_files in it
  files                 \* the files in them

vars == <<pc, run, api_sequences, test_files, count, test_path, kind, files>>

Dirs == {"afl_files", "replay_files"}

\* A file: its number, the sequence it is for, the run that wrote it, and
\* whether it holds nothing yet, part of the program or the whole of it.
File(n, s, r, part) == [number |-> n, target |-> s, run |-> r, part |-> part]

-----------------------------------------------------------------------------
\* The first max_size positions (one, if that is 0) of a set.
FirstOf(positions) ==
  {i \in positions : Cardinality({j \in positions : j < i}) < Max({1, MaxNum})}

\* Mutant: only sequences longer than max_len are chosen.
FirstChooseLonger(sequences) ==
  FirstOf({i \in DOMAIN sequences : sequences[i].fuzzables /\ sequences[i].len > MaxLen})

\* Where the first sequences are that read input and are long enough.
FirstChoose(sequences) ==
  FirstOf({i \in DOMAIN sequences : sequences[i].fuzzables /\ sequences[i].len >= MaxLen})

\* What the sequences at some positions print, how many of the names come before
\* one of them, and the last sequence that prints as it.
Names(sequences, chosen) == {sequences[i].name : i \in chosen}
Rank(names, name) == Cardinality({other \in names : other < name})
LastNamed(sequences, chosen, name) ==
  sequences[Max({i \in chosen : sequences[i].name = name})]

\* Of sequences that print alike the last one stays; the order is that of
\* what they print.
Deduplicated(sequences, chosen) ==
  LET names == Names(sequences, chosen)
  IN  [n \in 1..Cardinality(names) |->
         LastNamed(sequences, chosen, CHOOSE name \in names : Rank(names, name) = n - 1)]

NewFileHelper(sequences) ==
  LET unique == Deduplicated(sequences, FirstChoose(sequences))
  IN  SubSeq(unique, 1, Min({Len(unique), MaxTestFileNumber}))

\* What my_method delivers: max_num sequences of max_len calls.
Generated == {s \in [1..MaxNum -> Targets] : \A n \in 1..MaxNum : s[n].len = MaxLen}

-----------------------------------------------------------------------------
\* The disk before the first run: a path that is not there, a stray file, or
\* directories someone else made.
Init ==
  /\ pc = "start"
  /\ run = 1
  /\ api_sequences = <<>>
  /\ test_files = <<>>
  /\ count = 0
  /\ files = [d \in Dirs |-> {}]
  /\ \/ test_path \in {"absent", "file"} /\ kind = [d \in Dirs |-> "absent"]
     \/ test_path = "dir" /\ kind \in [Dirs -> {"absent", "file", "dir"}]

Generate ==
  /\ pc = "start"
  /\ api_sequences' \in Generated
  /\ test_files' = NewFileHelper(api_sequences')
  /\ pc' = "test_path"
  /\ UNCHANGED <<run, count, test_path, kind, files>>

RemoveTestPath ==
  /\ pc = "test_path"
  /\ test_path' = IF test_path = "file" THEN "absent" ELSE test_path
  /\ pc' = "afl_files"
  /\ UNCHANGED <<run, api_sequences, test_files, count, kind, files>>

\* ensure_empty_dir: a file goes away, a directory entry by entry, and in the
\* end a new one is made.
RemoveFile(d) ==
  /\ pc = d /\ kind[d] = "file"
  /\ kind' = [kind EXCEPT ![d] = "absent"]
  /\ UNCHANGED <<pc, run, api_sequences, test_files, count, test_path, files>>

RemoveEntry(d) ==
  /\ pc = d /\ kind[d] = "dir"
  /\ \E f \in files[d] : files' = [files EXCEPT ![d] = @ \ {f}]
  /\ UNCHANGED <<pc, run, api_sequences, test_files, count, test_path, kind>>

\* Mutant: the directory is reused as it is.
RemoveDirKept(d) ==
  /\ pc = d /\ kind[d] = "dir"
  /\ kind' = [kind EXCEPT ![d] = "absent"]
  /\ UNCHANGED <<pc, run, api_sequences, test_files, count, test_path, files>>

RemoveDir(d) ==
  /\ pc = d /\ kind[d] = "dir" /\ files[d] = {}
  /\ kind' = [kind EXCEPT ![d] = "absent"]
  /\ UNCHANGED <<pc, run, api_sequences, test_files, count, test_path, files>>

\* Mutant: the tests are written before the replay programs are removed.
AfterInterleaved(step) ==
  CASE step = "afl_files"    -> "test"
    [] step = "replay_files" -> "replay"
    [] step = "test"         -> "replay_files"
    [] step = "replay"       -> "done"

\* Where write_files goes on: tests are written when both directories are new.
After(step) ==
  CASE step = "afl_files"    -> "replay_files"
    [] step = "replay_files" -> "test"
    [] step = "test"         -> "replay"
    [] step = "replay"       -> "done"

CreateDir(d) ==
  /\ pc = d /\ kind[d] = "absent"
  /\ kind' = [kind EXCEPT ![d] = "dir"]
  /\ test_path' = "dir"
  /\ count' = 0
  /\ pc' = After(d)
  /\ UNCHANGED <<run, api_sequences, test_files, files>>

-----------------------------------------------------------------------------
(* write_to_files *)

DirOf(step) == IF step = "test" THEN "afl_files" ELSE "replay_files"
Opened(step) == IF step = "test" THEN "test_opened" ELSE "replay_opened"

Current(part) == File(count, test_files[count + 1], run, part)

Create(step) ==
  /\ pc = step /\ count < Len(test_files)
  /\ files' = [files EXCEPT ![DirOf(step)] = @ \cup {Current("empty")}]
  /\ pc' = Opened(step)
  /\ UNCHANGED <<run, api_sequences, test_files, count, test_path, kind>>

WriteAll(step) ==
  /\ pc = Opened(step)
  /\ files' = [files EXCEPT ![DirOf(step)] = (@ \ {Current("empty")}) \cup {Current("whole")}]
  /\ count' = count + 1
  /\ pc' = step
  /\ UNCHANGED <<run, api_sequences, test_files, test_path, kind>>

EndOfFiles(step) ==
  /\ pc = step /\ count = Len(test_files)
  /\ count' = 0
  /\ pc' = After(step)
  /\ UNCHANGED <<run, api_sequences, test_files, test_path, kind, files>>

-----------------------------------------------------------------------------
(* Failures *)

\* A call to the file system fails, or the program is killed.
Panic ==
  /\ pc \notin {"done", "panicked"}
  /\ pc' = "panicked"
  /\ UNCHANGED <<run, api_sequences, test_files, count, test_path, kind, files>>

\* write_all fails after part of the program is on the disk.
PanicTorn(step) ==
  /\ pc = Opened(step)
  /\ files' = [files EXCEPT ![DirOf(step)] = (@ \ {Current("empty")}) \cup {Current("torn")}]
  /\ pc' = "panicked"
  /\ UNCHANGED <<run, api_sequences, test_files, count, test_path, kind>>

\* The program is run again; only the disk is left of the run before.
Rerun ==
  /\ pc \in {"done", "panicked"} /\ run < MaxRuns
  /\ run' = run + 1
  /\ pc' = "start"
  /\ api_sequences' = <<>>
  /\ test_files' = <<>>
  /\ count' = 0
  /\ UNCHANGED <<test_path, kind, files>>

Terminating == pc \in {"done", "panicked"} /\ run = MaxRuns /\ UNCHANGED vars

Work ==
  \/ Generate
  \/ RemoveTestPath
  \/ \E d \in Dirs : RemoveFile(d) \/ RemoveEntry(d) \/ RemoveDir(d) \/ CreateDir(d)
  \/ \E step \in {"test", "replay"} : Create(step) \/ WriteAll(step) \/ EndOfFiles(step)

Next ==
  \/ Work
  \/ Panic
  \/ \E step \in {"test", "replay"} : PanicTorn(step)
  \/ Rerun
  \/ Terminating

Spec == Init /\ [][Next]_vars

-----------------------------------------------------------------------------
\* A crash found by test i is replayed by replay program i.  So whenever both
\* exist, during a run and after a panic at any point of it, they are for the
\* same sequence of the same run, and the test is whole.
PairsMatch ==
  \A t \in files["afl_files"], r \in files["replay_files"] :
    t.number = r.number => t.target = r.target /\ t.run = r.run /\ t.part = "whole"

\* The first n programs for the given targets.
Whole(targets, r, n) == {File(m - 1, targets[m], r, "whole") : m \in 1..n}

\* What a finished run leaves: a whole test and a whole replay program for each
\* of its targets and no file besides, whatever the runs before it left behind.
FinishedIsComplete ==
  pc = "done" =>
    \A d \in Dirs :
      kind[d] = "dir" /\ files[d] = Whole(test_files, run, Len(test_files))

\* No target is lost on the way from the generator to the disk: each sequence
\* my_method delivers that reads input has a test program with the same calls,
\* and one only, unless there are more than MAX_TEST_FILE_NUMBER.
EveryTargetHasATest ==
  LET names == {s.name : s \in {t \in Range(api_sequences) : t.fuzzables}}
  IN  pc = "done" /\ Cardinality(names) <= MaxTestFileNumber =>
        \A name \in names :
          Cardinality({f \in files["afl_files"] : f.target.name = name}) = 1

=============================================================================
