------------------------------- MODULE Import -------------------------------
(***************************************************************************)
(* The import of a contest: Import::process (web/import.cpp), which reads  *)
(* the files of an uploaded package, and import() of web/main.cpp, which   *)
(* stores them. One task of the package is modelled; all tasks are read    *)
(* before the one transaction that stores them, so the import has read its *)
(* other tasks before or after and stores them with it or not at all.      *)
(*                                                                         *)
(* A test file is named by what follows its last dot, a number in the      *)
(* order of names. Names that are input and output at once are left out.   *)
(***************************************************************************)
EXTENDS Integers, Sequences, FiniteSets, SequencesExt

CONSTANTS
  Suffix,       \* the endings of test files
  Declarations  \* what authors of packages mean: sequences of [points, cases]

(* Names of files are of bounded length. *)
ASSUME SuffixAssumption == Suffix \subseteq Nat \ {0} /\ IsFiniteSet(Suffix)
ASSUME DeclarationsAssumption == Declarations \subseteq Seq([points : Int, cases : Seq(Nat)])

VARIABLES
  stage,        \* where the handler is
  package,      \* the test files and the groups that the author meant
  nfo,          \* what is still to be read of task.nfo
  reading,      \* the group that is being read
  inputs, outputs, groups,      \* the members of Import
  tests         \* the test cases that are stored: their files and their group

importingVars == <<stage, package, nfo, reading, inputs, outputs, groups, tests>>

(* task.nfo, word by word. *)
Group == [kind |-> "group", value |-> 0]
End == [kind |-> "end", value |-> 0]
Number(n) == [kind |-> "number", value |-> n]
Case(s) == [kind |-> "case", value |-> s]

WordsOf(g) == <<Group, Number(g.points)>> \o [i \in DOMAIN g.cases |-> Case(g.cases[i])] \o <<End>>
Written(declared) == FlattenSeq([i \in DOMAIN declared |-> WordsOf(declared[i])])

(* An author's slips: the file ends too early, or a word is missing. *)
Slips(words) == {SubSeq(words, 1, n) : n \in 0..Len(words)} \cup
                {RemoveAt(words, n) : n \in DOMAIN words}

NoPackage == [ins |-> {}, outs |-> {}, groups |-> <<>>, whole |-> TRUE]
NoGroup == [points |-> 0, cases |-> {}]
NoFile == 0

ImportInit ==
  /\ stage = "idle"
  /\ package = NoPackage
  /\ nfo = <<>>
  /\ reading = NoGroup
  /\ inputs = <<>> /\ outputs = <<>> /\ groups = <<>>
  /\ tests = <<>>

-----------------------------------------------------------------------------
(* The POST of the form by an administrator, and unzip. *)
Upload ==
  /\ stage = "idle"
  /\ stage' = "directory"
  /\ \E ins, outs \in SUBSET Suffix, declared \in Declarations :
     \E words \in {Written(declared)} \cup Slips(Written(declared)) :
       /\ package' = [ins |-> ins, outs |-> outs, groups |-> declared,
                      whole |-> words = Written(declared)]
       /\ nfo' = words
  /\ UNCHANGED <<reading, inputs, outputs, groups, tests>>

(* Mutant: the files stay in the order of readdir. *)
Sorted_AsRead(names) == names

(* std::sort of names that differ *)
Ascending(names) == \A i, j \in DOMAIN names : i < j => names[i] < names[j]
Sorted(names) == CHOOSE sorted \in SetToSeqs(Range(names)) : Ascending(sorted)

(* Outputs that are missing get an empty name. *)
Padded(names, length) == names \o [i \in 1..(length - Len(names)) |-> NoFile]

ReadDirectory ==
  /\ stage = "directory"
  /\ \E is \in SetToSeqs(package.ins), os \in SetToSeqs(package.outs) :
       /\ inputs' = Sorted(is)
       /\ outputs' = Padded(Sorted(os), Len(is))
  /\ stage' = "header"
  /\ UNCHANGED <<package, nfo, reading, groups, tests>>

(* The saver of a file throws, and nothing catches it in the handler; or    *)
(* the package has a plain file where the directory of a task should be,    *)
(* and the web server ends at readdir(NULL).                                *)
ReadFails ==
  /\ stage = "directory"
  /\ stage' = "aborted"
  /\ UNCHANGED <<package, nfo, reading, inputs, outputs, groups, tests>>

NextIs(kind) == nfo # <<>> /\ Head(nfo).kind = kind

(* info >> header: anything but "group" ends the file, and so does a        *)
(* "group" at its very end, without a newline.                              *)
ReadHeader ==
  /\ stage = "header"
  /\ NextIs("group")
  /\ nfo' = Tail(nfo)
  /\ stage' = "points"
  /\ UNCHANGED <<package, reading, inputs, outputs, groups, tests>>

ReadNoHeader ==
  /\ stage = "header"
  /\ ~NextIs("group") \/ Len(nfo) = 1
  /\ stage' = "store"
  /\ UNCHANGED <<package, nfo, reading, inputs, outputs, groups, tests>>

ReadPoints ==
  /\ stage = "points"
  /\ NextIs("number")
  /\ reading' = [points |-> Head(nfo).value, cases |-> {}]
  /\ nfo' = Tail(nfo)
  /\ stage' = "cases"
  /\ UNCHANGED <<package, inputs, outputs, groups, tests>>

(* Whatever is not "end" is in the list, a number or "group" too. *)
ReadCase ==
  /\ stage = "cases"
  /\ nfo # <<>> /\ ~NextIs("end")
  /\ reading' = [reading EXCEPT !.cases = @ \cup {Head(nfo)}]
  /\ nfo' = Tail(nfo)
  /\ UNCHANGED <<stage, package, inputs, outputs, groups, tests>>

(* Mutant: the loop goes on with the next group's points. *)
ReadEnd_NoHeader ==
  /\ stage = "cases"
  /\ NextIs("end")
  /\ groups' = Append(groups, reading)
  /\ nfo' = Tail(nfo)
  /\ stage' = "points"
  /\ UNCHANGED <<package, reading, inputs, outputs, tests>>

ReadEnd ==
  /\ stage = "cases"
  /\ NextIs("end")
  /\ groups' = Append(groups, reading)
  /\ nfo' = Tail(nfo)
  /\ stage' = "header"
  /\ UNCHANGED <<package, reading, inputs, outputs, tests>>

(* The stream has failed or is at its end: "end" will never come, and the   *)
(* list grows until the server has no memory.                               *)
Hang ==
  /\ \/ stage = "points" /\ ~NextIs("number")
     \/ stage = "cases" /\ nfo = <<>>
  /\ stage' = "hanging"
  /\ UNCHANGED <<package, nfo, reading, inputs, outputs, groups, tests>>

-----------------------------------------------------------------------------
(* groupOfCase: the last group that has it; the first, if none has.         *)
GroupOfCase(s) ==
  LET having == {g \in DOMAIN groups : Case(s) \in groups[g].cases}
  IN  IF having = {} THEN 1 ELSE CHOOSE g \in having : \A h \in having : h <= g

(* TestGroup::validate *)
Accepted == \A g \in DOMAIN groups : groups[g].points > 0

(* A task without groups gets one, of 100 points. *)
Store ==
  /\ stage = "store"
  /\ Accepted
  /\ groups' = IF groups = <<>> THEN <<[points |-> 100, cases |-> {}]>> ELSE groups
  /\ tests' = [i \in DOMAIN inputs |->
                 [input |-> inputs[i], output |-> outputs[i],
                  group |-> IF groups = <<>> THEN 1 ELSE GroupOfCase(inputs[i])]]
  /\ stage' = "committed"
  /\ UNCHANGED <<package, nfo, reading, inputs, outputs>>

(* The points are not valid, the contest's name is in use, or the files of  *)
(* a task that is read after this one cannot be read.                       *)
Reject ==
  /\ stage = "store"
  /\ stage' = "aborted"
  /\ UNCHANGED <<package, nfo, reading, inputs, outputs, groups, tests>>

ImportStep ==
  \/ ReadDirectory \/ ReadFails
  \/ ReadHeader \/ ReadNoHeader \/ ReadPoints \/ ReadCase \/ ReadEnd \/ Hang
  \/ Store \/ Reject

ImportNext == Upload \/ ImportStep

ImportSpec == ImportInit /\ [][ImportNext]_importingVars

-----------------------------------------------------------------------------
(* Properties *)

(* The output that a submission is compared with is the one that belongs to *)
(* the input, unless some file up to there has no counterpart.              *)
Paired ==
  \A i \in DOMAIN tests :
    (\A s \in 1..tests[i].input : s \in package.ins <=> s \in package.outs) =>
      tests[i].output = tests[i].input

(* Every case scores in the group its author put it in, with that group's   *)
(* points, unless it is in several or in none.                              *)
Grouped ==
  LET author == package.groups
      Has(g, s) == \E i \in DOMAIN author[g].cases : author[g].cases[i] = s
  IN  IF author = <<>>
      THEN Len(groups) = 1 /\ groups[1].points = 100
      ELSE \A i \in DOMAIN tests, g \in DOMAIN author :
             /\ groups[g].points = author[g].points
             /\ (\A h \in DOMAIN author : Has(h, tests[i].input) <=> h = g) => tests[i].group = g

(* A package whose task.nfo is whole becomes the task its author meant: all *)
(* of its inputs are test cases, with their outputs and in their groups, in *)
(* whatever order the directory lists the files.                            *)
ImportedAsDeclared ==
  stage = "committed" /\ package.whole =>
    /\ {tests[i].input : i \in DOMAIN tests} = package.ins /\ Len(tests) = Cardinality(package.ins)
    /\ Paired
    /\ Grouped

(* An import ends, unless a word of task.nfo is missing. *)
ImportEnds == (stage # "idle" /\ package.whole) ~> (stage \in {"committed", "aborted"})
=============================================================================
