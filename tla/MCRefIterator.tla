---------------------------- MODULE MCRefIterator ----------------------------
EXTENDS RefIterator, SequencesExt

MCProcs == {P}

(* Every repository with at most one ref of each kind; "annotated" has two *)
(* lines.                                                                  *)
RefLine(ref, deref) == [ref |-> ref, deref |-> deref]

AllLines == <<RefLine("HEAD", FALSE), RefLine("branch", FALSE), RefLine("note", FALSE),
              RefLine("tag", FALSE), RefLine("annotated", FALSE), RefLine("annotated", TRUE)>>

AllRepos == {SelectSeq(AllLines, LAMBDA l : l.ref \in refs) : refs \in SUBSET Refs}
BothCommands == {"show-ref", "ls-remote"}
AllOptions == Options
=============================================================================
