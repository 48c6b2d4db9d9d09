----------------------------- MODULE MCCommitLog -----------------------------
EXTENDS CommitLog

MCProcs == {RevList, CatFile}

Size(n, m) == [commits |-> n, stderr |-> m]

(* Text on stderr with few commits, and more commits without it.           *)
MCSizes == {Size(n, 0) : n \in 0..3} \cup {Size(1, 1), Size(0, 3)}
MCSizesCut == {Size(n, 0) : n \in 0..2}
=============================================================================
