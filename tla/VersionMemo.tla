----------------------------- MODULE VersionMemo -----------------------------
(***************************************************************************)
(* What Git.getVersion promises, with no process and no waiting in sight:  *)
(* a cell that takes the first version a call computes, and never changes  *)
(* after.                                                                  *)
(***************************************************************************)
CONSTANTS
    Calls,     \* the calls of getVersion on one Git value
    Outputs,   \* what "git --version" can print
    Empty,     \* the empty output, and the cell that holds no version
    Failed,    \* the answer of a call that returns an error
    Pending    \* the answer of a call that has not returned

VARIABLES
    version,   \* the cell
    answer     \* what every call returned

vars == <<version, answer>>

Init ==
    /\ version = Empty
    /\ answer = [c \in Calls |-> Pending]

Return(c, a) ==
    /\ answer[c] = Pending
    /\ answer' = [answer EXCEPT ![c] = a]

Recall(c) ==
    /\ version # Empty
    /\ Return(c, version)
    /\ UNCHANGED version

Compute(c) ==
    /\ version = Empty
    /\ \E v \in Outputs : version' = v /\ Return(c, v)

Fail(c) == Return(c, Failed) /\ UNCHANGED version

Next == \E c \in Calls : Recall(c) \/ Compute(c) \/ Fail(c)

Spec == Init /\ [][Next]_vars
=============================================================================
