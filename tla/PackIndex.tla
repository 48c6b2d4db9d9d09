------------------------------ MODULE PackIndex ------------------------------
(***************************************************************************)
(* What packfile.BuildIndex promises, with no goroutine in sight: entries  *)
(* of a packfile get a row in the index one at a time, an entry only after *)
(* the object its delta header names is there; the call either fails or    *)
(* returns once no entry that could be reconstructed is left out.          *)
(***************************************************************************)
EXTENDS Integers

CONSTANTS
    Entries,   \* positions of the packfile's entries, in file order
    Ids        \* object IDs

VARIABLES
    pack,      \* the packfile: a record for every entry
    rows,      \* the entries that have a row in the index
    outcome    \* "running", "ok" or "err": what BuildIndex returned

vars == <<pack, rows, outcome>>

(***************************************************************************)
(* The entry can be turned into an object once the objects of S are known. *)
(***************************************************************************)
HasBaseIn(S, o) ==
    \/ pack[o].kind = "base"
    \/ pack[o].kind = "ofs" /\ pack[o].baseOff \in S
    \/ pack[o].kind = "ref" /\ \E b \in S : pack[b].id = pack[o].baseId

Closed(S) == \A o \in Entries : HasBaseIn(S, o) => o \in S

(***************************************************************************)
(* The entries that can be reconstructed from the packfile alone: the      *)
(* least set closed under applying deltas.                                 *)
(***************************************************************************)
Resolvable == {o \in Entries : \A S \in SUBSET Entries : Closed(S) => o \in S}

Init == rows = {} /\ outcome = "running"

AddRow(o) ==
    /\ outcome = "running"
    /\ o \notin rows
    /\ HasBaseIn(rows, o)
    /\ rows' = rows \cup {o}
    /\ UNCHANGED <<pack, outcome>>

Succeed ==
    /\ outcome = "running"
    /\ rows = Resolvable
    /\ outcome' = "ok"
    /\ UNCHANGED <<pack, rows>>

Fail ==
    /\ outcome = "running"
    /\ outcome' = "err"
    /\ UNCHANGED <<pack, rows>>

Next == (\E o \in Entries : AddRow(o)) \/ Succeed \/ Fail

Spec == Init /\ [][Next]_vars
=============================================================================
