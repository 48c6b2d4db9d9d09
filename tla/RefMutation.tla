----------------------------- MODULE RefMutation -----------------------------
(***************************************************************************)
(* The refs of a repository and Git.MutateRefs (revision.go), which changes *)
(* them with one run of `git update-ref --stdin -z`.  Clients read a ref    *)
(* (Git.ParseRev) and later ask for mutations that may depend on what they  *)
(* read, while others do the same.                                          *)
(***************************************************************************)
EXTENDS Integers, FiniteSets

CONSTANTS
    Refs,     \* names of refs
    Ids,      \* object ids
    Clients,  \* callers of ParseRev and MutateRefs
    MaxCalls  \* bound on the calls to MutateRefs

(* refZeroValue: as a value of refs, the ref does not exist.  Unset is an  *)
(* empty newvalue or oldvalue.                                             *)
Zero == "zero"
Unset == "unset"
Values == Ids \cup {Zero}

(* No object id is an empty value.                                         *)
ASSUME IdsAssumption == Unset \notin Ids

VARIABLES
    refs,   \* what every ref points to
    seen,   \* the value each client last read of each ref
    calls,  \* calls to MutateRefs so far
    unkept  \* constructors whose doc was broken by a call that succeeded

refVars == <<refs, seen, calls, unkept>>

RefInit ==
    /\ refs \in [Refs -> Values]
    /\ seen = [c \in Clients |-> [r \in Refs |-> Zero]]
    /\ calls = 0
    /\ unkept = {}

RefTypeOK ==
    /\ refs \in [Refs -> Values]
    /\ seen \in [Clients -> [Refs -> Values]]
    /\ calls \in 0..MaxCalls
    /\ unkept \subseteq {"SetRefIfMatches", "CreateRef", "DeleteRefIfMatches"}

-----------------------------------------------------------------------------
(* The constructors of RefMutation.                                        *)

Mutation(command, newvalue, oldvalue) ==
    [command |-> command, newvalue |-> newvalue, oldvalue |-> oldvalue]

Noop == Mutation("", Unset, Unset)

SetRef(newvalue) ==
    IF newvalue = Zero THEN Mutation("updateerror", Unset, Unset)
    ELSE Mutation("update", newvalue, Unset)

(* oldvalue is tested and then left out of the mutation.                   *)
SetRefIfMatches(oldvalue, newvalue) ==
    IF Zero \in {oldvalue, newvalue} THEN Mutation("updateerror", Unset, Unset)
    ELSE Mutation("update", newvalue, Unset)

CreateRef(newvalue) ==
    IF newvalue = Zero THEN Mutation("createerror", Unset, Unset)
    ELSE Mutation("create", newvalue, Unset)

DeleteRef == Mutation("delete", Unset, Unset)

DeleteRefIfMatches(oldvalue) ==
    IF oldvalue = Zero THEN Mutation("deleteerror", Unset, Unset)
    ELSE Mutation("delete", Unset, oldvalue)

(* A request names the constructor and its arguments.                      *)
Request(by, old, new) == [by |-> by, old |-> old, new |-> new]

Requests(s) ==
    {Request("Noop", Unset, Unset), Request("DeleteRef", Unset, Unset),
     Request("DeleteRefIfMatches", s, Unset)}
    \cup {Request(by, Unset, v) : by \in {"SetRef", "CreateRef"}, v \in Values}
    \cup {Request("SetRefIfMatches", s, v) : v \in Values}

MutationOf(q) ==
    CASE q.by = "SetRef" -> SetRef(q.new)
      [] q.by = "SetRefIfMatches" -> SetRefIfMatches(q.old, q.new)
      [] q.by = "CreateRef" -> CreateRef(q.new)
      [] q.by = "DeleteRef" -> DeleteRef
      [] q.by = "DeleteRefIfMatches" -> DeleteRefIfMatches(q.old)
      [] OTHER -> Noop

(* What the docs of the constructors require of the value that is replaced. *)
Promise(q, value) ==
    CASE q.by \in {"SetRefIfMatches", "DeleteRefIfMatches"} -> value = q.old
      [] q.by = "CreateRef" -> value = Zero
      [] OTHER -> TRUE

-----------------------------------------------------------------------------
(* One command of update-ref: in the -z format an empty old value is not    *)
(* verified.                                                               *)
Verifies(mut, value) ==
    /\ mut.command = "create" => value = Zero
    /\ mut.oldvalue # Unset => value = mut.oldvalue

ValueAfter(mut) == IF mut.command = "delete" THEN Zero ELSE mut.newvalue

(* Git runs the commands for the refs D as one transaction: all of them or *)
(* none.                                                                   *)
UpdateRefs(D, mut) ==
    refs' = [r \in Refs |-> IF r \in D THEN ValueAfter(mut[r]) ELSE refs[r]]

(* The requests of q that no-op mutations do not drop, and what MutateRefs *)
(* passes to Git for them.                                                 *)
Given(q) == {r \in DOMAIN q : q[r].by # "Noop"}
InputFor(q) == [r \in Given(q) |-> MutationOf(q[r])]

MutateCalled(q) ==
    /\ calls < MaxCalls
    /\ calls' = calls + 1
    /\ Given(q) # {}
    /\ \A r \in Given(q) :
         InputFor(q)[r].command \notin {"updateerror", "createerror", "deleteerror"}

MutateRefs(q) ==
    /\ MutateCalled(q)
    /\ \A r \in Given(q) : Verifies(InputFor(q)[r], refs[r])
    /\ UpdateRefs(Given(q), InputFor(q))
    /\ unkept' = unkept \cup {q[r].by : r \in {s \in Given(q) : ~Promise(q[s], refs[s])}}
    /\ UNCHANGED seen

(* The run fails after the transaction, as when its context is done too    *)
(* late: the caller has an error and the refs have changed.                *)
MutateRefsKilledLate(q) ==
    /\ MutateCalled(q)
    /\ \A r \in Given(q) : Verifies(InputFor(q)[r], refs[r])
    /\ UpdateRefs(Given(q), InputFor(q))
    /\ UNCHANGED <<seen, unkept>>

(* Without a mutation, with an invalid one, or when Git refuses one of     *)
(* them, nothing changes: those calls are stuttering steps.                *)

ParseRev(c, r) ==
    /\ seen[c][r] # refs[r]
    /\ seen' = [seen EXCEPT ![c][r] = refs[r]]
    /\ UNCHANGED <<refs, calls, unkept>>

RefNext ==
    \E c \in Clients :
      \/ \E r \in Refs : ParseRev(c, r)
      \/ \E D \in SUBSET Refs : \E q \in [D -> UNION {Requests(v) : v \in Values}] :
           /\ \A r \in D : q[r] \in Requests(seen[c][r])
           /\ MutateRefs(q) \/ MutateRefsKilledLate(q)

RefSpec == RefInit /\ [][RefNext]_refVars

-----------------------------------------------------------------------------
(* SetRefIfMatches: "sets a ref to newvalue, failing if the ref does not   *)
(* have the given oldvalue".  Two clients that read a ref and then set it  *)
(* if it matches do not overwrite each other's value.                      *)
NoLostUpdate == "SetRefIfMatches" \notin unkept
=============================================================================
