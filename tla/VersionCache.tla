---------------------------- MODULE VersionCache ----------------------------
(***************************************************************************)
(* Git.getVersion: any number of concurrent calls on one Git value share   *)
(* one run of "git --version".  The first call to find no version and no   *)
(* run makes the channel versionCond and runs Git; the others wait for the *)
(* channel to be closed or for their own context, and look again.          *)
(*                                                                         *)
(* A call is one execution of getVersion, so it leads at most one run, and *)
(* the channel it makes is named by the call.  No section under versionMu  *)
(* blocks: each is one action.                                             *)
(***************************************************************************)
EXTENDS FiniteSets

CONSTANTS
    Calls,     \* the calls of getVersion on one Git value
    Outputs,   \* what "git --version" can print
    Empty,     \* the empty string
    Failed,    \* an error, from Git or from the call
    Pending,   \* no answer and no outcome yet
    NoCond     \* versionCond is nil

ASSUME CallsAssumption ==
    /\ Empty \in Outputs
    /\ Failed \notin Outputs /\ Pending \notin Outputs /\ Failed # Pending
    /\ NoCond \notin Calls

VARIABLES
    version,     \* Git.version
    cond,        \* Git.versionCond: the call that made the channel, or NoCond
    closed,      \* the channels that are closed
    pc,          \* where every call is
    waitsOn,     \* the channel a call copied into c
    cancelled,   \* the calls whose context is done
    proc,        \* the Git process of the call
    out,         \* what RunGit returned to the call
    answer       \* what the call returned

shared == <<version, cond, closed>>
vars == <<shared, pc, waitsOn, cancelled, proc, out, answer>>

TypeOK ==
    /\ version \in Outputs
    /\ cond \in Calls \cup {NoCond}
    /\ closed \in SUBSET Calls
    /\ pc \in [Calls -> {"idle", "lock", "wait", "run", "git", "store", "done"}]
    /\ waitsOn \in [Calls -> Calls \cup {NoCond}]
    /\ cancelled \in SUBSET Calls
    /\ proc \in [Calls -> {"none", "running", "signalled", "exited"}]
    /\ out \in [Calls -> Outputs \cup {Failed, Pending}]
    /\ answer \in [Calls -> Outputs \cup {Failed, Pending}]

Init ==
    /\ version = Empty
    /\ cond = NoCond
    /\ closed = {}
    /\ pc = [c \in Calls |-> "idle"]
    /\ waitsOn = [c \in Calls |-> NoCond]
    /\ cancelled = {}
    /\ proc = [c \in Calls |-> "none"]
    /\ out = [c \in Calls |-> Pending]
    /\ answer = [c \in Calls |-> Pending]

Goto(c, from, to) == pc[c] = from /\ pc' = [pc EXCEPT ![c] = to]

Answer(c, a) == answer' = [answer EXCEPT ![c] = a]

Start(c) ==
    /\ Goto(c, "idle", "lock")
    /\ UNCHANGED <<shared, waitsOn, cancelled, proc, out, answer>>

(***************************************************************************)
(* The context of a call may be done at any time, before it starts even.   *)
(***************************************************************************)
Cancel(c) ==
    /\ pc[c] # "done"
    /\ c \notin cancelled
    /\ cancelled' = cancelled \cup {c}
    /\ UNCHANGED <<shared, pc, waitsOn, proc, out, answer>>

(* Mutant: if instead of for, a call that has waited does not look again.  *)
NoRunOnceWaited(c) == cond = NoCond \/ waitsOn[c] # NoCond

(* With the mutex held, versionCond is looked at again after every wait.   *)
NoRun(c) == cond = NoCond

Wait(c) ==
    /\ ~NoRun(c)
    /\ Goto(c, "lock", "wait")
    /\ waitsOn' = [waitsOn EXCEPT ![c] = cond]
    /\ UNCHANGED <<shared, cancelled, proc, out, answer>>

Wake(c) ==
    /\ waitsOn[c] \in closed
    /\ Goto(c, "wait", "lock")
    /\ UNCHANGED <<shared, waitsOn, cancelled, proc, out, answer>>

(* Mutant: the context is only looked at once the channel is closed.       *)
GiveUpLate(c) ==
    /\ c \in cancelled
    /\ waitsOn[c] \in closed
    /\ Goto(c, "wait", "done")
    /\ Answer(c, Failed)
    /\ UNCHANGED <<shared, waitsOn, cancelled, proc, out>>

GiveUp(c) ==
    /\ c \in cancelled
    /\ Goto(c, "wait", "done")
    /\ Answer(c, Failed)
    /\ UNCHANGED <<shared, waitsOn, cancelled, proc, out>>

ReadCached(c) ==
    /\ NoRun(c)
    /\ version # Empty
    /\ Goto(c, "lock", "done")
    /\ Answer(c, version)
    /\ UNCHANGED <<shared, waitsOn, cancelled, proc, out>>

(* Mutant: the call runs Git even when a version is cached.                *)
LeadUnchecked(c) ==
    /\ NoRun(c)
    /\ Goto(c, "lock", "run")
    /\ cond' = c
    /\ UNCHANGED <<version, closed, waitsOn, cancelled, proc, out, answer>>

Lead(c) ==
    /\ NoRun(c)
    /\ version = Empty
    /\ Goto(c, "lock", "run")
    /\ cond' = c
    /\ UNCHANGED <<version, closed, waitsOn, cancelled, proc, out, answer>>

(***************************************************************************)
(* Git.output, Local.RunGit and sigterm.Run.  A context that is done does  *)
(* not keep the process from starting.                                     *)
(***************************************************************************)
StartFails(c) ==
    /\ Goto(c, "run", "store")
    /\ out' = [out EXCEPT ![c] = Failed]
    /\ UNCHANGED <<shared, waitsOn, cancelled, proc, answer>>

StartGit(c) ==
    /\ Goto(c, "run", "git")
    /\ proc' = [proc EXCEPT ![c] = "running"]
    /\ UNCHANGED <<shared, waitsOn, cancelled, out, answer>>

(* The goroutine of sigterm.Start, while the process has not been waited   *)
(* for.                                                                    *)
Terminate(c) ==
    /\ c \in cancelled
    /\ proc[c] = "running"
    /\ proc' = [proc EXCEPT ![c] = "signalled"]
    /\ UNCHANGED <<shared, pc, waitsOn, cancelled, out, answer>>

(* The process exits, on its own or from the signal, and RunGit returns    *)
(* its output or an error.                                                 *)
GitExits(c) ==
    /\ proc[c] \in {"running", "signalled"}
    /\ proc' = [proc EXCEPT ![c] = "exited"]
    /\ Goto(c, "git", "store")
    /\ \E r \in Outputs \cup {Failed} : out' = [out EXCEPT ![c] = r]
    /\ UNCHANGED <<shared, waitsOn, cancelled, answer>>

SignalledExits(c) == proc[c] = "signalled" /\ GitExits(c)

(* Mutant: the leader's error is the error of every call that waits.       *)
StoreShared(c) ==
    /\ Goto(c, "store", "done")
    /\ closed' = closed \cup {cond}
    /\ cond' = NoCond
    /\ version' = IF out[c] = Failed THEN version ELSE out[c]
    /\ answer' = [d \in Calls |-> IF d = c \/ (pc[d] = "wait" /\ out[c] = Failed)
                                 THEN out[c] ELSE answer[d]]
    /\ UNCHANGED <<waitsOn, cancelled, proc, out>>

(* Mutant: the early return on an error leaves the channel open.           *)
StoreKeepsCond(c) ==
    /\ Goto(c, "store", "done")
    /\ IF out[c] = Failed
       THEN UNCHANGED <<closed, cond, version>>
       ELSE closed' = closed \cup {cond} /\ cond' = NoCond /\ version' = out[c]
    /\ Answer(c, out[c])
    /\ UNCHANGED <<waitsOn, cancelled, proc, out>>

(***************************************************************************)
(* The leader closes the channel and takes it down before it looks at the  *)
(* error, and only a success is stored.                                    *)
(***************************************************************************)
Store(c) ==
    /\ Goto(c, "store", "done")
    /\ closed' = closed \cup {cond}
    /\ cond' = NoCond
    /\ version' = IF out[c] = Failed THEN version ELSE out[c]
    /\ Answer(c, out[c])
    /\ UNCHANGED <<waitsOn, cancelled, proc, out>>

Step(c) == \/ Wait(c) \/ Wake(c) \/ ReadCached(c) \/ Lead(c)
           \/ StartGit(c) \/ Store(c)

Next == \E c \in Calls :
    Step(c) \/ Start(c) \/ Cancel(c) \/ GiveUp(c) \/ StartFails(c)
            \/ Terminate(c) \/ GitExits(c)

Spec == Init /\ [][Next]_vars

(***************************************************************************)
(* The code of every call runs on, a call whose context is done notices,   *)
(* and a process ends once it is sent SIGTERM.  Nothing says that Git ends *)
(* otherwise, nor that any context is ever done.                           *)
(***************************************************************************)
Fairness ==
    \A c \in Calls :
        /\ WF_vars(Step(c))
        /\ WF_vars(GiveUp(c))
        /\ WF_vars(Terminate(c))
        /\ WF_vars(SignalledExits(c))

FairSpec == Spec /\ Fairness

(* Git ends by itself.                                                     *)
GitEnds == \A c \in Calls : WF_vars(GitExits(c))

-----------------------------------------------------------------------------

(***************************************************************************)
(* One `git --version` runs at a time, and none once a version is cached:  *)
(* a call that is woken, or that arrives between the leader's two sections *)
(* under the mutex, must not start another.                                *)
(***************************************************************************)
SingleFlight ==
    \A c \in Calls : proc[c] \in {"running", "signalled"} =>
        /\ version = Empty
        /\ \A d \in Calls : proc[d] \in {"running", "signalled"} => c = d

(***************************************************************************)
(* Calls share a success and never an error: a call that fails ran Git     *)
(* itself and Git failed, or its own context is done.  A leader that is    *)
(* cancelled must not fail the calls that wait for it.                     *)
(***************************************************************************)
FailsAlone ==
    \A c \in Calls : answer[c] = Failed => out[c] = Failed \/ c \in cancelled

(***************************************************************************)
(* A call whose context is done returns, whatever it is doing and however  *)
(* long the `git --version` of another call takes.                         *)
(***************************************************************************)
CancelledReturns ==
    \A c \in Calls : (c \in cancelled /\ pc[c] # "idle") ~> pc[c] = "done"

(***************************************************************************)
(* If Git always ends, every call returns: no wake-up is lost and calls    *)
(* do not wait for each other, whichever of them fail or are cancelled.    *)
(***************************************************************************)
EveryCallReturns == GitEnds => \A c \in Calls : (pc[c] = "lock") ~> pc[c] = "done"

(***************************************************************************)
(* The calls together are a cell that is computed once.                    *)
(***************************************************************************)
Memo == INSTANCE VersionMemo

ImplementsVersionMemo == Memo!Spec
=============================================================================
