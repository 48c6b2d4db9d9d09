------------------------------- MODULE GitPipe -------------------------------
(***************************************************************************)
(* A Git subprocess whose standard output is read through a pipe: StartPipe *)
(* in git.go, the Local runner, and the goroutine of sigterm.Start.  The   *)
(* modules that read such pipes extend this one and say what the processes *)
(* write (WriteChunk) and who reads it.                                    *)
(*                                                                         *)
(* With a Runner that is a Piper, StartPipe is Local.PipeGit: an OS pipe,  *)
(* whose write end the process holds and that the reader's Close waits on. *)
(* Without, it is startPipeFallback: an io.Pipe that RunGit is given as    *)
(* Stdout, and a goroutine that runs RunGit.                               *)
(***************************************************************************)
EXTENDS Integers, Sequences

CONSTANTS
    Procs,   \* the subprocesses
    Pipers,  \* whether the Runner implements Piper: TRUE, FALSE or both
    PipeCap  \* chunks a pipe holds before its writer blocks

ASSUME PipeAssumption == PipeCap \in Nat \ {0} /\ Pipers \subseteq BOOLEAN

VARIABLES
    piper,     \* the Runner implements Piper
    ctxDone,   \* the context of the subprocesses is done
    proc,      \* the state of every subprocess, its exit status at the end
    pipe,      \* the chunks written and not read
    writeEnd,  \* pipes whose write end is open
    readEnd,   \* pipes whose read end is open
    reaped,    \* subprocesses whose Wait has returned
    watchers   \* subprocesses watched by a goroutine of sigterm.Start

pipeVars == <<piper, ctxDone, proc, pipe, writeEnd, readEnd, reaped, watchers>>

(* "exit1" is exit status 1, "failed" is another status or a signal, or    *)
(* what the copying of the output failed with.                             *)
Exited == {"ok", "exit1", "failed"}

PipeTypeOK ==
    /\ piper \in Pipers
    /\ ctxDone \in BOOLEAN
    /\ proc \in [Procs -> {"none", "running", "signalled"} \cup Exited]
    /\ \A p \in Procs : Len(pipe[p]) <= PipeCap
    /\ writeEnd \in SUBSET Procs
    /\ readEnd \in SUBSET Procs
    /\ reaped \in SUBSET Procs
    /\ watchers \in SUBSET Procs

PipeInit ==
    /\ piper \in Pipers
    /\ ctxDone = FALSE
    /\ proc = [p \in Procs |-> "none"]
    /\ pipe = [p \in Procs |-> <<>>]
    /\ writeEnd = {} /\ readEnd = {} /\ reaped = {} /\ watchers = {}

Running(p) == proc[p] \in {"running", "signalled"}

StartPipe(p) ==
    /\ proc[p] = "none"
    /\ proc' = [proc EXCEPT ![p] = "running"]
    /\ writeEnd' = writeEnd \cup {p}
    /\ readEnd' = readEnd \cup {p}
    /\ watchers' = watchers \cup {p}
    /\ UNCHANGED <<piper, ctxDone, pipe, reaped>>

CancelContext ==
    /\ ctxDone' = TRUE
    /\ UNCHANGED <<piper, proc, pipe, writeEnd, readEnd, reaped, watchers>>

(***************************************************************************)
(* The goroutine of sigterm.Start: SIGTERM if the context is done first,   *)
(* nothing if the subprocess has been waited for first.                    *)
(***************************************************************************)
Terminate(p) ==
    /\ p \in watchers
    /\ ctxDone
    /\ watchers' = watchers \ {p}
    /\ proc' = [proc EXCEPT ![p] = IF @ = "running" THEN "signalled" ELSE @]
    /\ UNCHANGED <<piper, ctxDone, pipe, writeEnd, readEnd, reaped>>

WatcherEnds(p) ==
    /\ p \in watchers
    /\ p \in reaped
    /\ watchers' = watchers \ {p}
    /\ UNCHANGED <<piper, ctxDone, proc, pipe, writeEnd, readEnd, reaped>>

(***************************************************************************)
(* What the subprocess does: write, fail on a pipe nobody reads, exit.  A  *)
(* subprocess that exits closes its end of an OS pipe; startPipeFallback   *)
(* leaves the PipeWriter open.                                             *)
(***************************************************************************)
WriteChunk(p, x) ==
    /\ Running(p)
    /\ p \in readEnd
    /\ Len(pipe[p]) < PipeCap
    /\ pipe' = [pipe EXCEPT ![p] = Append(@, x)]
    /\ UNCHANGED <<piper, ctxDone, proc, writeEnd, readEnd, reaped, watchers>>

(* Mutant: this process keeps a copy of the write end.                     *)
ExitHoldsWriteEnd(p, status) ==
    /\ Running(p)
    /\ proc' = [proc EXCEPT ![p] = status]
    /\ UNCHANGED <<piper, ctxDone, pipe, writeEnd, readEnd, reaped, watchers>>

Exit(p, status) ==
    /\ Running(p)
    /\ proc' = [proc EXCEPT ![p] = status]
    /\ writeEnd' = IF piper THEN writeEnd \ {p} ELSE writeEnd
    /\ UNCHANGED <<piper, ctxDone, pipe, readEnd, reaped, watchers>>

(* The subprocess fails after a part of what it was writing.               *)
StopsAfter(p, part) ==
    /\ Running(p)
    /\ p \in readEnd
    /\ Len(pipe[p]) < PipeCap
    /\ pipe' = [pipe EXCEPT ![p] = Append(@, part)]
    /\ proc' = [proc EXCEPT ![p] = "failed"]
    /\ writeEnd' = IF piper THEN writeEnd \ {p} ELSE writeEnd
    /\ UNCHANGED <<piper, ctxDone, readEnd, reaped, watchers>>

WriteFails(p) == p \notin readEnd /\ Exit(p, "failed")

KilledBySignal(p) == proc[p] = "signalled" /\ Exit(p, "failed")

(***************************************************************************)
(* Without Piper, RunGit returns in its goroutine once the subprocess has  *)
(* exited and its output is copied.                                        *)
(***************************************************************************)
RunGitReturns(p) ==
    /\ ~piper
    /\ proc[p] \in Exited
    /\ pipe[p] = <<>>
    /\ p \notin reaped
    /\ reaped' = reaped \cup {p}
    /\ UNCHANGED <<piper, ctxDone, proc, pipe, writeEnd, readEnd, watchers>>

(***************************************************************************)
(* The reader's calls: Read, and the two halves of localPipe.Close.  With  *)
(* an io.Pipe, output that is still to be copied fails RunGit when the     *)
(* read end is closed.                                                     *)
(***************************************************************************)
ReadChunk(p) ==
    /\ p \in readEnd
    /\ pipe[p] # <<>>
    /\ pipe' = [pipe EXCEPT ![p] = Tail(@)]
    /\ UNCHANGED <<piper, ctxDone, proc, writeEnd, readEnd, reaped, watchers>>

AtEOF(p) == pipe[p] = <<>> /\ p \notin writeEnd

(* Mutant: Close waits and leaves the read end open.                       *)
CloseReadEndLater(p) == p \in readEnd /\ UNCHANGED pipeVars

CloseReadEnd(p) ==
    /\ readEnd' = readEnd \ {p}
    /\ pipe' = [pipe EXCEPT ![p] = <<>>]
    /\ proc' = [proc EXCEPT ![p] = IF ~piper /\ @ = "ok" /\ pipe[p] # <<>>
                                   THEN "failed" ELSE @]
    /\ UNCHANGED <<piper, ctxDone, writeEnd, reaped, watchers>>

Wait(p) ==
    /\ IF piper THEN proc[p] \in Exited ELSE p \in reaped
    /\ reaped' = reaped \cup {p}
    /\ UNCHANGED <<piper, ctxDone, proc, pipe, writeEnd, readEnd, watchers>>
=============================================================================
