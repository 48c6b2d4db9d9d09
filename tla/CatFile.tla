------------------------------- MODULE CatFile -------------------------------
(***************************************************************************)
(* Git.Cat and the catReader it returns: `git cat-file blob` read through  *)
(* a pipe.  Cat reads until it has a first byte, so that a failure of Git  *)
(* is an error of Cat; a failure after that is an error of Close.          *)
(*                                                                         *)
(* A blob is a number of chunks; the user may close the reader at any      *)
(* time, once.                                                             *)
(***************************************************************************)
EXTENDS GitPipe

CONSTANTS
    CatGit,     \* the subprocess
    MaxChunks   \* bound on the size of a blob

ASSUME CatAssumption == Procs = {CatGit} /\ MaxChunks \in Nat

VARIABLES
    size,        \* the chunks of the blob
    catSent,     \* the chunks that git cat-file has written
    catUser,     \* where Cat or the caller of its reader is
    catGot,      \* the chunks that were read
    sawEOF,      \* a Read returned io.EOF
    result       \* what Cat returned ("empty": a nopReader), then what Close did

catVars == <<pipeVars, size, catSent, catUser, catGot, sawEOF, result>>
userVars == <<size, catGot, sawEOF, result>>

CatTypeOK ==
    /\ PipeTypeOK
    /\ size \in 0..MaxChunks
    /\ catSent \in 0..size
    /\ catUser \in {"start", "first", "catWait", "reading", "closeWait", "done"}
    /\ catGot \in 0..catSent
    /\ sawEOF \in BOOLEAN
    /\ result \in {"none", "reader", "empty", "err", "closed"}

CatInit ==
    /\ PipeInit
    /\ size \in 0..MaxChunks
    /\ catSent = 0
    /\ catUser = "start"
    /\ catGot = 0
    /\ sawEOF = FALSE
    /\ result = "none"

CatGoto(from, to) == catUser = from /\ catUser' = to

(* The revision or the path is refused, or the subprocess does not start.  *)
CatRefused ==
    /\ CatGoto("start", "done")
    /\ result' = "err"
    /\ UNCHANGED <<pipeVars, size, catSent, catGot, sawEOF>>

CatStarts ==
    /\ CatGoto("start", "first")
    /\ StartPipe(CatGit)
    /\ UNCHANGED <<size, catSent, catGot, sawEOF, result>>

CatReadsFirst ==
    /\ CatGoto("first", "reading")
    /\ ReadChunk(CatGit)
    /\ catGot' = catGot + 1
    /\ result' = "reader"
    /\ UNCHANGED <<size, catSent, sawEOF>>

(* Mutant: Cat trusts an empty output and leaves the subprocess behind.    *)
CatReadsNothingTrusts ==
    /\ CatGoto("first", "done")
    /\ AtEOF(CatGit)
    /\ CloseReadEnd(CatGit)
    /\ result' = "empty"
    /\ UNCHANGED <<size, catSent, catGot, sawEOF>>

CatReadsNothing ==
    /\ CatGoto("first", "catWait")
    /\ AtEOF(CatGit)
    /\ CloseReadEnd(CatGit)
    /\ UNCHANGED <<size, catSent, catGot, sawEOF, result>>

(* Mutant: the exit status is not looked at.                               *)
CatReturnsUnchecked ==
    /\ CatGoto("catWait", "done")
    /\ Wait(CatGit)
    /\ result' = "empty"
    /\ UNCHANGED <<size, catSent, catGot, sawEOF>>

CatReturns ==
    /\ CatGoto("catWait", "done")
    /\ Wait(CatGit)
    /\ result' = IF proc[CatGit] = "ok" THEN "empty" ELSE "err"
    /\ UNCHANGED <<size, catSent, catGot, sawEOF>>

Read ==
    /\ catUser = "reading"
    /\ ReadChunk(CatGit)
    /\ catGot' = catGot + 1
    /\ UNCHANGED <<size, catSent, catUser, sawEOF, result>>

ReadEnds ==
    /\ catUser = "reading"
    /\ ~sawEOF
    /\ AtEOF(CatGit)
    /\ sawEOF' = TRUE
    /\ UNCHANGED <<pipeVars, size, catSent, catUser, catGot, result>>

Close ==
    /\ CatGoto("reading", "closeWait")
    /\ CloseReadEnd(CatGit)
    /\ UNCHANGED <<size, catSent, catGot, sawEOF, result>>

CloseReturns ==
    /\ CatGoto("closeWait", "done")
    /\ Wait(CatGit)
    /\ result' = IF proc[CatGit] = "ok" THEN "closed" ELSE "err"
    /\ UNCHANGED <<size, catSent, catGot, sawEOF>>

(* The context is Cat's: it may be done at any time.                       *)
Cancel == CancelContext /\ ~ctxDone /\ UNCHANGED <<userVars, catSent, catUser>>

(***************************************************************************)
(* git cat-file writes the blob and exits, or fails anywhere before.       *)
(***************************************************************************)
GitWritesBlob ==
    /\ catSent < size
    /\ WriteChunk(CatGit, catSent + 1)
    /\ catSent' = catSent + 1
    /\ UNCHANGED <<userVars, catUser>>

GitWriteFails == catSent < size /\ WriteFails(CatGit) /\ UNCHANGED <<userVars, catSent, catUser>>

GitSucceeds == catSent = size /\ Exit(CatGit, "ok") /\ UNCHANGED <<userVars, catSent, catUser>>

GitFails == Exit(CatGit, "failed") /\ UNCHANGED <<userVars, catSent, catUser>>

CatBackground ==
    /\ \/ Terminate(CatGit)
       \/ WatcherEnds(CatGit)
       \/ KilledBySignal(CatGit)
       \/ RunGitReturns(CatGit)
    /\ UNCHANGED <<userVars, catSent, catUser>>

CatSteps == CatStarts \/ CatReadsFirst \/ CatReadsNothing \/ CatReturns \/ CloseReturns

CatNext ==
    \/ CatSteps \/ CatRefused \/ Read \/ ReadEnds \/ Close
    \/ GitWritesBlob \/ GitWriteFails \/ GitSucceeds \/ GitFails
    \/ CatBackground \/ Cancel

CatSpec == CatInit /\ [][CatNext]_catVars

(***************************************************************************)
(* Git and the goroutines run on, and the user goes on reading; nothing    *)
(* says that the user ever closes the reader.                              *)
(***************************************************************************)
CatFairSpec ==
    /\ CatSpec
    /\ WF_catVars(CatSteps)
    /\ WF_catVars(Read \/ ReadEnds)
    /\ WF_catVars(GitWritesBlob \/ GitWriteFails \/ GitSucceeds)
    /\ WF_catVars(CatBackground)

-----------------------------------------------------------------------------

(***************************************************************************)
(* What Cat's callers rely on: an empty reader is an empty file, and a     *)
(* reader that was read to its end and closed without an error has given   *)
(* the whole blob, although Git may fail after any chunk.                  *)
(***************************************************************************)
WholeFile ==
    /\ result = "empty" => size = 0
    /\ result = "closed" /\ sawEOF => catGot = size

(***************************************************************************)
(* git.go on Piper: Close waits for the Git process to finish before       *)
(* returning.  It holds of Cat's own error returns too: no subprocess is   *)
(* left running and none is left unwaited.                                 *)
(***************************************************************************)
NothingLeft == catUser = "done" => proc[CatGit] = "none" \/ (~Running(CatGit) /\ CatGit \in reaped)

(***************************************************************************)
(* Close returns, and the goroutine that watches the context ends even if  *)
(* the context is never done: a subprocess that still writes meets a       *)
(* closed pipe, and the fallback's goroutine hands its error over although *)
(* the reader may be gone.                                                 *)
(***************************************************************************)
CloseEndsAll == (catUser = "closeWait") ~> (catUser = "done" /\ watchers = {})

(***************************************************************************)
(* A caller that keeps reading reaches the end of the file, and Cat        *)
(* returns, if Git does not hang.  It needs a Piper: startPipeFallback     *)
(* never closes the write end.                                             *)
(***************************************************************************)
ReaderReachesEnd ==
    /\ (piper /\ catUser = "first") ~> (catUser \in {"reading", "done"})
    /\ (piper /\ catUser = "reading") ~> (sawEOF \/ catUser = "closeWait")
=============================================================================
