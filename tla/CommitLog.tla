------------------------------ MODULE CommitLog ------------------------------
(***************************************************************************)
(* Git.Log and the Log it returns: `git rev-list` piped into `git cat-file *)
(* --batch`, whose output Log.Next parses.  The two subprocesses run with  *)
(* one context; os/exec gives `git cat-file` its standard input with a     *)
(* goroutine that copies the pipe of `git rev-list`, and Wait waits for    *)
(* that goroutine too.  One goroutine uses the Log.                        *)
(*                                                                         *)
(* Commits are numbered in the order rev-list lists them.  cat-file writes *)
(* an information line and the object, with the newline after it, for each. *)
(***************************************************************************)
EXTENDS StderrMux

CONSTANTS
    RevList, CatFile,   \* the two subprocesses
    Sizes               \* bounds: the commits listed and the pieces of stderr written

ASSUME LogAssumption ==
    /\ Procs = {RevList, CatFile}
    /\ RevList # CatFile
    /\ Pipers = {TRUE}
    /\ \A size \in Sizes : size.commits \in Nat /\ size.stderr \in 0..MaxErr

MaxCommits == CHOOSE n \in {size.commits : size \in Sizes} :
                  \A size \in Sizes : size.commits <= n

(* An information line or object that lost its end, an object that is not  *)
(* in the repository or whose data does not hash to its ID.                *)
Chunks == [what : {"line", "partOfLine", "missing", "object", "partOfObject", "badObject"},
           commit : 1..MaxCommits]

VARIABLES
    commits,    \* number of commits rev-list lists
    listed,     \* how many of them it has written
    copier,     \* the goroutine that feeds cat-file: "off", "on" or "done"
    held,       \* what it has read and not written: a commit, or 0
    stdin,      \* the commits in cat-file's standard input
    batch,      \* the commit cat-file is at, and what of it is written
    user,       \* where the user of the Log is
    atLine,     \* the commit of the information line Next has read
    got,        \* number of commits for which Next returned true
    scanErr,    \* Log.scanErr is set
    scanDone,   \* Log.scanDone
    closers,    \* the entries of Log.closers that are not nil
    firstErr,   \* close's first error is set
    ended       \* Next has returned false without a Close before it

gitVars  == <<commits, listed, batch>>
copyVars == <<copier, held, stdin>>
logVars  == <<atLine, got, scanErr, scanDone, closers, firstErr, ended>>
vars == <<pipeVars, stderrVars, gitVars, copyVars, user, logVars>>

(* pipeStreamClosers in the order Log.close goes through them.             *)
FirstCloser == IF CatFile \in closers THEN CatFile ELSE RevList

TypeOK ==
    /\ PipeTypeOK
    /\ StderrTypeOK
    /\ commits \in 0..MaxCommits
    /\ listed \in 0..commits
    /\ copier \in {"off", "on", "done"}
    /\ held \in 0..commits
    /\ Len(stdin) <= PipeCap
    /\ batch \in [commit : 0..commits, state : {"idle", "line", "object"}]
    /\ \A i \in DOMAIN pipe[CatFile] : pipe[CatFile][i] \in Chunks
    /\ user \in {"start", "starting", "abort", "abortWait", "failed", "ready", "line", "object",
                 "nextClose", "nextWait", "nextFails", "nextEnds", "close", "closeWait"}
    /\ atLine \in 0..commits
    /\ got \in 0..commits
    /\ scanErr \in BOOLEAN /\ scanDone \in BOOLEAN /\ firstErr \in BOOLEAN /\ ended \in BOOLEAN
    /\ closers \in SUBSET Procs

Init ==
    /\ PipeInit
    /\ \E size \in Sizes : commits = size.commits /\ StderrInit(size.stderr)
    /\ listed = 0
    /\ copier = "off" /\ held = 0 /\ stdin = <<>>
    /\ batch = [commit |-> 0, state |-> "idle"]
    /\ user = "start"
    /\ atLine = 0 /\ got = 0
    /\ scanErr = FALSE /\ scanDone = FALSE /\ firstErr = FALSE /\ ended = FALSE
    /\ closers = {}

Goto(from, to) == user = from /\ user' = to

-----------------------------------------------------------------------------

(***************************************************************************)
(* Git.Log.                                                                *)
(***************************************************************************)
LogRefused ==
    /\ Goto("start", "failed")
    /\ UNCHANGED <<stderrVars, pipeVars, gitVars, copyVars, logVars>>

StartRevList ==
    /\ Goto("start", "starting")
    /\ StartPipe(RevList)
    /\ StartCopying(RevList)
    /\ UNCHANGED <<gitVars, copyVars, logVars>>

StartCatFile ==
    /\ Goto("starting", "ready")
    /\ StartPipe(CatFile)
    /\ copier' = "on"
    /\ closers' = Procs
    /\ StartCopying(CatFile)
    /\ UNCHANGED <<gitVars, held, stdin, atLine, got, scanErr, scanDone, firstErr, ended>>

StartCatFileFails ==
    /\ Goto("starting", "abort")
    /\ CancelContext
    /\ UNCHANGED <<stderrVars, gitVars, copyVars, logVars>>

(* Mutant: Log does not wait for the rev-list it gives up.                 *)
AbortClosesOnly ==
    /\ Goto("abort", "failed")
    /\ CloseReadEnd(RevList)
    /\ UNCHANGED <<stderrVars, gitVars, copyVars, logVars>>

AbortCloses ==
    /\ Goto("abort", "abortWait")
    /\ CloseReadEnd(RevList)
    /\ UNCHANGED <<stderrVars, gitVars, copyVars, logVars>>

AbortWaits ==
    /\ Goto("abortWait", "failed")
    /\ Wait(RevList)
    /\ errCopy[RevList] # "on"
    /\ UNCHANGED <<stderrVars, gitVars, copyVars, logVars>>

(***************************************************************************)
(* Log.Next: an information line, the object, and at the end of the output *)
(* Log.close.  Once scanDone is set Next returns false and does nothing.   *)
(***************************************************************************)
NextCalled ==
    /\ ~scanDone
    /\ Goto("ready", "line")
    /\ UNCHANGED <<stderrVars, pipeVars, gitVars, copyVars, logVars>>

ReadFrom(kinds, from, to) ==
    /\ Goto(from, to)
    /\ ReadChunk(CatFile)
    /\ Head(pipe[CatFile]).what \in kinds
    /\ UNCHANGED <<stderrVars, gitVars, copyVars, scanErr, scanDone, closers, firstErr, ended>>

NextReadsLine ==
    /\ ReadFrom({"line"}, "line", "object")
    /\ atLine' = Head(pipe[CatFile]).commit
    /\ UNCHANGED got

NextBadLine ==
    /\ ReadFrom({"partOfLine", "missing"}, "line", "nextFails")
    /\ UNCHANGED <<atLine, got>>

NextTrue ==
    /\ ReadFrom({"object"}, "object", "ready")
    /\ got' = got + 1
    /\ UNCHANGED atLine

(* Mutant: an object that does not parse is skipped.                       *)
NextSkipsBadObject ==
    /\ ReadFrom({"badObject"}, "object", "line")
    /\ UNCHANGED <<atLine, got>>

NextBadObject ==
    /\ ReadFrom({"partOfObject", "badObject"}, "object", "nextFails")
    /\ UNCHANGED <<atLine, got>>

(* io.ReadFull returns io.EOF itself when it reads nothing: Next takes the *)
(* error that wraps it for the end of the log.                             *)
NextNoObject ==
    /\ Goto("object", "nextEnds")
    /\ AtEOF(CatFile)
    /\ UNCHANGED <<stderrVars, pipeVars, gitVars, copyVars, logVars>>

(* Mutant: the end of the output is the end of the log, without close.     *)
NextAtEndTrusts ==
    /\ Goto("line", "nextEnds")
    /\ AtEOF(CatFile)
    /\ UNCHANGED <<stderrVars, pipeVars, gitVars, copyVars, logVars>>

NextAtEnd ==
    /\ Goto("line", "nextClose")
    /\ AtEOF(CatFile)
    /\ firstErr' = FALSE
    /\ UNCHANGED <<stderrVars, pipeVars, gitVars, copyVars, atLine, got, scanErr, scanDone, closers, ended>>

NextFalse ==
    /\ user \in {"nextFails", "nextEnds"}
    /\ user' = "ready"
    /\ CancelContext
    /\ scanDone' = TRUE
    /\ scanErr' = (user = "nextFails")
    /\ ended' = TRUE
    /\ UNCHANGED <<stderrVars, gitVars, copyVars, atLine, got, closers, firstErr>>

(* Mutant: close waits for the subprocess before it closes the pipe.       *)
ClosesPipeLater(from, to) ==
    /\ closers # {}
    /\ Goto(from, to)
    /\ UNCHANGED <<stderrVars, pipeVars, gitVars, copyVars, logVars>>

(***************************************************************************)
(* Log.close, for Next and for Close: cat-file's pipe first, then          *)
(* rev-list's, each closed and waited for.                                 *)
(***************************************************************************)
ClosesPipe(from, to) ==
    /\ closers # {}
    /\ Goto(from, to)
    /\ CloseReadEnd(FirstCloser)
    /\ UNCHANGED <<stderrVars, gitVars, copyVars, logVars>>

(* Mutant: the error of rev-list is forgotten.                             *)
CloserErrOfCatFile == FirstCloser = CatFile /\ proc[FirstCloser] # "ok"

(* The subprocess failed, the copying of its stderr, or the flush.         *)
CloserErr ==
    \/ proc[FirstCloser] # "ok"
    \/ errCopy[FirstCloser] = "failed"
    \/ FlushErr(FirstCloser)

WaitsFor(from, to) ==
    /\ Goto(from, to)
    /\ Wait(FirstCloser)
    /\ FirstCloser = CatFile => copier = "done"
    /\ errCopy[FirstCloser] # "on"
    /\ Flush(FirstCloser)
    /\ firstErr' = (firstErr \/ CloserErr)
    /\ closers' = closers \ {FirstCloser}
    /\ UNCHANGED <<gitVars, copyVars, atLine, got, scanErr, scanDone, ended>>

NextClosed ==
    /\ user = "nextClose"
    /\ closers = {}
    /\ user' = IF firstErr THEN "nextFails" ELSE "nextEnds"
    /\ UNCHANGED <<stderrVars, pipeVars, gitVars, copyVars, logVars>>

(* Mutant: Close closes the pipes and only then cancels the context.       *)
CloseCalledNoCancel ==
    /\ Goto("ready", "close")
    /\ scanDone' = TRUE
    /\ firstErr' = FALSE
    /\ UNCHANGED <<stderrVars, pipeVars, gitVars, copyVars, atLine, got, scanErr, closers, ended>>

CloseCalled ==
    /\ Goto("ready", "close")
    /\ CancelContext
    /\ scanDone' = TRUE
    /\ firstErr' = FALSE
    /\ UNCHANGED <<stderrVars, gitVars, copyVars, atLine, got, scanErr, closers, ended>>

(* The error of close is ignored: Close returns scanErr.                   *)
CloseReturns ==
    /\ closers = {}
    /\ Goto("close", "ready")
    /\ UNCHANGED <<stderrVars, pipeVars, gitVars, copyVars, logVars>>

-----------------------------------------------------------------------------

(***************************************************************************)
(* The goroutine of os/exec that copies rev-list's pipe to cat-file.  A    *)
(* write to a cat-file that has exited ends it, without an error.          *)
(***************************************************************************)
CopierReads ==
    /\ copier = "on" /\ held = 0
    /\ ReadChunk(RevList)
    /\ held' = Head(pipe[RevList])
    /\ UNCHANGED <<stderrVars, gitVars, copier, stdin, user, logVars>>

CopierWrites ==
    /\ held # 0
    /\ Running(CatFile)
    /\ Len(stdin) < PipeCap
    /\ stdin' = Append(stdin, held)
    /\ held' = 0
    /\ UNCHANGED <<stderrVars, pipeVars, gitVars, copier, user, logVars>>

CopierEnds ==
    /\ copier = "on"
    /\ \/ held = 0 /\ AtEOF(RevList)
       \/ held # 0 /\ ~Running(CatFile)
    /\ copier' = "done"
    /\ held' = 0
    /\ UNCHANGED <<stderrVars, pipeVars, gitVars, stdin, user, logVars>>

Copier == CopierReads \/ CopierWrites \/ CopierEnds

(***************************************************************************)
(* git rev-list.                                                           *)
(***************************************************************************)
RevListWrites ==
    /\ listed < commits
    /\ WriteChunk(RevList, listed + 1)
    /\ listed' = listed + 1
    /\ UNCHANGED <<stderrVars, commits, batch, copyVars, user, logVars>>

RevListEnds ==
    /\ \/ listed = commits /\ Exit(RevList, "ok")
       \/ listed < commits /\ WriteFails(RevList)
    /\ UNCHANGED <<stderrVars, gitVars, copyVars, user, logVars>>

RevListFails == Exit(RevList, "failed") /\ UNCHANGED <<stderrVars, gitVars, copyVars, user, logVars>>

(***************************************************************************)
(* git cat-file --batch: for every line of its input the information line  *)
(* and the object, or "missing"; it ends with its input.                   *)
(***************************************************************************)
Chunk(w, c) == [what |-> w, commit |-> c]

CatFileTakes ==
    /\ Running(CatFile)
    /\ batch.state = "idle"
    /\ stdin # <<>>
    /\ batch' = [commit |-> Head(stdin), state |-> "line"]
    /\ stdin' = Tail(stdin)
    /\ UNCHANGED <<stderrVars, pipeVars, commits, listed, copier, held, user, logVars>>

CatFileWrites ==
    /\ \/ /\ batch.state = "line"
          /\ WriteChunk(CatFile, Chunk("line", batch.commit))
          /\ batch' = [batch EXCEPT !.state = "object"]
       \/ /\ batch.state = "line"
          /\ WriteChunk(CatFile, Chunk("missing", batch.commit))
          /\ batch' = [batch EXCEPT !.state = "idle"]
       \/ /\ batch.state = "object"
          /\ \E w \in {"object", "badObject"} : WriteChunk(CatFile, Chunk(w, batch.commit))
          /\ batch' = [batch EXCEPT !.state = "idle"]
    /\ UNCHANGED <<stderrVars, commits, listed, copyVars, user, logVars>>

CatFileEnds ==
    /\ \/ batch.state = "idle" /\ stdin = <<>> /\ copier = "done" /\ Exit(CatFile, "ok")
       \/ batch.state # "idle" /\ WriteFails(CatFile)
    /\ UNCHANGED <<stderrVars, gitVars, copyVars, user, logVars>>

(* It fails or is killed between two objects, between a line and its       *)
(* object, or in the middle of one.                                        *)
CatFileStops ==
    /\ \/ /\ batch.state = "line"
          /\ StopsAfter(CatFile, Chunk("partOfLine", batch.commit))
       \/ /\ batch.state = "object"
          /\ StopsAfter(CatFile, Chunk("partOfObject", batch.commit))
       \/ Exit(CatFile, "failed")
    /\ UNCHANGED <<stderrVars, gitVars, copyVars, user, logVars>>

-----------------------------------------------------------------------------

Watchers ==
    /\ \E p \in Procs : Terminate(p) \/ WatcherEnds(p)
    /\ UNCHANGED <<stderrVars, gitVars, copyVars, user, logVars>>

CopyStderr ==
    /\ \E p \in Procs : CopiesStderr(p) \/ CopyingEnds(p)
    /\ UNCHANGED <<pipeVars, gitVars, copyVars, user, logVars>>

GitWritesStderr ==
    /\ \E p \in Procs : WritesStderr(p)
    /\ UNCHANGED <<pipeVars, gitVars, copyVars, user, logVars>>

CancelParent ==
    /\ ~ctxDone
    /\ CancelContext
    /\ UNCHANGED <<stderrVars, gitVars, copyVars, user, logVars>>

(* The steps of a call that is in progress.                                *)
CallStep ==
    \/ StartCatFile \/ AbortCloses \/ AbortWaits
    \/ NextReadsLine \/ NextBadLine \/ NextTrue \/ NextBadObject \/ NextNoObject \/ NextAtEnd
    \/ NextClosed \/ NextFalse \/ CloseReturns
    \/ ClosesPipe("nextClose", "nextWait") \/ WaitsFor("nextWait", "nextClose")
    \/ ClosesPipe("close", "closeWait") \/ WaitsFor("closeWait", "close")

Next ==
    \/ CallStep
    \/ LogRefused \/ StartRevList \/ StartCatFileFails \/ NextCalled \/ CloseCalled
    \/ Copier \/ CopyStderr \/ Watchers \/ CancelParent \/ GitWritesStderr
    \/ RevListWrites \/ RevListEnds \/ RevListFails
    \/ CatFileTakes \/ CatFileWrites \/ CatFileEnds \/ CatFileStops

Spec == Init /\ [][Next]_vars

(***************************************************************************)
(* A call runs on, the goroutines run, and a subprocess ends that is sent  *)
(* SIGTERM or that writes to a pipe nobody reads.  Git may hang otherwise. *)
(***************************************************************************)
FairSpec ==
    /\ Spec
    /\ WF_vars(CallStep)
    /\ WF_vars(Copier)
    /\ WF_vars(CopyStderr)
    /\ WF_vars(Watchers)
    /\ WF_vars(proc[RevList] = "signalled" /\ (RevListEnds \/ RevListFails))
    /\ WF_vars(proc[CatFile] = "signalled" /\ (CatFileEnds \/ CatFileStops))

(* Neither subprocess hangs.                                               *)
GitEnds ==
    /\ WF_vars(RevListWrites \/ RevListEnds)
    /\ WF_vars(CatFileTakes \/ CatFileWrites \/ CatFileEnds)

-----------------------------------------------------------------------------

(***************************************************************************)
(* A log that ends without an error, and not within a record, is the whole *)
(* log: if Next returned false by itself and scanErr is nil, every commit  *)
(* rev-list lists was returned, and neither subprocess had failed.         *)
(***************************************************************************)
CleanEndIsComplete ==
    ended /\ ~scanErr /\ atLine = got =>
        /\ got = commits
        /\ \A p \in Procs : proc[p] = "ok"

(***************************************************************************)
(* Next returns the commits in rev-list's order, and pairs every           *)
(* information line with the object that was written after it, over three  *)
(* pipes and the copying goroutine.                                        *)
(***************************************************************************)
CommitsInOrder ==
    /\ user = "object" => atLine = got + 1
    /\ user = "object" /\ pipe[CatFile] # <<>> => Head(pipe[CatFile]).commit = atLine

(***************************************************************************)
(* When Log has failed, or the pipes have been closed, no subprocess is    *)
(* running or unwaited and the copying goroutine is over.                  *)
(***************************************************************************)
NothingLeft ==
    user = "failed" \/ (user = "ready" /\ closers = {}) =>
        /\ \A p \in Procs : proc[p] # "none" => ~Running(p) /\ p \in reaped
        /\ copier # "on"

(***************************************************************************)
(* What an error of the log shows of stderr: each subprocess's text in its *)
(* order, interrupted by the other's only where a line ends, or where all  *)
(* of its text ends or was cut off.  When Next has closed both subprocesses *)
(* it has all they wrote, to the last piece, or close returns an error: of *)
(* the copying, of the flush, or of a subprocess.                          *)
(***************************************************************************)
StderrWhole ==
    /\ \A i, j \in DOMAIN captured :
          captured[i].proc = captured[j].proc /\ i < j => captured[i].n < captured[j].n
    /\ \A i \in DOMAIN captured :
          \A n \in 1..captured[i].n : Captured(captured[i].proc, n)
    /\ \A i \in 1..Len(captured) - 1 :
          captured[i].proc # captured[i + 1].proc =>
              \/ captured[i].newline
              \/ captured[i].n = errSent[captured[i].proc]
              \/ errCopy[captured[i].proc] = "failed"
    /\ user = "nextClose" /\ closers = {} =>
          \/ \A p \in Procs : \A n \in 1..errSent[p] : Captured(p, n)
          \/ firstErr

(***************************************************************************)
(* log.go on Close: it "ends the log subprocess and waits for it to        *)
(* finish".  It returns even if rev-list hangs: cat-file's Wait depends on *)
(* the copying goroutine, that one on rev-list's output.                   *)
(***************************************************************************)
CloseEndsGit == (user = "close") ~> (user = "ready" /\ closers = {})

(***************************************************************************)
(* Next returns if neither subprocess hangs, whichever of them fails       *)
(* first, and although the pipes between them are full at times.           *)
(***************************************************************************)
NextReturns == GitEnds => (user = "line") ~> (user = "ready")

(***************************************************************************)
(* log.go:268: "Close returns an error if [Log.Next] returned false due to *)
(* a parse failure."  An information line whose object does not follow is  *)
(* a parse failure.                                                        *)
(***************************************************************************)
ParseFailureReported == ended /\ ~scanErr => atLine = got
=============================================================================
