----------------------------- MODULE RefIterator -----------------------------
(***************************************************************************)
(* Git.IterateRefs and Git.IterateRemoteRefs, and the RefIterator they     *)
(* return: `git show-ref` or `git ls-remote` read line by line through a   *)
(* pipe, filtered, with the subprocess's exit status looked at when its    *)
(* output ends.  One goroutine uses the iterator.                          *)
(***************************************************************************)
EXTENDS GitPipe

CONSTANTS
    P,           \* the subprocess
    Commands,    \* "show-ref" for IterateRefs, "ls-remote" for IterateRemoteRefs
    Repos,       \* repositories, each the lines of its refs in the order Git prints them
    OptionSets   \* the IterateRefsOptions to list them with

(* A ref stands for all those of its kind; "annotated" is a tag whose tag  *)
(* object Git can peel.                                                    *)
Refs == {"HEAD", "branch", "note", "tag", "annotated"}
Branches == {"branch"}
Tags == {"tag", "annotated"}

Options == [IncludeHead : BOOLEAN, LimitToBranches : BOOLEAN,
            LimitToTags : BOOLEAN, DereferenceTags : BOOLEAN]

(* A line of a repository; deref is "^{}" after the name.                  *)
RepoLines == [ref : Refs, deref : BOOLEAN]

ASSUME IteratorAssumption ==
    /\ Procs = {P}
    /\ Commands \subseteq {"show-ref", "ls-remote"}
    /\ \A r \in Repos : r \in Seq(RepoLines) /\ \A i \in DOMAIN r : r[i].deref => r[i].ref # "HEAD"
    /\ OptionSets \subseteq Options

VARIABLES
    command,      \* the subcommand that lists the refs
    repo,         \* the repository
    opts,         \* RefIterator.opts
    sent,         \* the place in repo of the line Git has written last
    user,         \* where the iterator's user is
    scanErr,      \* RefIterator.scanErr is set
    scanDone,     \* RefIterator.scanDone
    closer,       \* RefIterator.closer is set
    hasResults,   \* RefIterator.hasResults
    got,          \* the lines for which Next returned true
    endedByNext,  \* Next has returned false without a Close before it
    closeErr      \* what Close returned last

listing  == <<command, repo, opts>>
iterVars == <<scanErr, scanDone, closer, hasResults, got, endedByNext, closeErr>>
vars == <<pipeVars, listing, sent, user, iterVars>>

-----------------------------------------------------------------------------

(***************************************************************************)
(* The arguments of the subprocess, and what Git prints with them.         *)
(***************************************************************************)
ShowRefPrints(l) ==
    \/ l.ref = "HEAD" /\ opts.IncludeHead
    \/ /\ l.ref # "HEAD"
       /\ l.deref => opts.DereferenceTags
       /\ \/ ~opts.LimitToBranches /\ ~opts.LimitToTags
          \/ opts.LimitToBranches /\ l.ref \in Branches
          \/ opts.LimitToTags /\ l.ref \in Tags

LsRemotePrints(l) ==
    LET refsOnly == ~opts.IncludeHead /\ ~opts.DereferenceTags
        heads    == opts.LimitToBranches /\ ~opts.IncludeHead
        tags     == opts.LimitToTags /\ ~opts.IncludeHead
    IN  /\ refsOnly => l.ref # "HEAD" /\ ~l.deref
        /\ (heads \/ tags) => \/ heads /\ l.ref \in Branches
                              \/ tags /\ l.ref \in Tags

Prints(l) == IF command = "show-ref" THEN ShowRefPrints(l) ELSE LsRemotePrints(l)

(* What Git prints, and of that what it has still to print.                *)
Output == {n \in DOMAIN repo : Prints(repo[n])}
Left == {n \in Output : n > sent}

(* The n-th line of the repository as it is printed, and as it is if the   *)
(* process dies within it.                                                 *)
Line(n) == [n |-> n, ref |-> repo[n].ref, deref |-> repo[n].deref, whole |-> TRUE]
CutLine(n) == [n |-> n, ref |-> repo[n].ref, deref |-> FALSE, whole |-> FALSE]

(***************************************************************************)
(* IterateRefsOptions.filter.                                              *)
(***************************************************************************)
filter(l) ==
    /\ ~(l.ref = "HEAD" /\ ~opts.IncludeHead)
    /\ ~(l.deref /\ ~opts.DereferenceTags)
    /\ opts.LimitToBranches \/ opts.LimitToTags =>
           \/ l.ref \in Branches /\ opts.LimitToBranches
           \/ l.ref \in Tags /\ opts.LimitToTags

TypeOK ==
    /\ PipeTypeOK
    /\ command \in Commands
    /\ repo \in Repos
    /\ opts \in OptionSets
    /\ sent \in 0..Len(repo)
    /\ user \in {"start", "ready", "next", "nextWait", "nextFails", "nextEnds",
                 "close", "closeWait"}
    /\ scanErr \in BOOLEAN /\ scanDone \in BOOLEAN /\ closer \in BOOLEAN
    /\ hasResults \in BOOLEAN /\ endedByNext \in BOOLEAN
    /\ \A i \in DOMAIN got : got[i].ref \in Refs
    /\ closeErr \in {"none", "nil", "err"}

Init ==
    /\ PipeInit
    /\ command \in Commands
    /\ repo \in Repos
    /\ opts \in OptionSets
    /\ sent = 0
    /\ user = "start"
    /\ scanErr = FALSE /\ scanDone = FALSE /\ closer = FALSE /\ hasResults = FALSE
    /\ got = <<>>
    /\ endedByNext = FALSE
    /\ closeErr = "none"

Goto(from, to) == user = from /\ user' = to

IterateFails ==
    /\ Goto("start", "ready")
    /\ scanErr' = TRUE
    /\ scanDone' = TRUE
    /\ UNCHANGED <<pipeVars, listing, sent, closer, hasResults, got, endedByNext, closeErr>>

Iterate ==
    /\ Goto("start", "ready")
    /\ StartPipe(P)
    /\ closer' = TRUE
    /\ UNCHANGED <<listing, sent, scanErr, scanDone, hasResults, got, endedByNext, closeErr>>

(***************************************************************************)
(* Next.  Once scanDone is set it returns false and changes nothing.       *)
(***************************************************************************)
NextCalled ==
    /\ ~scanDone
    /\ Goto("ready", "next")
    /\ UNCHANGED <<pipeVars, listing, sent, iterVars>>

SkipLine ==
    /\ user = "next"
    /\ ReadChunk(P)
    /\ ~filter(Head(pipe[P])) \/ ~Head(pipe[P]).whole
    /\ UNCHANGED <<listing, sent, user, iterVars>>

NextTrue ==
    /\ Goto("next", "ready")
    /\ ReadChunk(P)
    /\ filter(Head(pipe[P]))
    /\ got' = Append(got, Head(pipe[P]))
    /\ hasResults' = TRUE
    /\ UNCHANGED <<listing, sent, scanErr, scanDone, closer, endedByNext, closeErr>>

(* A line that lost its end before or in its hash does not parse.          *)
ParseFails ==
    /\ Goto("next", "nextFails")
    /\ ReadChunk(P)
    /\ ~Head(pipe[P]).whole
    /\ UNCHANGED <<listing, sent, iterVars>>

ScanEnds ==
    /\ Goto("next", "nextWait")
    /\ AtEOF(P)
    /\ CloseReadEnd(P)
    /\ UNCHANGED <<listing, sent, iterVars>>

(* Mutant: any exit status without a result is taken for "no refs".        *)
IgnoredExitAny == command = "show-ref" /\ ~hasResults

(* show-ref exits with 1 when no ref matches, and that is not an error.    *)
IgnoredExit == command = "show-ref" /\ ~hasResults /\ proc[P] = "exit1"

CloseErr == ~(proc[P] = "ok" \/ IgnoredExit)

NextWaits ==
    /\ user = "nextWait"
    /\ Wait(P)
    /\ closer' = FALSE
    /\ user' = IF CloseErr THEN "nextFails" ELSE "nextEnds"
    /\ UNCHANGED <<listing, sent, scanErr, scanDone, hasResults, got, endedByNext, closeErr>>

NextFalse ==
    /\ user \in {"nextFails", "nextEnds"}
    /\ user' = "ready"
    /\ CancelContext
    /\ scanDone' = TRUE
    /\ scanErr' = (user = "nextFails")
    /\ endedByNext' = TRUE
    /\ UNCHANGED <<listing, sent, closer, hasResults, got, closeErr>>

(* Mutant: Close does not cancel the context.                              *)
CloseCalledNoCancel ==
    /\ Goto("ready", "close")
    /\ scanDone' = TRUE
    /\ UNCHANGED <<pipeVars, listing, sent, scanErr, closer, hasResults, got,
                   endedByNext, closeErr>>

(***************************************************************************)
(* Close: cancel, close the pipe if Next has not, wait, and return scanErr *)
(* (not what the interrupted subprocess exits with).                       *)
(***************************************************************************)
CloseCalled ==
    /\ Goto("ready", "close")
    /\ CancelContext
    /\ scanDone' = TRUE
    /\ UNCHANGED <<listing, sent, scanErr, closer, hasResults, got, endedByNext, closeErr>>

ClosePipe ==
    /\ closer
    /\ Goto("close", "closeWait")
    /\ CloseReadEnd(P)
    /\ UNCHANGED <<listing, sent, iterVars>>

CloseWaits ==
    /\ Goto("closeWait", "ready")
    /\ Wait(P)
    /\ closer' = FALSE
    /\ closeErr' = IF scanErr THEN "err" ELSE "nil"
    /\ UNCHANGED <<listing, sent, scanErr, scanDone, hasResults, got, endedByNext>>

CloseAgain ==
    /\ ~closer
    /\ Goto("close", "ready")
    /\ closeErr' = IF scanErr THEN "err" ELSE "nil"
    /\ UNCHANGED <<pipeVars, listing, sent, scanErr, scanDone, closer, hasResults, got,
                   endedByNext>>

-----------------------------------------------------------------------------

(***************************************************************************)
(* Git: the lines in order, then the exit status.  It may fail or be       *)
(* killed anywhere, in the middle of a line too.                           *)
(***************************************************************************)
IsNext(n) == n \in Left /\ \A m \in Left : n <= m

GitWrites ==
    /\ \E n \in Left : IsNext(n) /\ WriteChunk(P, Line(n)) /\ sent' = n
    /\ UNCHANGED <<listing, user, iterVars>>

GitStopsMidLine ==
    /\ \E n \in Left : IsNext(n) /\ StopsAfter(P, CutLine(n))
    /\ UNCHANGED <<listing, sent, user, iterVars>>

GitEnds ==
    /\ \/ Left # {} /\ WriteFails(P)
       \/ Left = {} /\ Exit(P, IF command = "show-ref" /\ Output = {} THEN "exit1" ELSE "ok")
       \/ Exit(P, "failed")
    /\ UNCHANGED <<listing, sent, user, iterVars>>

Background ==
    /\ Terminate(P) \/ WatcherEnds(P) \/ KilledBySignal(P)
    /\ UNCHANGED <<listing, sent, user, iterVars>>

CancelParent ==
    /\ ~ctxDone
    /\ CancelContext
    /\ UNCHANGED <<listing, sent, user, iterVars>>

CloseStep == ClosePipe \/ CloseWaits \/ CloseAgain

Next ==
    \/ IterateFails \/ Iterate
    \/ NextCalled \/ SkipLine \/ NextTrue \/ ParseFails \/ ScanEnds \/ NextWaits \/ NextFalse
    \/ CloseCalled \/ CloseStep
    \/ GitWrites \/ GitStopsMidLine \/ GitEnds
    \/ Background \/ CancelParent

Spec == Init /\ [][Next]_vars

(***************************************************************************)
(* Close runs on, SIGTERM is delivered and ends Git.  Git need not end on  *)
(* its own.                                                                *)
(***************************************************************************)
FairSpec ==
    /\ Spec
    /\ WF_vars(CloseStep)
    /\ WF_vars(Background)

-----------------------------------------------------------------------------

(***************************************************************************)
(* The lines that the fields of IterateRefsOptions promise: HEAD if it is  *)
(* included, other refs by the limits, dereferenced tags if asked for.      *)
(* (HEAD is promised "regardless of the other options"; under a limit      *)
(* filter drops it.)                                                       *)
(***************************************************************************)
Wanted ==
    {n \in DOMAIN repo :
        LET l == repo[n]
            limited == opts.LimitToBranches \/ opts.LimitToTags
        IN IF l.ref = "HEAD" THEN opts.IncludeHead /\ ~limited
           ELSE /\ l.deref => opts.DereferenceTags
                /\ limited => \/ opts.LimitToBranches /\ l.ref \in Branches
                              \/ opts.LimitToTags /\ l.ref \in Tags}

(* The lines got are these, each once, in their order.                     *)
GotExactly(lines) ==
    /\ {got[i] : i \in DOMAIN got} = {Line(n) : n \in lines}
    /\ \A i, j \in DOMAIN got : i < j => got[i].n < got[j].n

(***************************************************************************)
(* A listing that ends without an error is the whole listing: if Next      *)
(* returned false by itself and Close returns nil, Next was true for the   *)
(* refs the options ask for, in Git's order, whatever Git failed of and    *)
(* whatever line it was cut off in.                                        *)
(***************************************************************************)
CleanEndIsComplete == endedByNext /\ ~scanErr => GotExactly(Wanted)

(***************************************************************************)
(* revision.go on RefIterator: "Closing the iterator stops the             *)
(* subprocess", a Git that hangs included; and Close leaves no subprocess  *)
(* unwaited.                                                               *)
(***************************************************************************)
ClosingStopsGit ==
    (user = "close") ~> (user = "ready" /\ ~Running(P) /\ (proc[P] # "none" => P \in reaped))
=============================================================================
