--------------------------- MODULE CommitLogProofs ---------------------------
(***************************************************************************)
(* Proofs about a Log, for any number of commits and any size of the pipes *)
(* between git rev-list, git cat-file and Log.Next: that the commits come  *)
(* in order, that a clean end is the end of the log, that no subprocess    *)
(* and no goroutine is left, and that what is captured of standard error   *)
(* is whole.                                                               *)
(*                                                                         *)
(* The argument reads the pipes from the last to the first.  Every chunk   *)
(* is an information line or an object of a commit; what is due after one  *)
(* is determined by it.  What is in cat-file's pipe leads from what Next   *)
(* is waiting for to what cat-file writes next, and the numbers in its     *)
(* standard input, in the hands of the copying goroutine and in rev-list's *)
(* pipe go on from there to the last commit listed.                        *)
(***************************************************************************)
EXTENDS CommitLog, WellFoundedInduction, TLAPS

AllChunks == [what : {"line", "partOfLine", "missing", "object", "partOfObject", "badObject"},
              commit : Nat]

Kind(x) == IF x.what \in {"object", "partOfObject", "badObject"} THEN "object" ELSE "line"
IsDue(x) == <<Kind(x), x.commit>>

(* Nothing follows a part of a chunk.                                      *)
DueAfter(x) ==
    IF x.what \in {"partOfLine", "partOfObject"} THEN IsDue(x)
    ELSE IF x.what = "line" THEN <<"object", x.commit>>
    ELSE <<"line", x.commit + 1>>

(* What cat-file writes next, and what Next reads next.                    *)
WriterDue ==
    IF batch.state = "object" THEN <<"object", batch.commit>>
    ELSE IF batch.state = "line" THEN <<"line", batch.commit>>
    ELSE <<"line", batch.commit + 1>>

ReaderDue == IF user = "object" THEN <<"object", atLine>> ELSE <<"line", got + 1>>

(* The chunks q lead from what is due first to what is due after them.     *)
Leads(q, first, last) ==
    /\ q = <<>> => first = last
    /\ q # <<>> => IsDue(q[1]) = first /\ DueAfter(q[Len(q)]) = last
    /\ \A i \in 1..Len(q) - 1 : IsDue(q[i + 1]) = DueAfter(q[i])

(* The numbers q go on from n.                                             *)
GoesOn(q, n) == \A i \in 1..Len(q) : q[i] = n + i

BeforeLog == {"start", "starting", "abort", "abortWait", "failed"}
InLog == {"ready", "line", "object", "nextClose", "nextWait", "nextFails", "nextEnds",
          "close", "closeWait"}

LogTypes ==
    /\ piper = TRUE
    /\ proc \in [Procs -> {"none", "running", "signalled", "ok", "failed"}]
    /\ pipe = [p \in Procs |-> pipe[p]]
    /\ pipe[RevList] \in Seq(Nat) /\ pipe[CatFile] \in Seq(AllChunks)
    /\ commits \in Nat /\ listed \in Nat /\ got \in Nat /\ atLine \in Nat /\ held \in Nat
    /\ stdin \in Seq(Nat)
    /\ batch \in [commit : Nat, state : {"idle", "line", "object"}]
    /\ copier \in {"off", "on", "done"}
    /\ user \in BeforeLog \cup InLog
    /\ closers \in {{}, {RevList}, Procs}

(* The processes, and what an exit status of 0 says of each.               *)
ProcessesKnown ==
    /\ \A p \in Procs : (Running(p) => p \in writeEnd) /\ (p \in reaped => ~Running(p) /\ proc[p] # "none")
    /\ proc[RevList] = "ok" => listed = commits
    /\ proc[CatFile] = "ok" => copier = "done" /\ batch.state = "idle" /\ stdin = <<>>

(* The commits from rev-list to cat-file.                                  *)
CommitsKept ==
    /\ GoesOn(stdin, batch.commit)
    /\ GoesOn(pipe[RevList], listed - Len(pipe[RevList]))
    /\ proc[RevList] = "none" => listed = 0 /\ pipe[RevList] = <<>>
    /\ copier = "off" => held = 0 /\ stdin = <<>> /\ batch = [commit |-> 0, state |-> "idle"]
    /\ held # 0 => copier = "on" /\ held = batch.commit + Len(stdin) + 1
    /\ copier # "done" /\ RevList \in readEnd =>
         listed - Len(pipe[RevList]) = batch.commit + Len(stdin) + (IF held = 0 THEN 0 ELSE 1)
    /\ copier = "done" =>
         \/ proc[CatFile] = "failed"
         \/ ~Running(RevList) /\ listed = batch.commit + Len(stdin)

(* Who has which end of the pipes.                                         *)
EndsKnown ==
    /\ user \in BeforeLog =>
         /\ copier = "off" /\ closers = {} /\ ~scanDone /\ ~ended
         /\ proc[CatFile] = "none" /\ pipe[CatFile] = <<>> /\ got = 0 /\ atLine = 0
    /\ user = "start" => proc[RevList] = "none"
    /\ user \in {"starting", "abort", "abortWait"} => proc[RevList] # "none"
    /\ user = "starting" => RevList \in readEnd
    /\ user = "failed" => proc[RevList] = "none" \/ RevList \in reaped
    /\ user \in InLog =>
         /\ copier # "off"
         /\ proc[RevList] # "none" /\ proc[CatFile] # "none"
         /\ \A p \in Procs \ closers : p \in reaped
         /\ CatFile \notin closers => copier = "done"
    /\ copier = "on" => RevList \in readEnd
    /\ user \in {"nextWait", "closeWait"} => closers # {}
    /\ ended \/ user \in {"close", "closeWait"} => scanDone

(* Next's view.                                                            *)
Reading == user \in {"line", "object"} \/ (user = "ready" /\ ~scanDone)

ReaderKnown ==
    Reading =>
        /\ ~scanDone /\ closers = Procs /\ CatFile \in readEnd
        /\ user = "object" => atLine = got + 1
        /\ Leads(pipe[CatFile], ReaderDue, WriterDue)

AllOk == \A p \in Procs : proc[p] = "ok"

ClosingKnown ==
    user \in {"nextClose", "nextWait"} =>
        /\ ~Running(CatFile)
        /\ WriterDue = <<"line", got + 1>>
        /\ ~firstErr => \A p \in Procs \ closers : proc[p] = "ok"

EndKnown ==
    user = "nextEnds" \/ (ended /\ ~scanErr) => atLine # got \/ (got = commits /\ AllOk)

LogInv ==
    /\ LogTypes /\ ProcessesKnown /\ CommitsKept
    /\ EndsKnown /\ ReaderKnown /\ ClosingKnown /\ EndKnown

USE LogAssumption, PipeAssumption

-----------------------------------------------------------------------------
(* Sequences.                                                              *)

LEMMA LeadsAppend ==
    ASSUME NEW q \in Seq(AllChunks), NEW first, NEW last, NEW x \in AllChunks,
           Leads(q, first, last), IsDue(x) = last
    PROVE  Leads(Append(q, x), first, DueAfter(x))
<1> DEFINE r == Append(q, x)
<1>1. /\ Len(r) = Len(q) + 1 /\ r # <<>> /\ r[Len(r)] = x
      /\ \A i \in 1..Len(q) : r[i] = q[i]
      /\ Len(q) \in Nat
  OBVIOUS
<1>2. IsDue(r[1]) = first
  <2>1. CASE q = <<>>
    BY <1>1, <2>1 DEF Leads
  <2>2. CASE q # <<>>
    <3>1. Len(q) > 0
      BY <2>2
    <3> QED
      BY <1>1, <2>2, <3>1 DEF Leads
  <2> QED
    BY <2>1, <2>2
<1>3. ASSUME NEW i \in 1..Len(r) - 1 PROVE IsDue(r[i + 1]) = DueAfter(r[i])
  <2>1. CASE i = Len(q)
    <3>1. q # <<>> /\ r[i] = q[Len(q)] /\ r[i + 1] = x
      BY <1>1, <2>1
    <3> QED
      BY <3>1 DEF Leads
  <2>2. CASE i # Len(q)
    <3>1. i \in 1..Len(q) - 1 /\ r[i] = q[i] /\ r[i + 1] = q[i + 1]
      BY <1>1, <2>2
    <3> QED
      BY <3>1 DEF Leads
  <2> QED
    BY <2>1, <2>2
<1> HIDE DEF r
<1> QED
  BY <1>1, <1>2, <1>3 DEF Leads, r

LEMMA LeadsTail ==
    ASSUME NEW q \in Seq(AllChunks), NEW first, NEW last, Leads(q, first, last), q # <<>>
    PROVE  Leads(Tail(q), DueAfter(Head(q)), last)
<1> DEFINE r == Tail(q)
<1>1. /\ Len(q) \in Nat /\ Len(q) > 0 /\ Len(r) = Len(q) - 1 /\ Head(q) = q[1]
      /\ \A i \in 1..Len(r) : r[i] = q[i + 1]
      /\ r \in Seq(AllChunks)
  OBVIOUS
<1>2. CASE r = <<>>
  <2> HIDE DEF r
  <2>1. Len(r) = 0
    BY <1>2
  <2>2. Len(q) = 1
    BY <1>1, <2>1
  <2>3. \A i \in 1..Len(r) - 1 : FALSE
    BY <2>1
  <2>4. DueAfter(Head(q)) = last
    BY <1>1, <2>2 DEF Leads
  <2>5. Leads(r, DueAfter(Head(q)), last)
    BY <1>2, <2>3, <2>4 DEF Leads
  <2> QED
    BY <2>5 DEF r
<1>3. CASE r # <<>>
  <2>1. Len(r) > 0
    BY <1>1, <1>3
  <2>2. IsDue(r[1]) = DueAfter(q[1])
    BY <1>1, <2>1 DEF Leads
  <2>3. DueAfter(r[Len(r)]) = last
    BY <1>1, <2>1 DEF Leads
  <2>4. ASSUME NEW i \in 1..Len(r) - 1 PROVE IsDue(r[i + 1]) = DueAfter(r[i])
    <3>1. i + 1 \in 1..Len(q) - 1 /\ r[i] = q[i + 1] /\ r[i + 1] = q[i + 1 + 1]
      BY <1>1
    <3> QED
      BY <3>1 DEF Leads
  <2> HIDE DEF r
  <2> QED
    BY <1>1, <1>3, <2>2, <2>3, <2>4 DEF Leads
<1> QED
  BY <1>2, <1>3

LEMMA GoesOnTail ==
    ASSUME NEW q \in Seq(Nat), NEW n \in Int, GoesOn(q, n), q # <<>>
    PROVE  Head(q) = n + 1 /\ GoesOn(Tail(q), n + 1) /\ Len(Tail(q)) = Len(q) - 1
<1>1. /\ Len(q) \in Nat /\ Len(q) > 0 /\ Len(Tail(q)) = Len(q) - 1 /\ Head(q) = q[1]
      /\ \A i \in 1..Len(Tail(q)) : Tail(q)[i] = q[i + 1]
  OBVIOUS
<1>2. ASSUME NEW i \in 1..Len(Tail(q)) PROVE Tail(q)[i] = n + 1 + i
  BY <1>1 DEF GoesOn
<1> QED
  BY <1>1, <1>2 DEF GoesOn

LEMMA GoesOnAppend ==
    ASSUME NEW q \in Seq(Nat), NEW n \in Int, GoesOn(q, n), NEW x, x = n + Len(q) + 1
    PROVE  GoesOn(Append(q, x), n) /\ Len(Append(q, x)) = Len(q) + 1
<1>1. /\ Len(q) \in Nat /\ Len(Append(q, x)) = Len(q) + 1 /\ Append(q, x)[Len(q) + 1] = x
      /\ \A i \in 1..Len(q) : Append(q, x)[i] = q[i]
  OBVIOUS
<1>2. ASSUME NEW i \in 1..Len(Append(q, x)) PROVE Append(q, x)[i] = n + i
  <2>1. i = Len(q) + 1 \/ i \in 1..Len(q)
    BY <1>1
  <2> QED
    BY <1>1, <2>1 DEF GoesOn
<1> QED
  BY <1>1, <1>2 DEF GoesOn

-----------------------------------------------------------------------------
LEMMA InitLog == Init => LogInv
<1> SUFFICES ASSUME Init PROVE LogInv
  OBVIOUS
<1> USE DEF Init, PipeInit
<1>1. /\ commits \in Nat
      /\ user = "start" /\ closers = {} /\ listed = 0 /\ got = 0 /\ atLine = 0 /\ held = 0
      /\ batch = [commit |-> 0, state |-> "idle"] /\ copier = "off"
  OBVIOUS
<1>2. /\ stdin = <<>> /\ pipe[RevList] = <<>> /\ pipe[CatFile] = <<>>
      /\ pipe = [p \in Procs |-> pipe[p]]
  OBVIOUS
<1>3. /\ proc \in [Procs -> {"none", "running", "signalled", "ok", "failed"}]
      /\ \A p \in Procs : proc[p] = "none"
      /\ piper = TRUE
  OBVIOUS
<1>4. stdin \in Seq(Nat) /\ pipe[RevList] \in Seq(Nat) /\ pipe[CatFile] \in Seq(AllChunks)
  BY <1>2
<1>5. LogTypes
  BY <1>1, <1>2, <1>3, <1>4 DEF LogTypes, BeforeLog
<1>6. ProcessesKnown
  BY <1>3 DEF ProcessesKnown, Running
<1>7. CommitsKept
  BY <1>1, <1>2, <1>3 DEF CommitsKept, GoesOn
<1>8. EndsKnown /\ ReaderKnown /\ ClosingKnown /\ EndKnown
  BY <1>1, <1>2, <1>3 DEF EndsKnown, ReaderKnown, ClosingKnown, EndKnown, Reading, BeforeLog, InLog
<1> QED
  BY <1>5, <1>6, <1>7, <1>8 DEF LogInv

(* What happens on standard error and in the watching goroutines.          *)
LEMMA StderrKeeps ==
    ASSUME LogInv, UNCHANGED <<pipeVars, gitVars, copyVars, user, logVars>>
    PROVE  LogInv'
<1> USE DEF pipeVars, gitVars, copyVars, logVars
<1>1. LogTypes' /\ ProcessesKnown'
  BY DEF LogInv, LogTypes, ProcessesKnown, Running
<1>2. CommitsKept'
  BY DEF LogInv, CommitsKept, Running
<1>3. EndsKnown'
  BY DEF LogInv, EndsKnown
<1>4. ReaderDue' = ReaderDue /\ WriterDue' = WriterDue /\ (Reading' <=> Reading)
  BY DEF ReaderDue, WriterDue, Reading
<1>5. ReaderKnown'
  BY <1>4 DEF LogInv, ReaderKnown
<1>6. ClosingKnown' /\ EndKnown'
  BY <1>4 DEF LogInv, ClosingKnown, EndKnown, AllOk, Running
<1> QED
  BY <1>1, <1>2, <1>3, <1>5, <1>6 DEF LogInv

(* The user's steps, by which only user, its Log's fields and the context  *)
(* change.                                                                 *)
LEMMA UserKeeps ==
    ASSUME LogInv,
           UNCHANGED <<piper, proc, pipe, writeEnd, readEnd, reaped, gitVars, copyVars, atLine, got, closers>>,
           user' \in BeforeLog \cup InLog,
           EndsKnown', ReaderKnown', ClosingKnown', EndKnown'
    PROVE  LogInv'
<1> USE DEF gitVars, copyVars
<1>1. LogTypes'
  BY DEF LogInv, LogTypes
<1>2. ProcessesKnown'
  BY DEF LogInv, ProcessesKnown, Running
<1>3. CommitsKept'
  BY DEF LogInv, CommitsKept, Running
<1> QED
  BY <1>1, <1>2, <1>3 DEF LogInv

LEMMA UserSteps ==
    ASSUME LogInv,
           \/ LogRefused \/ StartCatFileFails \/ NextCalled \/ NextNoObject \/ NextAtEnd
           \/ NextFalse \/ CloseCalled \/ NextClosed \/ CloseReturns \/ CancelParent
    PROVE  LogInv'
<1> USE DEF BeforeLog, InLog, EndsKnown, ReaderKnown, ClosingKnown, EndKnown, AllOk,
            Reading, ReaderDue, WriterDue, Running, Goto, gitVars, copyVars, logVars, pipeVars, CancelContext
<1>1. CASE LogRefused
  BY <1>1, UserKeeps DEF LogRefused, LogInv
<1>2. CASE StartCatFileFails
  BY <1>2, UserKeeps DEF StartCatFileFails, LogInv
<1>3. CASE NextCalled
  BY <1>3, UserKeeps DEF NextCalled, LogInv
<1>4. CASE NextNoObject
  BY <1>4, UserKeeps DEF NextNoObject, LogInv, LogTypes
<1>5. CASE NextAtEnd
  <2>1. ~Running(CatFile) /\ Leads(<<>>, ReaderDue, WriterDue)
    BY <1>5 DEF NextAtEnd, AtEOF, LogInv, ProcessesKnown
  <2>2. WriterDue = <<"line", got + 1>>
    BY <1>5, <2>1 DEF NextAtEnd, Leads
  <2> QED
    BY <1>5, <2>1, <2>2, UserKeeps DEF NextAtEnd, LogInv
<1>6. CASE NextFalse
  BY <1>6, UserKeeps DEF NextFalse, LogInv
<1>7. CASE CloseCalled
  BY <1>7, UserKeeps DEF CloseCalled, LogInv
<1>8. CASE NextClosed
  <2>1. ASSUME ~firstErr PROVE got = commits /\ AllOk
    <3>1. AllOk
      BY <1>8, <2>1 DEF NextClosed, LogInv
    <3>2. batch.state = "idle" /\ Len(stdin) = 0 /\ copier = "done" /\ listed = commits
      BY <3>1 DEF LogInv, ProcessesKnown
    <3>3. listed = batch.commit + Len(stdin)
      BY <3>1, <3>2 DEF LogInv, CommitsKept
    <3>4. batch.commit + 1 = got + 1
      BY <1>8, <3>2 DEF NextClosed, LogInv
    <3> QED
      BY <3>1, <3>2, <3>3, <3>4 DEF LogInv, LogTypes
  <2>2. /\ UNCHANGED <<pipeVars, gitVars, copyVars, logVars>>
        /\ user' = "nextFails" \/ (user' = "nextEnds" /\ ~firstErr)
    BY <1>8 DEF NextClosed
  <2>3. EndKnown'
    BY <2>1, <2>2 DEF LogInv
  <2>4. EndsKnown' /\ ReaderKnown' /\ ClosingKnown'
    BY <1>8, <2>2 DEF NextClosed, LogInv
  <2>5. /\ UNCHANGED <<piper, proc, pipe, writeEnd, readEnd, reaped, gitVars, copyVars, atLine, got, closers>>
        /\ user' \in BeforeLog \cup InLog
    BY <2>2
  <2> QED
    BY ONLY LogInv, <2>3, <2>4, <2>5, UserKeeps
<1>9. CASE CloseReturns
  BY <1>9, UserKeeps DEF CloseReturns, LogInv
<1>10. CASE CancelParent
  <2>1. UNCHANGED <<piper, proc, pipe, writeEnd, readEnd, reaped, gitVars, copyVars, user, logVars>>
    BY <1>10 DEF CancelParent
  <2>2. user' \in BeforeLog \cup InLog
    BY <2>1 DEF LogInv, LogTypes
  <2> QED
    BY <2>1, <2>2, UserKeeps DEF LogInv
<1> QED
  BY <1>1, <1>2, <1>3, <1>4, <1>5, <1>6, <1>7, <1>8, <1>9, <1>10

-----------------------------------------------------------------------------
(* What the two pipes, the input of cat-file and its state say together:   *)
(* the parts of the invariant that a step of a process disturbs.           *)
LEMMA ExitKeeps ==
    ASSUME LogInv, NEW p \in Procs, NEW status \in {"ok", "failed"}, Exit(p, status),
           UNCHANGED <<gitVars, copyVars, user, logVars>>,
           status = "ok" /\ p = RevList => listed = commits,
           status = "ok" /\ p = CatFile => copier = "done" /\ batch.state = "idle" /\ stdin = <<>>
    PROVE  LogInv'
<1> USE DEF LogInv, Exit, gitVars, copyVars, logVars
<1>1. /\ proc' = [proc EXCEPT ![p] = status] /\ Running(p)
      /\ pipe' = pipe /\ readEnd' = readEnd /\ reaped' = reaped
      /\ writeEnd' = writeEnd \ {p}
  BY DEF LogTypes
<1>2. \A x \in Procs : /\ proc'[x] = IF x = p THEN status ELSE proc[x]
                       /\ proc[x] = "ok" => proc'[x] = "ok"
                       /\ proc[x] = "none" <=> proc'[x] = "none"
                       /\ ~Running(x) => ~Running(x)'
                       /\ ~Running(p)'
  BY <1>1 DEF LogTypes, Running
<1>3. LogTypes'
  BY <1>1 DEF LogTypes
<1>4. ProcessesKnown'
  BY <1>1, <1>2 DEF ProcessesKnown
<1>5. CommitsKept'
  BY <1>1, <1>2 DEF CommitsKept, ProcessesKnown, Running
<1>6. EndsKnown'
  BY <1>1, <1>2 DEF EndsKnown
<1>7. ReaderKnown' /\ ClosingKnown'
  BY <1>1, <1>2 DEF ReaderKnown, ClosingKnown, Reading, ReaderDue, WriterDue
<1>8. EndKnown'
  BY <1>1, <1>2 DEF EndKnown, AllOk
<1> QED
  BY <1>3, <1>4, <1>5, <1>6, <1>7, <1>8

LEMMA TerminateKeeps ==
    ASSUME LogInv, NEW p \in Procs, Terminate(p) \/ WatcherEnds(p),
           UNCHANGED <<gitVars, copyVars, user, logVars>>
    PROVE  LogInv'
<1> USE DEF LogInv, gitVars, copyVars, logVars
<1>1. /\ pipe' = pipe /\ readEnd' = readEnd /\ reaped' = reaped /\ writeEnd' = writeEnd /\ piper' = piper
      /\ proc' = proc \/ (proc[p] = "running" /\ proc' = [proc EXCEPT ![p] = "signalled"])
  <2>1. CASE WatcherEnds(p)
    BY <2>1 DEF WatcherEnds
  <2>2. CASE Terminate(p) /\ proc[p] = "running"
    BY <2>2 DEF Terminate
  <2>3. CASE Terminate(p) /\ proc[p] # "running"
    BY <2>3 DEF Terminate, LogTypes
  <2> QED
    BY <2>1, <2>2, <2>3
<1>2. /\ proc' \in [Procs -> {"none", "running", "signalled", "ok", "failed"}]
      /\ \A x \in Procs : proc'[x] = proc[x] \/ (proc[x] = "running" /\ proc'[x] = "signalled")
  BY <1>1 DEF LogTypes
<1> USE DEF Running
<1>3. LogTypes' /\ ProcessesKnown'
  BY <1>1, <1>2 DEF LogTypes, ProcessesKnown
<1>4. CommitsKept'
  BY <1>1, <1>2 DEF CommitsKept
<1>5. EndsKnown'
  BY <1>1, <1>2 DEF EndsKnown
<1>6. ReaderKnown' /\ ClosingKnown'
  BY <1>1, <1>2 DEF ReaderKnown, ClosingKnown, Reading, ReaderDue, WriterDue
<1>7. EndKnown'
  BY <1>1, <1>2 DEF EndKnown, AllOk
<1> QED
  BY <1>3, <1>4, <1>5, <1>6, <1>7

LEMMA RevListSteps ==
    ASSUME LogInv, RevListWrites \/ RevListEnds \/ RevListFails
    PROVE  LogInv'
<1>1. CASE RevListEnds
  BY <1>1, ExitKeeps DEF RevListEnds, WriteFails
<1>2. CASE RevListFails
  BY <1>2, ExitKeeps DEF RevListFails
<1>3. CASE RevListWrites
  <2> USE DEF LogInv, RevListWrites, WriteChunk, copyVars, logVars
  <2> DEFINE q == pipe[RevList]
  <2>1. /\ Running(RevList) /\ RevList \in readEnd /\ listed < commits /\ listed' = listed + 1
        /\ pipe' = [pipe EXCEPT ![RevList] = Append(q, listed + 1)]
        /\ q \in Seq(Nat) /\ listed \in Nat
        /\ UNCHANGED <<piper, proc, writeEnd, readEnd, reaped, commits, batch, copyVars, user, logVars>>
    BY <1>3 DEF LogTypes
  <2>2. pipe'[RevList] = Append(q, listed + 1) /\ pipe'[CatFile] = pipe[CatFile]
    BY <2>1 DEF LogTypes
  <2>3. /\ GoesOn(pipe'[RevList], listed - Len(q)) /\ Len(pipe'[RevList]) = Len(q) + 1
        /\ Len(q) \in Nat
    BY <2>1, <2>2, GoesOnAppend DEF CommitsKept
  <2>4. pipe' = [p \in Procs |-> pipe'[p]] /\ pipe'[RevList] \in Seq(Nat)
    <3>1. pipe' = [p \in Procs |-> pipe'[p]]
      BY <2>1 DEF LogTypes
    <3>2. listed + 1 \in Nat
      BY <2>1
    <3>3. Append(q, listed + 1) \in Seq(Nat)
      BY ONLY <2>1, <3>2
    <3> QED
      BY <2>2, <3>1, <3>3
  <2>5. LogTypes'
    BY <2>1, <2>2, <2>4 DEF LogTypes
  <2>6. ProcessesKnown'
    BY <2>1 DEF ProcessesKnown, Running
  <2>7. listed' - Len(pipe'[RevList]) = listed - Len(q)
    <3>1. listed' = listed + 1 /\ listed \in Nat
      BY <2>1
    <3>2. Len(pipe'[RevList]) = Len(q) + 1 /\ Len(q) \in Nat
      BY <2>3
    <3> HIDE DEF q
    <3> QED
      BY ONLY <3>1, <3>2
  <2>8. CommitsKept'
    BY <2>1, <2>3, <2>7 DEF CommitsKept, Running
  <2>9. EndsKnown' /\ ReaderKnown' /\ ClosingKnown'
    BY <2>1, <2>2 DEF EndsKnown, ReaderKnown, ClosingKnown, Reading, ReaderDue, WriterDue, Running
  <2>10. EndKnown'
    BY <2>1 DEF EndKnown, AllOk
  <2> QED
    BY <2>5, <2>6, <2>8, <2>9, <2>10
<1> QED
  BY <1>1, <1>2, <1>3

LEMMA CopierSteps ==
    ASSUME LogInv, CopierReads \/ CopierWrites \/ CopierEnds
    PROVE  LogInv'
<1> USE DEF LogInv, gitVars, logVars
<1>1. CASE CopierReads
  <2> DEFINE q == pipe[RevList]
  <2>1. /\ copier = "on" /\ held = 0 /\ held' = Head(q) /\ RevList \in readEnd /\ q # <<>>
        /\ pipe' = [pipe EXCEPT ![RevList] = Tail(q)]
        /\ q \in Seq(Nat) /\ listed \in Nat
        /\ UNCHANGED <<piper, proc, writeEnd, readEnd, reaped, gitVars, copier, stdin, user, logVars>>
    BY <1>1 DEF CopierReads, ReadChunk, LogTypes
  <2>2. pipe'[RevList] = Tail(q) /\ pipe'[CatFile] = pipe[CatFile] /\ pipe' = [p \in Procs |-> pipe'[p]]
    BY <2>1 DEF LogTypes
  <2>3. Len(q) \in Nat /\ listed - Len(q) = batch.commit + Len(stdin)
    BY <2>1 DEF CommitsKept, LogTypes
  <2>4. /\ Head(q) = listed - Len(q) + 1
        /\ GoesOn(Tail(q), listed - Len(q) + 1)
        /\ Len(Tail(q)) = Len(q) - 1
    BY <2>1, <2>3, GoesOnTail DEF CommitsKept
  <2>5. Head(q) \in Nat /\ Tail(q) \in Seq(Nat) /\ Head(q) # 0
    <3>1. Head(q) \in Nat /\ Tail(q) \in Seq(Nat)
      BY <2>1
    <3>2. batch.commit + Len(stdin) \in Nat
      BY DEF LogTypes
    <3> QED
      BY <3>1, <3>2, <2>3, <2>4
  <2>6. LogTypes'
    BY <2>1, <2>2, <2>5 DEF LogTypes
  <2>7. listed - (Len(q) - 1) = listed - Len(q) + 1
    BY <2>1, <2>3
  <2>8. CommitsKept'
    <3> HIDE DEF q
    <3>1. /\ GoesOn(pipe'[RevList], listed' - Len(pipe'[RevList]))
          /\ listed' - Len(pipe'[RevList]) = batch'.commit + Len(stdin') + 1
          /\ held' = batch'.commit + Len(stdin') + 1 /\ held' # 0
          /\ copier' = "on" /\ proc' = proc
      BY <2>1, <2>2, <2>3, <2>4, <2>5, <2>7
    <3>2. proc[RevList] # "none" /\ GoesOn(stdin', batch'.commit)
      BY <2>1 DEF CommitsKept, q
    <3> QED
      BY <3>1, <3>2 DEF CommitsKept
  <2>9. ProcessesKnown' /\ EndsKnown'
    BY <2>1, <2>2 DEF ProcessesKnown, EndsKnown, Running
  <2>10. ReaderKnown' /\ ClosingKnown' /\ EndKnown'
    BY <2>1, <2>2 DEF ReaderKnown, ClosingKnown, EndKnown, AllOk, Reading, ReaderDue, WriterDue, Running
  <2> QED
    BY <2>6, <2>8, <2>9, <2>10
<1>2. CASE CopierWrites
  <2>1. /\ held # 0 /\ held' = 0 /\ stdin' = Append(stdin, held) /\ copier = "on"
        /\ stdin \in Seq(Nat) /\ held = batch.commit + Len(stdin) + 1
        /\ UNCHANGED <<pipeVars, gitVars, copier, user, logVars>>
        /\ Running(CatFile)
    BY <1>2 DEF CopierWrites, LogTypes, CommitsKept
  <2>2. GoesOn(stdin', batch.commit) /\ Len(stdin') = Len(stdin) + 1 /\ stdin' \in Seq(Nat)
    <3>1. batch.commit \in Nat /\ held \in Nat
      BY DEF LogTypes
    <3> QED
      BY <2>1, <3>1, GoesOnAppend DEF CommitsKept
  <2>3. LogTypes'
    BY <2>1, <2>2 DEF LogTypes, pipeVars
  <2>4. ProcessesKnown'
    BY <2>1 DEF ProcessesKnown, Running, pipeVars
  <2>5. CommitsKept'
    <3>1. batch.commit + Len(stdin) + 1 = batch.commit + (Len(stdin) + 1) + 0
      BY <2>1 DEF LogTypes
    <3> QED
      BY <2>1, <2>2, <3>1 DEF CommitsKept, pipeVars
  <2>6. EndsKnown' /\ ReaderKnown' /\ ClosingKnown' /\ EndKnown'
    BY <2>1 DEF EndsKnown, ReaderKnown, ClosingKnown, EndKnown, AllOk, Reading, ReaderDue, WriterDue,
                Running, pipeVars
  <2> QED
    BY <2>3, <2>4, <2>5, <2>6
<1>3. CASE CopierEnds
  <2>1. /\ copier = "on" /\ copier' = "done" /\ held' = 0
        /\ UNCHANGED <<pipeVars, gitVars, stdin, user, logVars>>
        /\ proc[RevList] # "none" /\ proc[CatFile] # "none" /\ proc[CatFile] # "ok" /\ RevList \in readEnd
    BY <1>3 DEF CopierEnds, EndsKnown, ProcessesKnown, LogTypes
  <2>2. \/ proc[CatFile] = "failed"
        \/ ~Running(RevList) /\ listed = batch.commit + Len(stdin)
    <3>1. CASE held = 0 /\ AtEOF(RevList)
      <4>1. ~Running(RevList) /\ Len(pipe[RevList]) = 0
        BY <3>1 DEF AtEOF, ProcessesKnown
      <4> QED
        BY <2>1, <3>1, <4>1 DEF CommitsKept, LogTypes
    <3>2. CASE ~Running(CatFile)
      BY <2>1, <3>2 DEF Running, LogTypes
    <3> QED
      BY <1>3, <3>1, <3>2 DEF CopierEnds
  <2>3. LogTypes' /\ ProcessesKnown'
    BY <2>1 DEF LogTypes, ProcessesKnown, Running, pipeVars
  <2>4. CommitsKept'
    BY <2>1, <2>2 DEF CommitsKept, Running, pipeVars
  <2>5. EndsKnown' /\ ReaderKnown' /\ ClosingKnown' /\ EndKnown'
    BY <2>1 DEF EndsKnown, ReaderKnown, ClosingKnown, EndKnown, AllOk, Reading, ReaderDue, WriterDue,
                Running, pipeVars
  <2> QED
    BY <2>3, <2>4, <2>5
<1> QED
  BY <1>1, <1>2, <1>3

(* cat-file writes what is due and goes on, or fails.                      *)
LEMMA ChunkKeeps ==
    ASSUME LogInv, NEW x \in AllChunks, IsDue(x) = WriterDue, DueAfter(x) = WriterDue',
           Running(CatFile), CatFile \in readEnd,
           pipe' = [pipe EXCEPT ![CatFile] = Append(@, x)],
           \/ proc' = proc /\ writeEnd' = writeEnd
           \/ proc' = [proc EXCEPT ![CatFile] = "failed"] /\ writeEnd' = writeEnd \ {CatFile},
           batch' \in [commit : {batch.commit}, state : {"idle", "line", "object"}],
           UNCHANGED <<piper, readEnd, reaped, commits, listed, copyVars, user, logVars>>
    PROVE  LogInv'
<1> USE DEF LogInv, copyVars, logVars
<1> DEFINE q == pipe[CatFile]
<1>1. /\ pipe'[CatFile] = Append(q, x) /\ pipe'[RevList] = pipe[RevList]
      /\ pipe' = [p \in Procs |-> pipe'[p]]
      /\ q \in Seq(AllChunks)
  BY DEF LogTypes
<1>2. pipe'[CatFile] \in Seq(AllChunks)
  BY <1>1
<1>3. /\ proc' \in [Procs -> {"none", "running", "signalled", "ok", "failed"}]
      /\ proc'[RevList] = proc[RevList] /\ (RevList \in writeEnd' <=> RevList \in writeEnd)
      /\ \/ proc'[CatFile] = proc[CatFile] /\ writeEnd' = writeEnd
         \/ proc'[CatFile] = "failed"
      /\ proc[CatFile] \in {"running", "signalled"}
  BY DEF LogTypes, Running
<1>4. LogTypes'
  BY <1>1, <1>2, <1>3 DEF LogTypes
<1>5. ProcessesKnown'
  BY <1>3 DEF ProcessesKnown, Running
<1>6. CommitsKept'
  <2>1. batch'.commit = batch.commit /\ copier # "off"
    BY <1>3 DEF EndsKnown, LogTypes
  <2> QED
    BY <1>1, <1>3, <2>1 DEF CommitsKept, Running
<1>7. EndsKnown'
  BY <1>1, <1>3 DEF EndsKnown
<1>8. ReaderKnown'
  <2>1. ASSUME Reading PROVE Leads(pipe'[CatFile], ReaderDue, WriterDue')
    BY <1>1, <2>1, LeadsAppend DEF ReaderKnown
  <2> QED
    BY <2>1 DEF ReaderKnown, Reading, ReaderDue
<1>9. ClosingKnown' /\ EndKnown'
  BY <1>3 DEF ClosingKnown, EndKnown, AllOk, Running
<1> QED
  BY <1>4, <1>5, <1>6, <1>7, <1>8, <1>9

LEMMA CatFileSteps ==
    ASSUME LogInv, CatFileTakes \/ CatFileWrites \/ CatFileEnds \/ CatFileStops
    PROVE  LogInv'
<1>1. CASE CatFileTakes
  <2> USE DEF LogInv, CatFileTakes, logVars
  <2>1. /\ Running(CatFile) /\ batch.state = "idle" /\ stdin # <<>> /\ stdin \in Seq(Nat)
        /\ batch' = [commit |-> Head(stdin), state |-> "line"] /\ stdin' = Tail(stdin)
        /\ batch.commit \in Nat
        /\ UNCHANGED <<pipeVars, commits, listed, copier, held, user, logVars>>
    BY <1>1 DEF LogTypes
  <2>2. /\ Head(stdin) = batch.commit + 1 /\ GoesOn(stdin', batch.commit + 1)
        /\ Len(stdin') = Len(stdin) - 1
        /\ stdin' \in Seq(Nat) /\ Len(stdin) \in Nat
    BY <2>1, GoesOnTail DEF CommitsKept
  <2>3. /\ batch'.commit = batch.commit + 1 /\ batch'.state = "line"
        /\ batch' \in [commit : Nat, state : {"idle", "line", "object"}]
        /\ batch'.commit + Len(stdin') = batch.commit + Len(stdin)
    <3>1. batch'.commit = batch.commit + 1 /\ batch'.state = "line"
      BY <2>1, <2>2
    <3>2. batch' \in [commit : Nat, state : {"idle", "line", "object"}]
      BY <2>1, <2>2
    <3>3. Len(stdin') = Len(stdin) - 1 /\ Len(stdin) \in Nat /\ batch.commit \in Nat
      BY <2>1, <2>2
    <3>4. batch'.commit + Len(stdin') = batch.commit + Len(stdin)
      BY ONLY <3>1, <3>3
    <3> QED
      BY <3>1, <3>2, <3>4
  <2>4. WriterDue' = WriterDue
    BY <2>1, <2>3 DEF WriterDue
  <2>5. copier # "off"
    BY <2>1 DEF CommitsKept
  <2>6. LogTypes' /\ ProcessesKnown'
    BY <2>1, <2>2, <2>3 DEF LogTypes, ProcessesKnown, Running, pipeVars
  <2>7. CommitsKept'
    BY <2>1, <2>2, <2>3, <2>5 DEF CommitsKept, Running, pipeVars
  <2>8. EndsKnown' /\ EndKnown'
    BY <2>1 DEF EndsKnown, EndKnown, AllOk, pipeVars
  <2>9. ReaderKnown' /\ ClosingKnown'
    BY <2>1, <2>4 DEF ReaderKnown, ClosingKnown, Reading, ReaderDue, Running, pipeVars
  <2> QED
    BY <2>6, <2>7, <2>8, <2>9
<1>2. CASE CatFileWrites
  <2>1. batch \in [commit : Nat, state : {"idle", "line", "object"}]
    BY DEF LogInv, LogTypes
  <2>2. PICK w \in {"line", "missing", "object", "badObject"} :
          /\ WriteChunk(CatFile, Chunk(w, batch.commit))
          /\ \/ w = "line" /\ batch.state = "line" /\ batch' = [batch EXCEPT !.state = "object"]
             \/ w = "missing" /\ batch.state = "line" /\ batch' = [batch EXCEPT !.state = "idle"]
             \/ w \in {"object", "badObject"} /\ batch.state = "object" /\ batch' = [batch EXCEPT !.state = "idle"]
    BY <1>2 DEF CatFileWrites
  <2> DEFINE x == Chunk(w, batch.commit)
  <2>3. x \in AllChunks /\ x.what = w /\ x.commit = batch.commit
    BY <2>1 DEF Chunk, AllChunks
  <2>4. batch' \in [commit : {batch.commit}, state : {"idle", "line", "object"}]
    BY <2>1, <2>2
  <2>5. IsDue(x) = WriterDue /\ DueAfter(x) = WriterDue'
    <3> HIDE DEF x
    <3> QED
      BY <2>1, <2>2, <2>3 DEF IsDue, Kind, DueAfter, WriterDue
  <2>6. /\ Running(CatFile) /\ CatFile \in readEnd /\ pipe' = [pipe EXCEPT ![CatFile] = Append(@, x)]
        /\ UNCHANGED <<piper, proc, writeEnd, readEnd, reaped, commits, listed, copyVars, user, logVars>>
    BY <1>2, <2>2 DEF CatFileWrites, WriteChunk
  <2> HIDE DEF x
  <2> QED
    BY <2>3, <2>4, <2>5, <2>6, ChunkKeeps
<1>3. CASE CatFileEnds
  BY <1>3, ExitKeeps DEF CatFileEnds, WriteFails
<1>4. CASE CatFileStops
  <2>1. CASE Exit(CatFile, "failed")
    BY <1>4, <2>1, ExitKeeps DEF CatFileStops
  <2>2. ASSUME NEW w \in {"partOfLine", "partOfObject"}, StopsAfter(CatFile, Chunk(w, batch.commit)),
               batch.state = IF w = "partOfLine" THEN "line" ELSE "object"
        PROVE  LogInv'
    <3> DEFINE x == Chunk(w, batch.commit)
    <3>1. batch \in [commit : Nat, state : {"idle", "line", "object"}] /\ piper
      BY DEF LogInv, LogTypes
    <3>2. x \in AllChunks /\ x.what = w /\ x.commit = batch.commit
      BY <3>1 DEF Chunk, AllChunks
    <3>3. batch' = batch /\ batch' \in [commit : {batch.commit}, state : {"idle", "line", "object"}]
      BY <1>4, <3>1 DEF CatFileStops, gitVars
    <3>4. IsDue(x) = WriterDue /\ DueAfter(x) = WriterDue'
      <4> HIDE DEF x
      <4> QED
        BY <2>2, <3>2, <3>3 DEF IsDue, Kind, DueAfter, WriterDue
    <3>5. /\ Running(CatFile) /\ CatFile \in readEnd /\ pipe' = [pipe EXCEPT ![CatFile] = Append(@, x)]
          /\ proc' = [proc EXCEPT ![CatFile] = "failed"] /\ writeEnd' = writeEnd \ {CatFile}
          /\ UNCHANGED <<piper, readEnd, reaped, commits, listed, copyVars, user, logVars>>
      BY <1>4, <2>2, <3>1 DEF CatFileStops, StopsAfter, gitVars
    <3> HIDE DEF x
    <3> QED
      BY <3>2, <3>3, <3>4, <3>5, ChunkKeeps
  <2> QED
    BY <1>4, <2>1, <2>2 DEF CatFileStops
<1> QED
  BY <1>1, <1>2, <1>3, <1>4

-----------------------------------------------------------------------------
(* The steps of a call to Next that read a chunk.                          *)
LEMMA ReaderSteps ==
    ASSUME LogInv, NextReadsLine \/ NextBadLine \/ NextTrue \/ NextBadObject
    PROVE  LogInv'
<1> USE DEF LogInv, gitVars, copyVars
<1> DEFINE q == pipe[CatFile]
<1>1. /\ user \in {"line", "object"} /\ Reading /\ q # <<>> /\ q \in Seq(AllChunks)
      /\ pipe' = [pipe EXCEPT ![CatFile] = Tail(q)]
      /\ UNCHANGED <<piper, proc, writeEnd, readEnd, reaped, gitVars, copyVars,
                     scanErr, scanDone, closers, firstErr, ended>>
  BY DEF NextReadsLine, NextBadLine, NextTrue, NextBadObject, ReadFrom, ReadChunk, Goto, Reading, LogTypes
<1>2. /\ pipe'[CatFile] = Tail(q) /\ pipe'[RevList] = pipe[RevList]
      /\ pipe' = [p \in Procs |-> pipe'[p]] /\ Tail(q) \in Seq(AllChunks)
  <2>1. Tail(q) \in Seq(AllChunks)
    BY <1>1
  <2> HIDE DEF q
  <2> QED
    BY <1>1, <2>1 DEF LogTypes, q
<1>3. Head(q) \in AllChunks /\ Head(q) = q[1] /\ IsDue(Head(q)) = ReaderDue
  BY <1>1 DEF ReaderKnown, Leads
<1>4. Leads(Tail(q), DueAfter(Head(q)), WriterDue)
  BY <1>1, LeadsTail DEF ReaderKnown
<1>5. /\ user' \in {"object", "ready", "nextFails"} /\ got' \in Nat /\ atLine' \in Nat
      /\ Reading' =>
           /\ ReaderDue' = DueAfter(Head(q))
           /\ user' = "object" => atLine' = got' + 1
  <2> HIDE DEF q
  <2>1. got \in Nat /\ atLine \in Nat /\ Head(q).commit \in Nat
    BY <1>3 DEF LogTypes, AllChunks
  <2>2. CASE NextReadsLine
    <3>1. /\ user = "line" /\ user' = "object" /\ Head(q).what = "line" /\ atLine' = Head(q).commit
          /\ got' = got
      BY <2>2 DEF NextReadsLine, ReadFrom, Goto, q
    <3>2. Head(q).commit = got + 1
      BY <1>3, <3>1 DEF IsDue, Kind, ReaderDue
    <3> QED
      BY <2>1, <3>1, <3>2 DEF ReaderDue, DueAfter
  <2>3. CASE NextTrue
    <3>1. /\ user = "object" /\ user' = "ready" /\ Head(q).what = "object" /\ atLine' = atLine
          /\ got' = got + 1 /\ atLine = got + 1
      BY <1>1, <2>3 DEF NextTrue, ReadFrom, Goto, q, ReaderKnown
    <3>2. Head(q).commit = atLine
      BY <1>3, <3>1 DEF IsDue, Kind, ReaderDue
    <3> QED
      BY <2>1, <3>1, <3>2 DEF ReaderDue, DueAfter
  <2>4. CASE NextBadLine \/ NextBadObject
    BY <2>1, <2>4 DEF NextBadLine, NextBadObject, ReadFrom, Goto, Reading
  <2> QED
    BY <2>2, <2>3, <2>4
<1>6. LogTypes'
  BY <1>1, <1>2, <1>5 DEF LogTypes, BeforeLog, InLog
<1>7. ProcessesKnown' /\ CommitsKept'
  BY <1>1, <1>2 DEF ProcessesKnown, CommitsKept, Running
<1>8. EndsKnown'
  BY <1>1, <1>2, <1>5 DEF EndsKnown, BeforeLog, InLog
<1>9. ReaderKnown'
  <2>1. WriterDue' = WriterDue
    BY <1>1 DEF WriterDue
  <2>2. ~scanDone /\ closers = Procs /\ CatFile \in readEnd
    BY <1>1 DEF ReaderKnown
  <2> QED
    BY <1>1, <1>2, <1>4, <1>5, <2>1, <2>2 DEF ReaderKnown
<1>10. ClosingKnown' /\ EndKnown'
  <2>1. ~ended
    BY <1>1 DEF EndsKnown, ReaderKnown
  <2> QED
    BY <1>1, <1>5, <2>1 DEF ClosingKnown, EndKnown
<1> QED
  BY <1>6, <1>7, <1>8, <1>9, <1>10

(* The starts of the two subprocesses.                                     *)
LEMMA StartSteps ==
    ASSUME LogInv, StartRevList \/ StartCatFile
    PROVE  LogInv'
<1> USE DEF LogInv, StartPipe, Goto, gitVars, copyVars, logVars
<1>1. CASE StartRevList
  <2>1. /\ user = "start" /\ user' = "starting" /\ proc[RevList] = "none"
        /\ proc' = [proc EXCEPT ![RevList] = "running"]
        /\ writeEnd' = writeEnd \cup {RevList} /\ readEnd' = readEnd \cup {RevList}
        /\ UNCHANGED <<piper, pipe, reaped, gitVars, copyVars, logVars>>
    BY <1>1 DEF StartRevList
  <2>2. /\ proc'[RevList] = "running" /\ proc'[CatFile] = proc[CatFile]
        /\ proc' \in [Procs -> {"none", "running", "signalled", "ok", "failed"}]
        /\ listed = 0 /\ pipe[RevList] = <<>> /\ Len(pipe[RevList]) = 0
    BY <2>1 DEF LogTypes, CommitsKept
  <2>3. /\ copier = "off" /\ held = 0 /\ stdin = <<>> /\ Len(stdin) = 0 /\ batch.commit = 0
    BY <2>1 DEF EndsKnown, CommitsKept, BeforeLog
  <2>4. LogTypes' /\ ProcessesKnown'
    BY <2>1, <2>2 DEF LogTypes, ProcessesKnown, Running, BeforeLog
  <2>5. CommitsKept'
    <3>1. listed - Len(pipe[RevList]) = batch.commit + Len(stdin) + 0
      <4>1. listed = 0 /\ Len(pipe[RevList]) = 0 /\ batch.commit = 0 /\ Len(stdin) = 0
        BY <2>2, <2>3
      <4> QED
        BY ONLY <4>1
    <3>2. UNCHANGED <<pipe, listed, batch, stdin, held, copier>>
      BY <2>1
    <3> QED
      BY <2>2, <2>3, <3>1, <3>2 DEF CommitsKept
  <2>6. EndsKnown' /\ ReaderKnown' /\ ClosingKnown' /\ EndKnown'
    BY <2>1, <2>2 DEF EndsKnown, ReaderKnown, ClosingKnown, EndKnown, Reading, BeforeLog, InLog
  <2> QED
    BY <2>4, <2>5, <2>6
<1>2. CASE StartCatFile
  <2>1. /\ user = "starting" /\ user' = "ready" /\ proc[CatFile] = "none"
        /\ proc' = [proc EXCEPT ![CatFile] = "running"]
        /\ writeEnd' = writeEnd \cup {CatFile} /\ readEnd' = readEnd \cup {CatFile}
        /\ copier' = "on" /\ closers' = Procs
        /\ UNCHANGED <<piper, pipe, reaped, gitVars, held, stdin, atLine, got, scanErr, scanDone, firstErr, ended>>
    BY <1>2 DEF StartCatFile
  <2>2. /\ proc'[CatFile] = "running" /\ proc'[RevList] = proc[RevList]
        /\ proc' \in [Procs -> {"none", "running", "signalled", "ok", "failed"}]
    BY <2>1 DEF LogTypes
  <2>3. /\ copier = "off" /\ ~scanDone /\ ~ended /\ got = 0 /\ pipe[CatFile] = <<>>
        /\ RevList \in readEnd /\ proc[RevList] # "none"
        /\ held = 0 /\ batch = [commit |-> 0, state |-> "idle"]
    BY <2>1 DEF EndsKnown, CommitsKept, BeforeLog
  <2>4. LogTypes' /\ ProcessesKnown'
    BY <2>1, <2>2 DEF LogTypes, ProcessesKnown, Running, InLog
  <2>5. CommitsKept'
    <3>1. /\ listed - Len(pipe[RevList]) = batch.commit + Len(stdin) + (IF held = 0 THEN 0 ELSE 1)
          /\ GoesOn(stdin, batch.commit) /\ GoesOn(pipe[RevList], listed - Len(pipe[RevList]))
      BY <2>3 DEF CommitsKept
    <3>2. UNCHANGED <<pipe, listed, batch, stdin, held>> /\ copier' = "on" /\ held = 0
      BY <2>1, <2>3
    <3>3. proc'[RevList] # "none"
      BY <2>2, <2>3
    <3> QED
      BY ONLY <3>1, <3>2, <3>3 DEF CommitsKept
  <2>6. EndsKnown'
    BY <2>1, <2>2, <2>3 DEF EndsKnown, BeforeLog
  <2>7. ReaderKnown'
    <3>1. ReaderDue' = <<"line", 1>> /\ WriterDue' = <<"line", 1>>
      BY <2>1, <2>3 DEF ReaderDue, WriterDue
    <3> QED
      BY <2>1, <2>3, <3>1 DEF ReaderKnown, Leads
  <2>8. ClosingKnown' /\ EndKnown'
    BY <2>1, <2>3 DEF ClosingKnown, EndKnown
  <2> QED
    BY <2>4, <2>5, <2>6, <2>7, <2>8
<1> QED
  BY <1>1, <1>2

-----------------------------------------------------------------------------
(* The two halves of closing a pipe, by Log and by Log.close.              *)
LEMMA CloseKeeps ==
    ASSUME LogInv, NEW p \in Procs, CloseReadEnd(p),
           UNCHANGED <<gitVars, copyVars, logVars>>,
           user' \in BeforeLog \cup InLog, ~Reading', copier # "on" \/ p = CatFile,
           EndsKnown', ClosingKnown', EndKnown'
    PROVE  LogInv'
<1> USE DEF LogInv, gitVars, copyVars, logVars
<1>1. /\ readEnd' = readEnd \ {p} /\ pipe' = [pipe EXCEPT ![p] = <<>>]
      /\ UNCHANGED <<piper, proc, writeEnd, reaped>>
  <2>1. piper = TRUE /\ proc \in [Procs -> {"none", "running", "signalled", "ok", "failed"}]
    BY DEF LogTypes
  <2>2. proc' = proc
    BY <2>1 DEF CloseReadEnd
  <2> QED
    BY <2>2 DEF CloseReadEnd
<1>2. /\ pipe' = [x \in Procs |-> pipe'[x]]
      /\ \A x \in Procs : pipe'[x] = IF x = p THEN <<>> ELSE pipe[x]
  BY <1>1 DEF LogTypes
<1>3. LogTypes'
  <2>1. /\ pipe'[RevList] = <<>> \/ pipe'[RevList] = pipe[RevList]
        /\ pipe'[CatFile] = <<>> \/ pipe'[CatFile] = pipe[CatFile]
    BY <1>2
  <2>2. pipe'[RevList] \in Seq(Nat) /\ pipe'[CatFile] \in Seq(AllChunks)
    <3>1. pipe[RevList] \in Seq(Nat) /\ pipe[CatFile] \in Seq(AllChunks)
      BY DEF LogTypes
    <3>2. <<>> \in Seq(Nat) /\ <<>> \in Seq(AllChunks)
      OBVIOUS
    <3> QED
      BY ONLY <2>1, <3>1, <3>2
  <2> QED
    BY <1>1, <1>2, <2>2 DEF LogTypes
<1>4. ProcessesKnown'
  BY <1>1 DEF ProcessesKnown, Running
<1>5. CommitsKept'
  <2>1. CASE p = RevList
    <3>1. pipe'[RevList] = <<>> /\ RevList \notin readEnd'
      BY <1>1, <1>2, <2>1
    <3>2. GoesOn(pipe'[RevList], listed' - Len(pipe'[RevList]))
      BY <3>1 DEF GoesOn
    <3> QED
      BY <1>1, <3>1, <3>2 DEF CommitsKept, Running
  <2>2. CASE p = CatFile
    <3>1. pipe'[RevList] = pipe[RevList] /\ (RevList \in readEnd' <=> RevList \in readEnd)
      BY <1>1, <1>2, <2>2
    <3> QED
      BY <1>1, <3>1 DEF CommitsKept, Running
  <2> QED
    BY <2>1, <2>2
<1>6. ReaderKnown'
  BY DEF ReaderKnown
<1> QED
  BY <1>3, <1>4, <1>5, <1>6

LEMMA WaitKeeps ==
    ASSUME LogInv, NEW p \in Procs, Wait(p),
           UNCHANGED <<gitVars, copyVars, atLine, got, scanErr, scanDone, ended>>,
           closers' \in {{}, {RevList}, Procs},
           user' \in BeforeLog \cup InLog, ~Reading', EndsKnown', ClosingKnown', EndKnown'
    PROVE  LogInv'
<1> USE DEF LogInv, gitVars, copyVars
<1>1. /\ proc[p] \in Exited /\ reaped' = reaped \cup {p}
      /\ UNCHANGED <<piper, proc, pipe, writeEnd, readEnd>>
  BY DEF Wait, LogTypes
<1>2. LogTypes' /\ ProcessesKnown' /\ CommitsKept'
  BY <1>1 DEF LogTypes, ProcessesKnown, CommitsKept, Running, Exited
<1>3. ReaderKnown'
  BY DEF ReaderKnown
<1> QED
  BY <1>2, <1>3

LEMMA AbortSteps ==
    ASSUME LogInv, AbortCloses \/ AbortWaits
    PROVE  LogInv'
<1> USE DEF LogInv, Goto, gitVars, copyVars, logVars
<1>1. CASE AbortCloses
  <2>1. user = "abort" /\ user' = "abortWait" /\ CloseReadEnd(RevList) /\ UNCHANGED <<gitVars, copyVars, logVars>>
    BY <1>1 DEF AbortCloses
  <2>2. piper = TRUE /\ proc' = proc /\ pipe'[CatFile] = pipe[CatFile] /\ reaped' = reaped
    BY <2>1 DEF CloseReadEnd, LogTypes
  <2>3. EndsKnown' /\ ClosingKnown' /\ EndKnown' /\ ~Reading' /\ copier # "on"
    BY <2>1, <2>2 DEF EndsKnown, ClosingKnown, EndKnown, Reading, BeforeLog, InLog
  <2> QED
    BY <2>1, <2>3, CloseKeeps DEF BeforeLog
<1>2. CASE AbortWaits
  <2>1. user = "abortWait" /\ user' = "failed" /\ Wait(RevList) /\ UNCHANGED <<gitVars, copyVars, logVars>>
    BY <1>2 DEF AbortWaits
  <2>2. EndsKnown' /\ ClosingKnown' /\ EndKnown' /\ ~Reading'
    BY <2>1 DEF Wait, EndsKnown, ClosingKnown, EndKnown, Reading, BeforeLog, InLog
  <2>3. closers' \in {{}, {RevList}, Procs}
    BY <2>1 DEF LogTypes
  <2> QED
    BY <2>1, <2>2, <2>3, WaitKeeps DEF BeforeLog
<1> QED
  BY <1>1, <1>2

(* Log.close: the pipe of cat-file first, and firstErr remembers a failure. *)
LEMMA CloseSteps ==
    ASSUME LogInv, NEW from, NEW to,
           <<from, to>> \in {<<"nextClose", "nextWait">>, <<"close", "closeWait">>},
           ClosesPipe(from, to)
    PROVE  LogInv'
<1> USE DEF LogInv, gitVars, copyVars, logVars
<1> DEFINE p == FirstCloser
<1>1. /\ closers # {} /\ user = from /\ user' = to /\ CloseReadEnd(p)
      /\ UNCHANGED <<gitVars, copyVars, logVars>>
      /\ from \in {"nextClose", "close"} /\ to \in {"nextWait", "closeWait"}
      /\ to = "nextWait" => from = "nextClose"
      /\ to = "closeWait" => from = "close"
  BY DEF ClosesPipe, Goto
<1>2. p \in Procs /\ (p = CatFile \/ CatFile \notin closers)
  BY DEF FirstCloser
<1>3. /\ piper = TRUE /\ proc' = proc /\ reaped' = reaped /\ readEnd' = readEnd \ {p}
      /\ user' \in InLog /\ user \in InLog /\ user' \notin BeforeLog
  BY <1>1 DEF CloseReadEnd, LogTypes, InLog, BeforeLog
<1>4. copier # "on" \/ p = CatFile
  BY <1>2, <1>3 DEF EndsKnown
<1> HIDE DEF p
<1>5. EndsKnown'
  <2>1. copier = "on" => RevList \in readEnd'
    BY <1>3, <1>4 DEF EndsKnown
  <2> QED
    BY <1>1, <1>3, <2>1 DEF EndsKnown
<1>6. ClosingKnown'
  BY <1>1, <1>3 DEF ClosingKnown, WriterDue, Running
<1>7. EndKnown' /\ ~Reading'
  BY <1>1, <1>3 DEF EndKnown, AllOk, Reading
<1> QED
  BY <1>1, <1>2, <1>3, <1>4, <1>5, <1>6, <1>7, CloseKeeps

LEMMA WaitSteps ==
    ASSUME LogInv, NEW from, NEW to,
           <<from, to>> \in {<<"nextWait", "nextClose">>, <<"closeWait", "close">>},
           WaitsFor(from, to)
    PROVE  LogInv'
<1> USE DEF LogInv, gitVars, copyVars, logVars
<1> DEFINE p == FirstCloser
<1>1. /\ user = from /\ user' = to /\ Wait(p)
      /\ p = CatFile => copier = "done"
      /\ closers' = closers \ {p}
      /\ ~firstErr' => ~firstErr /\ proc[p] = "ok"
      /\ UNCHANGED <<gitVars, copyVars, atLine, got, scanErr, scanDone, ended>>
      /\ from \in {"nextWait", "closeWait"} /\ to \in {"nextClose", "close"}
      /\ to = "nextClose" => from = "nextWait"
      /\ to = "close" => from = "closeWait"
  BY DEF WaitsFor, Goto, CloserErr
<1>2. closers \in {{RevList}, Procs} /\ p = IF closers = Procs THEN CatFile ELSE RevList
  BY <1>1 DEF EndsKnown, LogTypes, FirstCloser
<1>3. p \in Procs /\ closers' \in {{}, {RevList}, Procs}
  BY <1>1, <1>2
<1>4. /\ proc' = proc /\ pipe' = pipe /\ readEnd' = readEnd /\ reaped' = reaped \cup {p}
      /\ user' \in InLog /\ user \in InLog /\ user' \notin BeforeLog
  BY <1>1 DEF Wait, InLog, BeforeLog
<1>5. CatFile \notin closers' => copier = "done"
  BY <1>1, <1>2, <1>4 DEF EndsKnown
<1> HIDE DEF p
<1>6. EndsKnown'
  BY <1>1, <1>4, <1>5 DEF EndsKnown
<1>7. ClosingKnown'
  BY <1>1, <1>4 DEF ClosingKnown, WriterDue, Running
<1>8. EndKnown' /\ ~Reading'
  BY <1>1, <1>4 DEF EndKnown, AllOk, Reading
<1> QED
  BY <1>1, <1>3, <1>4, <1>6, <1>7, <1>8, WaitKeeps

LEMMA StepLog == LogInv /\ [Next]_vars => LogInv'
<1> SUFFICES ASSUME LogInv, [Next]_vars PROVE LogInv'
  OBVIOUS
<1>1. CASE CallStep
  <2>1. CASE ClosesPipe("nextClose", "nextWait") \/ ClosesPipe("close", "closeWait")
    BY <2>1, CloseSteps
  <2>2. CASE WaitsFor("nextWait", "nextClose") \/ WaitsFor("closeWait", "close")
    BY <2>2, WaitSteps
  <2> QED
    BY <1>1, <2>1, <2>2, StartSteps, AbortSteps, ReaderSteps, UserSteps DEF CallStep
<1>2. CASE Copier
  BY <1>2, CopierSteps DEF Copier
<1>3. CASE CopyStderr \/ GitWritesStderr
  BY <1>3, StderrKeeps DEF CopyStderr, GitWritesStderr
<1>4. CASE Watchers
  BY <1>4, TerminateKeeps DEF Watchers
<1>5. CASE UNCHANGED vars
  BY <1>5, StderrKeeps DEF vars
<1> QED
  BY <1>1, <1>2, <1>3, <1>4, <1>5, StartSteps, UserSteps, RevListSteps, CatFileSteps DEF Next

(* What a Log keeps, whichever of its processes fails.                     *)
THEOREM LogInvariant == Spec => []LogInv
<1> QED
  BY InitLog, StepLog, PTL DEF Spec

(***************************************************************************)
(* Log.Next ends without an error, and not within a record, only when it   *)
(* has returned every commit of rev-list and both processes succeeded.     *)
(***************************************************************************)
THEOREM LogCleanEndIsComplete == Spec => []CleanEndIsComplete
<1>1. LogInv => CleanEndIsComplete
  BY DEF LogInv, EndKnown, AllOk, CleanEndIsComplete
<1> QED
  BY <1>1, LogInvariant, PTL

(***************************************************************************)
(* Log.Next pairs every information line with the object written after it, *)
(* in rev-list's order.                                                    *)
(***************************************************************************)
THEOREM LogCommitsInOrder == Spec => []CommitsInOrder
<1>1. LogInv => CommitsInOrder
  <2> SUFFICES ASSUME LogInv, user = "object" PROVE CommitsInOrder
    BY DEF CommitsInOrder
  <2>1. atLine = got + 1 /\ Leads(pipe[CatFile], ReaderDue, WriterDue)
    BY DEF LogInv, ReaderKnown, Reading
  <2>2. ASSUME pipe[CatFile] # <<>> PROVE Head(pipe[CatFile]).commit = atLine
    <3>1. Head(pipe[CatFile]) = pipe[CatFile][1]
      BY <2>2 DEF LogInv, LogTypes
    <3>2. IsDue(pipe[CatFile][1]) = <<"object", atLine>>
      BY <2>1, <2>2 DEF Leads, ReaderDue
    <3> QED
      BY <3>1, <3>2 DEF IsDue
  <2> QED
    BY <2>1, <2>2 DEF CommitsInOrder
<1> QED
  BY <1>1, LogInvariant, PTL

(***************************************************************************)
(* When Log has failed, or Log.close has closed both pipes, both processes *)
(* have been waited for and the copying goroutine is over.                 *)
(***************************************************************************)
THEOREM LogNothingLeft == Spec => []NothingLeft
<1>1. LogInv => NothingLeft
  <2> SUFFICES ASSUME LogInv, user = "failed" \/ (user = "ready" /\ closers = {}) PROVE NothingLeft
    BY DEF NothingLeft
  <2>1. CASE user = "failed"
    BY <2>1 DEF LogInv, EndsKnown, ProcessesKnown, BeforeLog, NothingLeft
  <2>2. CASE user = "ready" /\ closers = {}
    BY <2>2 DEF LogInv, EndsKnown, ProcessesKnown, InLog, NothingLeft
  <2> QED
    BY <2>1, <2>2
<1> QED
  BY <1>1, LogInvariant, PTL

-----------------------------------------------------------------------------
(***************************************************************************)
(* Standard error.  The pieces a subprocess has written are, in order, the *)
(* captured ones, those its stream buffers and those in its pipe; what is  *)
(* left in the pipe is lost once the copying has failed.  The two texts    *)
(* meet at a piece that is settled: the end of a line, the end of all the  *)
(* subprocess wrote, or any piece of one whose copying has failed.         *)
(***************************************************************************)
AllPieces == [proc : Procs, n : Nat, newline : BOOLEAN]

(* What is captured of p are its first c pieces, each of them once.        *)
Holds(p, c) ==
    /\ \A i \in 1..Len(captured) : captured[i].proc = p => captured[i].n \in 1..c
    /\ \A n \in 1..c : Captured(p, n)

(* The pieces q of p go on after the first c.                              *)
Numbered(q, p, c) == \A i \in 1..Len(q) : q[i].proc = p /\ q[i].n = c + i

(* A piece that what another subprocess writes may follow.                 *)
Settled(x) ==
    \/ x.newline
    \/ errCopy[x.proc] = "failed"
    \/ errCopy[x.proc] = "done" /\ x.n = errSent[x.proc]

SettledNext(x) ==
    \/ x.newline
    \/ errCopy'[x.proc] = "failed"
    \/ errCopy'[x.proc] = "done" /\ x.n = errSent'[x.proc]

StderrTypes ==
    /\ errSent \in [Procs -> Nat]
    /\ errCopy \in [Procs -> {"off", "on", "done", "failed"}]
    /\ errPipe \in [Procs -> Seq(AllPieces)]
    /\ lineBuf \in [Procs -> Seq(AllPieces)]
    /\ captured \in Seq(AllPieces) /\ Len(captured) <= CaptureCap

(* The pieces of p from the buffer to its pipe, when c are captured.       *)
TextKnown(p, c) ==
    /\ Holds(p, c)
    /\ Numbered(lineBuf[p], p, c)
    /\ errCopy[p] # "failed" =>
         /\ Numbered(errPipe[p], p, c + Len(lineBuf[p]))
         /\ errSent[p] = c + Len(lineBuf[p]) + Len(errPipe[p])

TextsKnown == \A p \in Procs : \E c \in Nat : TextKnown(p, c)

CopyingKnown ==
    \A p \in Procs :
        /\ errCopy[p] = "off" <=> proc[p] = "none"
        /\ errCopy[p] = "done" => proc[p] \in Exited /\ errPipe[p] = <<>>

InOrder ==
    \A i, j \in 1..Len(captured) :
        captured[i].proc = captured[j].proc /\ i < j => captured[i].n < captured[j].n

(* The texts of the subprocesses meet where one of them is settled.        *)
EdgesKnown ==
    /\ \A i \in 1..Len(captured) - 1 :
          captured[i].proc # captured[i + 1].proc => Settled(captured[i])
    /\ captured # <<>> => Len(captured) = CaptureCap \/ Settled(captured[Len(captured)])

FlushedKnown ==
    user \in {"nextClose", "nextWait"} /\ ~firstErr =>
        \A p \in Procs \ closers : errCopy[p] = "done" /\ lineBuf[p] = <<>>

StderrInv ==
    StderrTypes /\ TextsKnown /\ CopyingKnown /\ InOrder /\ EdgesKnown /\ FlushedKnown

USE StderrAssumption
HIDE LogAssumption

-----------------------------------------------------------------------------
LessPairs == {ss \in Nat \X Nat : ss[1] < ss[2]}

(* A set of numbers that is not empty and has a bound has a largest one.   *)
LEMMA LargestNumber ==
    ASSUME NEW b \in Nat, NEW S \in SUBSET (0..b), S # {}
    PROVE  \E n \in S : \A m \in S : m <= n
<1> DEFINE T == {b - n : n \in S}
<1>1. IsWellFoundedOn(LessPairs, Nat)
  BY NatLessThanWellFounded DEF OpToRel, LessPairs
<1>2. T \subseteq Nat /\ T # {}
  <2>1. \A n \in S : n \in 0..b /\ b - n \in Nat
    OBVIOUS
  <2>2. PICK n \in S : TRUE
    OBVIOUS
  <2>3. b - n \in T
    OBVIOUS
  <2> QED
    BY <2>1, <2>3
<1>3. PICK x \in T : \A y \in T : <<y, x>> \notin LessPairs
  BY <1>1, <1>2, WFMin
<1>4. \A y \in T : ~(y < x)
  <2>1. ASSUME NEW y \in T, y < x PROVE FALSE
    BY <1>2, <1>3, <2>1 DEF LessPairs
  <2> QED
    BY <2>1
<1>5. PICK n \in S : x = b - n
  OBVIOUS
<1>6. ASSUME NEW m \in S PROVE m <= n
  <2>1. b - m \in T
    OBVIOUS
  <2>2. ~(b - m < b - n)
    BY <1>4, <1>5, <2>1
  <2>3. m \in 0..b /\ n \in 0..b
    OBVIOUS
  <2> QED
    BY <2>2, <2>3
<1> QED
  BY <1>6

(* bytes.LastIndexByte of a newline, and one.                              *)
LEMMA LineEndKnown ==
    ASSUME NEW data \in Seq(AllPieces)
    PROVE  /\ LineEnd(data) \in 0..Len(data)
           /\ LineEnd(data) > 0 => data[LineEnd(data)].newline
<1> DEFINE S == {i \in 0..Len(data) : i > 0 => data[i].newline}
<1>1. Len(data) \in Nat /\ 0 \in S /\ S \subseteq 0..Len(data)
  OBVIOUS
<1>2. PICK e \in S : \A m \in S : m <= e
  BY <1>1, LargestNumber
<1>3. ASSUME NEW j \in e + 1..Len(data) PROVE ~data[j].newline
  <2>1. e \in 0..Len(data) /\ j \in 0..Len(data) /\ ~(j <= e)
    BY <1>1
  <2>2. j \notin S
    BY <1>2, <2>1
  <2> QED
    BY <2>1, <2>2
<1>4. \E i \in 0..Len(data) : /\ i > 0 => data[i].newline
                              /\ \A j \in i + 1..Len(data) : ~data[j].newline
  BY <1>1, <1>3
<1> QED
  BY <1>4 DEF LineEnd

LEMMA NumberedParts ==
    ASSUME NEW q \in Seq(AllPieces), NEW p, NEW c \in Nat, Numbered(q, p, c), NEW m \in 0..Len(q)
    PROVE  /\ SubSeq(q, 1, m) \in Seq(AllPieces) /\ Len(SubSeq(q, 1, m)) = m
           /\ \A i \in 1..m : SubSeq(q, 1, m)[i] = q[i]
           /\ SubSeq(q, m + 1, Len(q)) \in Seq(AllPieces)
           /\ Len(SubSeq(q, m + 1, Len(q))) = Len(q) - m
           /\ Numbered(SubSeq(q, 1, m), p, c)
           /\ Numbered(SubSeq(q, m + 1, Len(q)), p, c + m)
<1>1. Len(q) \in Nat
  OBVIOUS
<1>2. /\ SubSeq(q, 1, m) \in Seq(AllPieces) /\ Len(SubSeq(q, 1, m)) = m
      /\ \A i \in 1..m : SubSeq(q, 1, m)[i] = q[i]
  BY <1>1
<1>3. /\ SubSeq(q, m + 1, Len(q)) \in Seq(AllPieces)
      /\ Len(SubSeq(q, m + 1, Len(q))) = Len(q) - m
      /\ \A i \in 1..Len(q) - m : SubSeq(q, m + 1, Len(q))[i] = q[m + i]
  BY <1>1
<1>4. Numbered(SubSeq(q, 1, m), p, c)
  BY <1>1, <1>2 DEF Numbered
<1>5. Numbered(SubSeq(q, m + 1, Len(q)), p, c + m)
  <2>1. ASSUME NEW i \in 1..Len(q) - m PROVE q[m + i].proc = p /\ q[m + i].n = c + m + i
    BY <1>1 DEF Numbered
  <2> QED
    BY <1>3, <2>1 DEF Numbered
<1> QED
  BY <1>2, <1>3, <1>4, <1>5

LEMMA NumberedJoins ==
    ASSUME NEW q \in Seq(AllPieces), NEW r \in Seq(AllPieces), NEW p, NEW c \in Nat,
           Numbered(q, p, c), Numbered(r, p, c + Len(q))
    PROVE  /\ q \o r \in Seq(AllPieces) /\ Len(q \o r) = Len(q) + Len(r)
           /\ Numbered(q \o r, p, c)
           /\ r # <<>> => q \o r # <<>> /\ (q \o r)[Len(q) + Len(r)] = r[Len(r)]
<1> DEFINE s == q \o r
<1>1. /\ Len(q) \in Nat /\ Len(r) \in Nat /\ s \in Seq(AllPieces) /\ Len(s) = Len(q) + Len(r)
      /\ \A i \in 1..Len(q) : s[i] = q[i]
      /\ \A i \in 1..Len(r) : s[Len(q) + i] = r[i]
  OBVIOUS
<1> HIDE DEF s
<1>2. ASSUME NEW i \in 1..Len(s) PROVE s[i].proc = p /\ s[i].n = c + i
  <2>1. CASE i <= Len(q)
    <3>1. i \in 1..Len(q) /\ s[i] = q[i]
      BY <1>1, <2>1
    <3> QED
      BY <3>1 DEF Numbered
  <2>2. CASE i > Len(q)
    <3>1. i - Len(q) \in 1..Len(r) /\ s[i] = r[i - Len(q)]
      <4>1. i - Len(q) \in 1..Len(r) /\ Len(q) + (i - Len(q)) = i
        BY <1>1, <2>2
      <4> QED
        BY <1>1, <4>1
    <3>2. r[i - Len(q)].proc = p /\ r[i - Len(q)].n = c + Len(q) + (i - Len(q))
      BY <3>1 DEF Numbered
    <3> QED
      BY <1>1, <3>1, <3>2
  <2> QED
    BY <1>1, <2>1, <2>2
<1>3. r # <<>> => s # <<>> /\ s[Len(q) + Len(r)] = r[Len(r)]
  <2>1. r # <<>> => Len(r) \in 1..Len(r)
    OBVIOUS
  <2>2. r # <<>> => Len(s) > 0
    BY <1>1, <2>1
  <2> QED
    BY <1>1, <2>1, <2>2
<1> QED
  BY <1>1, <1>2, <1>3 DEF s, Numbered

(* What the limitWriter takes of a text.                                   *)
LEMMA LimitedKnown ==
    ASSUME StderrTypes, NEW text \in Seq(AllPieces)
    PROVE  \E m \in 0..Len(text) :
              /\ Limited(text) = captured \o SubSeq(text, 1, m)
              /\ Len(captured) + m <= CaptureCap
              /\ Fits(text) => m = Len(text)
              /\ ~Fits(text) => m = CaptureCap - Len(captured)
<1>1. Len(captured) \in Nat /\ Len(text) \in Nat /\ CaptureCap \in Nat /\ Len(captured) <= CaptureCap
  BY DEF StderrTypes
<1>2. CASE Fits(text)
  <2>1. SubSeq(text, 1, Len(text)) = text
    BY <1>1
  <2>2. Limited(text) = captured \o SubSeq(text, 1, Len(text))
    BY <1>2, <2>1 DEF Limited
  <2>3. Len(captured) + Len(text) <= CaptureCap /\ Len(text) \in 0..Len(text)
    BY <1>1, <1>2 DEF Fits
  <2> QED
    BY <1>2, <2>2, <2>3
<1>3. CASE ~Fits(text)
  <2>1. CaptureCap - Len(captured) \in 0..Len(text)
    BY <1>1, <1>3 DEF Fits
  <2>2. Limited(text) = captured \o SubSeq(text, 1, CaptureCap - Len(captured))
    BY <1>3 DEF Limited
  <2>3. Len(captured) + (CaptureCap - Len(captured)) <= CaptureCap
    BY <1>1
  <2> QED
    BY <1>3, <2>1, <2>2, <2>3
<1> QED
  BY <1>2, <1>3

-----------------------------------------------------------------------------
(* A step that appends the pieces t of p to what is captured.              *)
LEMMA CapturedGrows ==
    ASSUME StderrTypes, InOrder, NEW p \in Procs, NEW c \in Nat, Holds(p, c),
           NEW t \in Seq(AllPieces), Numbered(t, p, c), captured' = captured \o t
    PROVE  /\ captured' \in Seq(AllPieces) /\ Len(captured') = Len(captured) + Len(t)
           /\ \A i \in 1..Len(captured) : captured'[i] = captured[i]
           /\ \A i \in 1..Len(t) : captured'[Len(captured) + i] = t[i]
           /\ Holds(p, c + Len(t))' /\ InOrder'
           /\ \A q \in Procs \ {p}, d \in Nat : Holds(q, d) => Holds(q, d)'
<1> DEFINE k == Len(captured)
           s == captured'
<1>1. /\ k \in Nat /\ Len(t) \in Nat /\ s \in Seq(AllPieces) /\ Len(s) = k + Len(t)
      /\ \A i \in 1..k : s[i] = captured[i]
      /\ \A i \in 1..Len(t) : s[k + i] = t[i]
  BY DEF StderrTypes
<1>2. ASSUME NEW i \in 1..Len(s), ~(i <= k)
      PROVE  i - k \in 1..Len(t) /\ s[i].proc = p /\ s[i].n = c + (i - k)
  <2>1. i - k \in 1..Len(t) /\ k + (i - k) = i
    BY <1>1, <1>2
  <2> QED
    BY <1>1, <2>1 DEF Numbered
<1>3. ASSUME NEW i \in 1..k PROVE i \in 1..Len(s) /\ captured[i].n \in Nat /\ captured[i] \in AllPieces
  <2>1. captured[i] \in AllPieces
    BY <1>1 DEF StderrTypes
  <2> QED
    BY <1>1, <2>1 DEF AllPieces
<1> HIDE DEF k, s
<1>9. DOMAIN captured = 1..k /\ DOMAIN captured' = 1..Len(s)
  BY <1>1 DEF StderrTypes, k, s
<1>4. ASSUME NEW q \in Procs, NEW n \in Nat, Captured(q, n) PROVE Captured(q, n)'
  <2>1. PICK i \in 1..k : captured[i].proc = q /\ captured[i].n = n
    BY <1>4, <1>9 DEF Captured
  <2>2. i \in 1..Len(s) /\ s[i] = captured[i]
    BY <1>1, <1>3
  <2>3. i \in DOMAIN captured' /\ captured'[i].proc = q /\ captured'[i].n = n
    BY <1>9, <2>1, <2>2 DEF s
  <2> QED
    BY <2>3 DEF Captured
<1>5. ASSUME NEW n \in c + 1..c + Len(t) PROVE Captured(p, n)'
  <2>1. n - c \in 1..Len(t)
    BY <1>1
  <2>2. k + (n - c) \in 1..Len(s) /\ s[k + (n - c)] = t[n - c]
    BY <1>1, <2>1
  <2>3. t[n - c].proc = p /\ t[n - c].n = n
    <3>1. t[n - c].proc = p /\ t[n - c].n = c + (n - c) /\ c + (n - c) = n
      BY <2>1 DEF Numbered
    <3> QED
      BY <3>1
  <2>4. \E i \in 1..Len(s) : s[i].proc = p /\ s[i].n = n
    BY <2>2, <2>3
  <2> QED
    BY <1>9, <2>4 DEF Captured, s
<1>6. Holds(p, c + Len(t))'
  <2>1. ASSUME NEW i \in 1..Len(s), s[i].proc = p PROVE s[i].n \in 1..c + Len(t)
    <3>1. CASE i <= k
      <4>1. i \in 1..k /\ s[i] = captured[i]
        BY <1>1, <3>1
      <4>2. captured[i].n \in 1..c
        BY <2>1, <4>1 DEF Holds, k
      <4> QED
        BY <1>1, <4>1, <4>2
    <3>2. CASE ~(i <= k)
      BY <1>1, <1>2, <3>2
    <3> QED
      BY <3>1, <3>2
  <2>2. ASSUME NEW n \in 1..c + Len(t) PROVE Captured(p, n)'
    <3>1. n \in 1..c \/ n \in c + 1..c + Len(t)
      BY <1>1
    <3>2. n \in 1..c => Captured(p, n)
      BY DEF Holds
    <3> QED
      BY <1>4, <1>5, <3>1, <3>2
  <2> QED
    BY <2>1, <2>2 DEF Holds, s
<1>7. InOrder'
  <2>1. ASSUME NEW i \in 1..Len(s), NEW j \in 1..Len(s), s[i].proc = s[j].proc, i < j
        PROVE  s[i].n < s[j].n
    <3>1. CASE j <= k
      <4>1. i \in 1..k /\ j \in 1..k /\ s[i] = captured[i] /\ s[j] = captured[j]
        BY <1>1, <2>1, <3>1
      <4> QED
        BY <2>1, <4>1 DEF InOrder, k
    <3>2. CASE ~(j <= k) /\ i <= k
      <4>1. i \in 1..k /\ s[i] = captured[i] /\ s[j].proc = p /\ s[j].n = c + (j - k) /\ j - k >= 1
        BY <1>1, <1>2, <3>2
      <4>2. captured[i].n \in 1..c
        BY <2>1, <4>1 DEF Holds, k
      <4> QED
        BY <1>1, <4>1, <4>2
    <3>3. CASE ~(i <= k)
      <4>1. ~(j <= k)
        BY <1>1, <2>1, <3>3
      <4>2. s[i].n = c + (i - k) /\ s[j].n = c + (j - k)
        BY <1>2, <3>3, <4>1
      <4> QED
        BY <1>1, <2>1, <4>2
    <3> QED
      BY <3>1, <3>2, <3>3
  <2> QED
    BY <2>1 DEF InOrder, s
<1>8. ASSUME NEW q \in Procs \ {p}, NEW d \in Nat, Holds(q, d) PROVE Holds(q, d)'
  <2>1. ASSUME NEW i \in 1..Len(s), s[i].proc = q PROVE s[i].n \in 1..d
    <3>1. i <= k
      BY <1>2, <2>1
    <3>2. i \in 1..k /\ s[i] = captured[i]
      BY <1>1, <3>1
    <3> QED
      BY <1>8, <2>1, <3>2 DEF Holds, k
  <2>2. \A n \in 1..d : Captured(q, n)'
    BY <1>4, <1>8 DEF Holds
  <2> QED
    BY <2>1, <2>2 DEF Holds, s
<1> QED
  BY <1>1, <1>6, <1>7, <1>8 DEF k, s

(* The pieces t may follow what was captured, and others may follow them.  *)
LEMMA EdgesGrow ==
    ASSUME StderrTypes, EdgesKnown, NEW p \in Procs, NEW c \in Nat,
           NEW t \in Seq(AllPieces), Numbered(t, p, c),
           Len(captured') = Len(captured) + Len(t), Len(captured) + Len(t) <= CaptureCap,
           \A i \in 1..Len(captured) : captured'[i] = captured[i],
           \A i \in 1..Len(t) : captured'[Len(captured) + i] = t[i],
           captured' \in Seq(AllPieces),
           \A x \in AllPieces : Settled(x) => SettledNext(x),
           t # <<>> => Len(captured) + Len(t) = CaptureCap \/ SettledNext(t[Len(t)])
    PROVE  EdgesKnown'
<1> DEFINE k == Len(captured)
           s == captured'
<1>1. k \in Nat /\ Len(t) \in Nat /\ Len(s) = k + Len(t)
  BY DEF StderrTypes
<1>2. ASSUME NEW i \in 1..k PROVE captured[i] \in AllPieces
  BY <1>1 DEF StderrTypes
<1>3. ASSUME NEW i \in 1..Len(s) - 1, s[i].proc # s[i + 1].proc PROVE SettledNext(s[i])
  <2>1. CASE i < k
    <3>1. i \in 1..k - 1 /\ i \in 1..k /\ i + 1 \in 1..k /\ s[i] = captured[i] /\ s[i + 1] = captured[i + 1]
      BY <1>1, <2>1
    <3>2. Settled(captured[i])
      BY <1>3, <3>1 DEF EdgesKnown
    <3> QED
      BY <1>2, <3>1, <3>2
  <2>2. CASE i = k
    <3>1. captured # <<>> /\ Len(t) > 0 /\ k # CaptureCap /\ k \in 1..k /\ s[i] = captured[k]
      <4>1. i >= 1 /\ i <= k + Len(t) - 1 /\ i = k
        BY <1>1, <2>2
      <4>2. Len(t) > 0 /\ k >= 1 /\ k \in 1..k
        BY <1>1, <4>1
      <4>3. captured # <<>>
        BY <4>2
      <4>4. k # CaptureCap
        BY <1>1, <4>2, StderrAssumption
      <4>5. s[i] = captured[k]
        BY <4>1, <4>2
      <4> QED
        BY <4>2, <4>3, <4>4, <4>5
    <3>2. Settled(captured[k])
      BY <3>1 DEF EdgesKnown
    <3> QED
      BY <1>2, <3>1, <3>2
  <2>3. CASE i > k
    <3>1. PICK a \in 1..Len(t) : i = k + a
      <4>1. i - k \in 1..Len(t) /\ i = k + (i - k)
        BY <1>1, <2>3
      <4> QED
        BY <4>1
    <3>2. a + 1 \in 1..Len(t) /\ i + 1 = k + (a + 1)
      BY <1>1, <3>1
    <3>3. s[i].proc = p /\ s[i + 1].proc = p
      <4>1. s[k + a] = t[a] /\ s[k + (a + 1)] = t[a + 1]
        BY <3>2
      <4>2. t[a].proc = p /\ t[a + 1].proc = p
        BY <3>2 DEF Numbered
      <4> QED
        BY <3>1, <3>2, <4>1, <4>2
    <3> QED
      BY <1>3, <3>3
  <2> QED
    BY <1>1, <2>1, <2>2, <2>3
<1>4. ASSUME s # <<>>, Len(s) # CaptureCap PROVE SettledNext(s[Len(s)])
  <2>1. CASE t = <<>>
    <3>1. Len(s) = k /\ k \in 1..k /\ captured # <<>> /\ s[k] = captured[k]
      BY <1>1, <1>4, <2>1
    <3>2. Settled(captured[k])
      BY <1>4, <3>1 DEF EdgesKnown
    <3> QED
      BY <1>2, <3>1, <3>2
  <2>2. CASE t # <<>>
    <3>1. Len(t) \in 1..Len(t)
      BY <2>2
    <3>2. s[Len(s)] = t[Len(t)]
      BY <1>1, <3>1
    <3> QED
      BY <1>1, <1>4, <2>2, <3>2
  <2> QED
    BY <2>1, <2>2
<1> QED
  BY <1>3, <1>4 DEF EdgesKnown, Settled, SettledNext

(* What p's stream gives the limitWriter, the pieces t after the first c,  *)
(* and what it buffers then.                                               *)
Writes(p, c, t) ==
    /\ t \in Seq(AllPieces) /\ Numbered(t, p, c)
    /\ captured' = captured \o t /\ Len(captured) + Len(t) <= CaptureCap
    /\ lineBuf' \in [Procs -> Seq(AllPieces)]
    /\ \A q \in Procs \ {p} : lineBuf'[q] = lineBuf[q]
    /\ Numbered(lineBuf'[p], p, c + Len(t))
    /\ t # <<>> => Len(captured) + Len(t) = CaptureCap \/ SettledNext(t[Len(t)])

LEMMA WritesKeep ==
    ASSUME StderrInv, NEW p \in Procs, NEW c \in Nat, Holds(p, c), NEW t, Writes(p, c, t),
           errSent' \in [Procs -> Nat], errPipe' \in [Procs -> Seq(AllPieces)],
           errCopy' \in [Procs -> {"off", "on", "done", "failed"}],
           \A q \in Procs \ {p} : /\ errPipe'[q] = errPipe[q] /\ errSent'[q] = errSent[q]
                                  /\ errCopy'[q] = errCopy[q],
           errCopy'[p] # "failed" =>
             /\ Numbered(errPipe'[p], p, c + Len(t) + Len(lineBuf'[p]))
             /\ errSent'[p] = c + Len(t) + Len(lineBuf'[p]) + Len(errPipe'[p]),
           \/ errCopy[p] \in {"off", "on"}
           \/ errCopy'[p] = errCopy[p] /\ errSent'[p] = errSent[p],
           CopyingKnown', FlushedKnown'
    PROVE  StderrInv'
<1>1. /\ captured' \in Seq(AllPieces) /\ Len(captured') = Len(captured) + Len(t)
      /\ \A i \in 1..Len(captured) : captured'[i] = captured[i]
      /\ \A i \in 1..Len(t) : captured'[Len(captured) + i] = t[i]
      /\ Holds(p, c + Len(t))' /\ InOrder'
      /\ \A q \in Procs \ {p}, d \in Nat : Holds(q, d) => Holds(q, d)'
  BY CapturedGrows DEF StderrInv, Writes
<1>2. StderrTypes'
  BY <1>1 DEF StderrInv, StderrTypes, Writes
<1>3. ASSUME NEW x \in AllPieces, Settled(x) PROVE SettledNext(x)
  BY <1>3 DEF AllPieces, Settled, SettledNext
<1>4. EdgesKnown'
  BY <1>1, <1>3, EdgesGrow DEF StderrInv, Writes
<1>5. Len(t) \in Nat
  BY DEF Writes
<1>6. \E d \in Nat : TextKnown(p, d)'
  <2>1. c + Len(t) \in Nat
    BY <1>5
  <2>2. TextKnown(p, c + Len(t))'
    BY <1>1 DEF TextKnown, Writes
  <2> QED
    BY <2>1, <2>2
<1>7. ASSUME NEW q \in Procs \ {p} PROVE \E d \in Nat : TextKnown(q, d)'
  <2>1. PICK d \in Nat : TextKnown(q, d)
    BY DEF StderrInv, TextsKnown
  <2>2. /\ lineBuf'[q] = lineBuf[q] /\ errPipe'[q] = errPipe[q]
        /\ errSent'[q] = errSent[q] /\ errCopy'[q] = errCopy[q]
    BY DEF Writes
  <2>3. Holds(q, d)'
    BY <1>1, <2>1 DEF TextKnown
  <2>4. TextKnown(q, d)'
    BY <2>1, <2>2, <2>3 DEF TextKnown
  <2> QED
    BY <2>4
<1>8. TextsKnown'
  BY <1>6, <1>7 DEF TextsKnown
<1> QED
  BY <1>1, <1>2, <1>4, <1>8 DEF StderrInv

(* A step that neither writes to the buffer nor moves what streams hold.   *)
LEMMA WritesNothing ==
    ASSUME StderrInv, NEW p \in Procs, NEW c \in Nat, TextKnown(p, c), UNCHANGED <<captured, lineBuf>>
    PROVE  Writes(p, c, <<>>)
<1>1. captured \o <<>> = captured /\ Len(captured) \in Nat /\ Len(<<>>) = 0 /\ <<>> \in Seq(AllPieces)
  BY DEF StderrInv, StderrTypes
<1>2. Numbered(<<>>, p, c)
  BY <1>1 DEF Numbered
<1>3. c + Len(<<>>) = c
  BY <1>1
<1> QED
  BY <1>1, <1>2, <1>3 DEF StderrInv, StderrTypes, Writes, TextKnown

LEMMA StreamKnown ==
    ASSUME StderrInv, NEW p \in Procs
    PROVE  /\ lineBuf[p] \in Seq(AllPieces) /\ errPipe[p] \in Seq(AllPieces)
           /\ Len(lineBuf[p]) \in Nat /\ Len(errPipe[p]) \in Nat /\ errSent[p] \in Nat
           /\ Len(captured) \in Nat
           /\ \E c \in Nat : TextKnown(p, c)
<1>1. lineBuf[p] \in Seq(AllPieces) /\ errPipe[p] \in Seq(AllPieces) /\ errSent[p] \in Nat
      /\ captured \in Seq(AllPieces)
  BY DEF StderrInv, StderrTypes
<1> QED
  BY <1>1 DEF StderrInv, TextsKnown

LEMMA WriteKeeps ==
    ASSUME StderrInv, NEW p \in Procs, WritesStderr(p), UNCHANGED <<proc, user, firstErr, closers>>
    PROVE  StderrInv'
<1>1. PICK c \in Nat : TextKnown(p, c)
  BY StreamKnown
<1>2. /\ errCopy[p] = "on" /\ errSent' = [errSent EXCEPT ![p] = @ + 1]
      /\ UNCHANGED <<errCopy, lineBuf, captured>>
  BY DEF WritesStderr
<1>3. PICK lf \in BOOLEAN : errPipe' =
          [errPipe EXCEPT ![p] = Append(@, [proc |-> p, n |-> errSent'[p], newline |-> lf])]
  BY DEF WritesStderr
<1> DEFINE x == [proc |-> p, n |-> errSent'[p], newline |-> lf]
<1>4. errSent \in [Procs -> Nat] /\ errPipe \in [Procs -> Seq(AllPieces)]
  BY DEF StderrInv, StderrTypes
<1>5. errSent'[p] = errSent[p] + 1 /\ errSent' \in [Procs -> Nat]
  BY <1>2, <1>4
<1>6. x \in AllPieces /\ x.proc = p /\ x.n = errSent[p] + 1
  BY <1>5, StreamKnown DEF AllPieces
<1>7. errPipe' = [errPipe EXCEPT ![p] = Append(@, x)]
  BY <1>3
<1> HIDE DEF x
<1>8. errPipe' \in [Procs -> Seq(AllPieces)] /\ errPipe'[p] = Append(errPipe[p], x)
      /\ \A q \in Procs \ {p} : errPipe'[q] = errPipe[q] /\ errSent'[q] = errSent[q]
  BY <1>2, <1>4, <1>6, <1>7
<1>9. /\ Numbered(errPipe[p], p, c + Len(lineBuf[p]))
      /\ errSent[p] = c + Len(lineBuf[p]) + Len(errPipe[p])
  BY <1>1, <1>2 DEF TextKnown
<1>10. /\ Numbered(errPipe'[p], p, c + Len(lineBuf[p]))
       /\ errSent'[p] = c + Len(lineBuf[p]) + Len(errPipe'[p])
  <2> DEFINE e == errPipe[p]
  <2>1. /\ e \in Seq(AllPieces) /\ Len(e) \in Nat /\ Len(lineBuf[p]) \in Nat
    BY StreamKnown
  <2> HIDE DEF e
  <2>2. /\ Len(Append(e, x)) = Len(e) + 1 /\ Append(e, x)[Len(e) + 1] = x
        /\ \A i \in 1..Len(e) : Append(e, x)[i] = e[i]
    BY <1>6, <2>1
  <2>3. errPipe'[p] = Append(e, x)
    BY <1>8 DEF e
  <2>4. /\ Numbered(e, p, c + Len(lineBuf[p])) /\ errSent[p] = c + Len(lineBuf[p]) + Len(e)
    BY <1>9 DEF e
  <2>5. c + Len(lineBuf[p]) + Len(e) + 1 = c + Len(lineBuf[p]) + (Len(e) + 1)
    <3>1. \A l, m \in Nat : c + l + m + 1 = c + l + (m + 1)
      OBVIOUS
    <3> QED
      BY <2>1, <3>1
  <2>6. ASSUME NEW i \in 1..Len(e) + 1
        PROVE  Append(e, x)[i].proc = p /\ Append(e, x)[i].n = c + Len(lineBuf[p]) + i
    <3>1. CASE i \in 1..Len(e)
      BY <2>2, <2>4, <3>1 DEF Numbered
    <3>2. CASE i = Len(e) + 1
      <4>1. Append(e, x)[i] = x
        BY <2>2, <3>2
      <4>2. errSent[p] + 1 = c + Len(lineBuf[p]) + i
        <5>1. errSent[p] = c + Len(lineBuf[p]) + Len(e)
          BY <2>4
        <5> QED
          BY <5>1, <2>1, <2>5, <3>2
      <4> QED
        BY <1>6, <4>1, <4>2
    <3> QED
      BY <2>1, <3>1, <3>2
  <2>7. Numbered(Append(e, x), p, c + Len(lineBuf[p]))
    BY <2>2, <2>6 DEF Numbered
  <2>8. errSent'[p] = c + Len(lineBuf[p]) + Len(errPipe'[p])
    <3>1. errSent'[p] = errSent[p] + 1 /\ Len(errPipe'[p]) = Len(e) + 1
      BY <1>5, <2>2, <2>3
    <3>2. errSent[p] = c + Len(lineBuf[p]) + Len(e)
      BY <2>4
    <3> QED
      BY <2>5, <3>1, <3>2
  <2> QED
    BY <2>3, <2>7, <2>8
<1>11. Writes(p, c, <<>>) /\ Len(<<>>) = 0
  BY <1>1, <1>2, WritesNothing
<1>12. CopyingKnown'
  BY <1>2, <1>8 DEF StderrInv, CopyingKnown
<1>13. FlushedKnown'
  BY <1>2 DEF StderrInv, FlushedKnown
<1>14. Holds(p, c) /\ errCopy' \in [Procs -> {"off", "on", "done", "failed"}]
  BY <1>1, <1>2 DEF TextKnown, StderrInv, StderrTypes
<1>15. c + Len(<<>>) = c
  BY <1>11
<1> QED
  BY <1>2, <1>5, <1>8, <1>10, <1>11, <1>12, <1>13, <1>14, <1>15, WritesKeep

(* The goroutine of p starts, or ends with the subprocess.                 *)
LEMMA GoroutineKeeps ==
    ASSUME StderrInv, NEW p \in Procs, NEW to \in {"on", "done"},
           errCopy' = [errCopy EXCEPT ![p] = to],
           UNCHANGED <<errSent, errPipe, lineBuf, captured>>,
           errCopy[p] \in {"off", "on"}, CopyingKnown', FlushedKnown'
    PROVE  StderrInv'
<1>1. PICK c \in Nat : TextKnown(p, c)
  BY StreamKnown
<1>2. Writes(p, c, <<>>) /\ Len(<<>>) = 0 /\ c + Len(<<>>) = c
  BY <1>1, WritesNothing
<1>3. errCopy \in [Procs -> {"off", "on", "done", "failed"}]
  BY DEF StderrInv, StderrTypes
<1>4. /\ errCopy' \in [Procs -> {"off", "on", "done", "failed"}]
      /\ \A q \in Procs \ {p} : errCopy'[q] = errCopy[q]
  BY <1>3
<1>5. Holds(p, c) /\ Numbered(errPipe[p], p, c + Len(lineBuf[p]))
      /\ errSent[p] = c + Len(lineBuf[p]) + Len(errPipe[p])
  BY <1>1 DEF TextKnown
<1>6. errSent' \in [Procs -> Nat] /\ errPipe' \in [Procs -> Seq(AllPieces)]
  BY DEF StderrInv, StderrTypes
<1> QED
  BY <1>2, <1>4, <1>5, <1>6, WritesKeep

(* muxWriterStream.Write.                                                  *)
LEMMA CopyKeeps ==
    ASSUME StderrInv, NEW p \in Procs, CopiesStderr(p), UNCHANGED <<proc, user, firstErr, closers>>
    PROVE  StderrInv'
<1> DEFINE b == lineBuf[p]
           d == errPipe[p]
           e == LineEnd(d)
           lines == SubSeq(d, 1, e)
           rest == SubSeq(d, e + 1, Len(d))
<1>1. PICK c \in Nat : TextKnown(p, c)
  BY StreamKnown
<1>2. /\ errCopy[p] = "on" /\ errPipe' = [errPipe EXCEPT ![p] = <<>>] /\ errSent' = errSent
      /\ \/ Buffers(p, d)
         \/ WritesLines(p, d)
         \/ WriteErrs(p, d)
  BY DEF CopiesStderr
<1>3. /\ b \in Seq(AllPieces) /\ d \in Seq(AllPieces) /\ Len(b) \in Nat /\ Len(d) \in Nat
      /\ Len(captured) \in Nat /\ errSent[p] \in Nat
  BY StreamKnown
<1>4. /\ Holds(p, c) /\ Numbered(b, p, c) /\ Numbered(d, p, c + Len(b))
      /\ errSent[p] = c + Len(b) + Len(d)
  BY <1>1, <1>2 DEF TextKnown
<1>5. e \in 0..Len(d) /\ (e > 0 => d[e].newline)
  BY <1>3, LineEndKnown
<1>6. StderrTypes
  BY DEF StderrInv
<1>7. /\ errSent' \in [Procs -> Nat] /\ errPipe' \in [Procs -> Seq(AllPieces)] /\ errPipe'[p] = <<>>
      /\ \A q \in Procs \ {p} : errPipe'[q] = errPipe[q] /\ errSent'[q] = errSent[q]
  BY <1>2, <1>6 DEF StderrTypes
<1> HIDE DEF b, d, e
<1>8. c + Len(b) \in Nat
  BY <1>3
<1>9. /\ lines \in Seq(AllPieces) /\ Len(lines) = e
      /\ \A i \in 1..e : lines[i] = d[i]
      /\ rest \in Seq(AllPieces) /\ Len(rest) = Len(d) - e
      /\ Numbered(lines, p, c + Len(b)) /\ Numbered(rest, p, c + Len(b) + e)
  BY <1>3, <1>4, <1>5, <1>8, NumberedParts
<1> HIDE DEF lines, rest
<1>10. /\ b \o lines \in Seq(AllPieces) /\ Len(b \o lines) = Len(b) + e /\ Numbered(b \o lines, p, c)
       /\ e > 0 => (b \o lines)[Len(b) + e].newline
  <2>1. lines # <<>> => (b \o lines)[Len(b) + Len(lines)] = lines[Len(lines)]
    BY <1>3, <1>4, <1>9, NumberedJoins
  <2>2. e > 0 => lines # <<>> /\ lines[e] = d[e]
    BY <1>5, <1>9
  <2> QED
    BY <1>3, <1>4, <1>5, <1>9, <2>1, <2>2, NumberedJoins
<1>11. ASSUME NEW t, Writes(p, c, t), errCopy' \in [Procs -> {"off", "on", "done", "failed"}],
              \A q \in Procs \ {p} : errCopy'[q] = errCopy[q],
              \/ errCopy'[p] = "failed"
              \/ errCopy'[p] = "on" /\ errSent[p] = c + Len(t) + Len(lineBuf'[p])
       PROVE  StderrInv'
  <2>1. errSent[p] = c + Len(t) + Len(lineBuf'[p]) =>
          /\ Numbered(errPipe'[p], p, c + Len(t) + Len(lineBuf'[p]))
          /\ errSent'[p] = c + Len(t) + Len(lineBuf'[p]) + Len(errPipe'[p])
    <3>1. errPipe'[p] = <<>> /\ Len(errPipe'[p]) = 0 /\ errSent'[p] = errSent[p]
      BY <1>2, <1>7
    <3>2. \A n : Numbered(errPipe'[p], p, n)
      BY <3>1 DEF Numbered
    <3>3. errSent[p] = errSent[p] + Len(errPipe'[p])
      BY <1>3, <3>1
    <3> QED
      BY <3>1, <3>2, <3>3
  <2>2. CopyingKnown'
    BY <1>2, <1>7, <1>11 DEF StderrInv, CopyingKnown
  <2>3. FlushedKnown'
    <3>1. ASSUME user \in {"nextClose", "nextWait"}, ~firstErr, NEW q \in Procs \ closers
          PROVE  errCopy'[q] = "done" /\ lineBuf'[q] = <<>>
      <4>1. errCopy[q] = "done" /\ lineBuf[q] = <<>>
        BY <3>1 DEF StderrInv, FlushedKnown
      <4>2. q # p
        BY <1>2, <4>1
      <4> QED
        BY <1>11, <4>1, <4>2 DEF Writes
    <3> QED
      BY <3>1 DEF FlushedKnown
  <2> QED
    BY <1>2, <1>4, <1>7, <1>11, <2>1, <2>2, <2>3, WritesKeep
<1>12. ASSUME NEW text \in Seq(AllPieces), Numbered(text, p, c), captured' = Limited(text),
              lineBuf' \in [Procs -> Seq(AllPieces)],
              \A q \in Procs \ {p} : lineBuf'[q] = lineBuf[q],
              NEW m \in 0..Len(text), Limited(text) = captured \o SubSeq(text, 1, m),
              Len(captured) + m <= CaptureCap,
              Numbered(lineBuf'[p], p, c + m),
              \/ errCopy'[p] = "failed"
              \/ m = Len(text) /\ (text # <<>> => text[Len(text)].newline)
       PROVE  Writes(p, c, SubSeq(text, 1, m)) /\ Len(SubSeq(text, 1, m)) = m
  <2> DEFINE t == SubSeq(text, 1, m)
  <2>1. /\ t \in Seq(AllPieces) /\ Len(t) = m /\ Numbered(t, p, c)
        /\ \A i \in 1..m : t[i] = text[i]
    BY <1>12, NumberedParts
  <2>2. ASSUME t # <<>> PROVE SettledNext(t[Len(t)])
    <3>1. m \in 1..m
      BY <2>1, <2>2
    <3>2. t[m].proc = p /\ t[m] = text[m] /\ text # <<>>
      BY <2>1, <3>1 DEF Numbered
    <3> QED
      BY <1>12, <2>1, <3>2 DEF SettledNext
  <2> HIDE DEF t
  <2>3. Writes(p, c, t)
    BY <1>12, <2>1, <2>2 DEF Writes, t
  <2> QED
    BY <2>1, <2>3 DEF t
<1>13. CASE Buffers(p, d)
  <2>1. /\ lineBuf' = [lineBuf EXCEPT ![p] = @ \o d] /\ UNCHANGED <<errCopy, captured>>
    BY <1>13 DEF Buffers
  <2>2. /\ b \o d \in Seq(AllPieces) /\ Len(b \o d) = Len(b) + Len(d) /\ Numbered(b \o d, p, c)
    BY <1>3, <1>4, NumberedJoins
  <2>3. /\ lineBuf' \in [Procs -> Seq(AllPieces)] /\ lineBuf'[p] = b \o d
        /\ \A q \in Procs \ {p} : lineBuf'[q] = lineBuf[q]
    BY <1>6, <2>1, <2>2 DEF StderrTypes, b
  <2>4. captured \o <<>> = captured /\ Len(<<>>) = 0 /\ <<>> \in Seq(AllPieces) /\ Numbered(<<>>, p, c)
        /\ c + Len(<<>>) = c
    BY <1>6 DEF StderrTypes, Numbered
  <2>5. Writes(p, c, <<>>)
    <3>1. captured' = captured \o <<>> /\ Numbered(lineBuf'[p], p, c + Len(<<>>))
      BY <2>1, <2>2, <2>3, <2>4
    <3>2. Len(captured) + Len(<<>>) <= CaptureCap
      BY <1>3, <1>6, <2>4 DEF StderrTypes
    <3> QED
      BY <2>3, <2>4, <3>1, <3>2 DEF Writes
  <2>6. errSent[p] = c + Len(<<>>) + Len(lineBuf'[p])
    BY <1>3, <1>4, <2>2, <2>3, <2>4
  <2>7. errCopy' \in [Procs -> {"off", "on", "done", "failed"}]
        /\ \A q \in Procs : errCopy'[q] = errCopy[q]
    BY <1>6, <2>1 DEF StderrTypes
  <2> QED
    BY <1>2, <1>11, <2>5, <2>6, <2>7
<1>14. CASE WritesLines(p, d)
  <2> DEFINE text == b \o lines
  <2>1. /\ e > 0 /\ Fits(text) /\ captured' = Limited(text) /\ errCopy' = errCopy
        /\ lineBuf' = [lineBuf EXCEPT ![p] = rest]
    BY <1>14 DEF WritesLines, b, e, lines, rest
  <2>2. PICK m \in 0..Len(text) : /\ Limited(text) = captured \o SubSeq(text, 1, m)
                                  /\ Len(captured) + m <= CaptureCap
                                  /\ Fits(text) => m = Len(text)
    BY <1>6, <1>10, LimitedKnown
  <2>3. /\ lineBuf' \in [Procs -> Seq(AllPieces)] /\ lineBuf'[p] = rest
        /\ \A q \in Procs \ {p} : lineBuf'[q] = lineBuf[q]
    BY <1>6, <1>9, <2>1 DEF StderrTypes
  <2>4. m = Len(b) + e /\ text[Len(text)].newline
    BY <1>10, <2>1, <2>2
  <2>5. Numbered(lineBuf'[p], p, c + m)
    <3>1. c + m = c + Len(b) + e
      BY <1>3, <1>5, <2>4
    <3> QED
      BY <1>9, <2>3, <3>1
  <2>6. m = Len(text) /\ text \in Seq(AllPieces) /\ Numbered(text, p, c)
    BY <1>10, <2>1, <2>2
  <2> HIDE DEF text
  <2>7. Writes(p, c, SubSeq(text, 1, m)) /\ Len(SubSeq(text, 1, m)) = m
    BY <1>12, <2>1, <2>2, <2>3, <2>4, <2>5, <2>6
  <2>8. errSent[p] = c + Len(SubSeq(text, 1, m)) + Len(lineBuf'[p])
    BY <1>3, <1>4, <1>5, <1>9, <2>3, <2>4, <2>7
  <2>9. errCopy' \in [Procs -> {"off", "on", "done", "failed"}]
        /\ \A q \in Procs : errCopy'[q] = errCopy[q]
    BY <1>6, <2>1 DEF StderrTypes
  <2> QED
    BY <1>2, <1>11, <2>7, <2>8, <2>9
<1>15. CASE WriteErrs(p, d)
  <2>1. errCopy' = [errCopy EXCEPT ![p] = "failed"]
    BY <1>15 DEF WriteErrs
  <2>2. /\ errCopy' \in [Procs -> {"off", "on", "done", "failed"}] /\ errCopy'[p] = "failed"
        /\ \A q \in Procs \ {p} : errCopy'[q] = errCopy[q]
    BY <1>6, <2>1 DEF StderrTypes
  <2>3. CASE UNCHANGED <<lineBuf, captured>>
    BY <1>1, <1>11, <2>2, <2>3, WritesNothing
  <2>4. CASE ~Fits(b) /\ KeepsUnwritten(p)
    <3>1. /\ captured' = Limited(b)
          /\ lineBuf' = [lineBuf EXCEPT ![p] = SubSeq(@, CaptureCap - Len(captured) + 1, Len(@))]
      BY <2>4 DEF KeepsUnwritten, b
    <3>2. PICK m \in 0..Len(b) : /\ Limited(b) = captured \o SubSeq(b, 1, m)
                                 /\ Len(captured) + m <= CaptureCap
                                 /\ ~Fits(b) => m = CaptureCap - Len(captured)
      BY <1>3, <1>6, LimitedKnown
    <3> DEFINE r == SubSeq(b, m + 1, Len(b))
    <3>3. r \in Seq(AllPieces) /\ Numbered(r, p, c + m)
      BY <1>3, <1>4, NumberedParts
    <3>4. lineBuf' = [lineBuf EXCEPT ![p] = r]
      BY <2>4, <3>1, <3>2 DEF b
    <3> HIDE DEF r
    <3>5. /\ lineBuf' \in [Procs -> Seq(AllPieces)] /\ lineBuf'[p] = r
          /\ \A q \in Procs \ {p} : lineBuf'[q] = lineBuf[q]
      BY <1>6, <3>3, <3>4 DEF StderrTypes
    <3>6. Writes(p, c, SubSeq(b, 1, m))
      BY <1>3, <1>4, <1>12, <2>2, <3>1, <3>2, <3>3, <3>5
    <3> QED
      BY <1>11, <2>2, <3>6
  <2>5. CASE captured' = Limited(b \o lines) /\ lineBuf' = [lineBuf EXCEPT ![p] = <<>>]
    <3> DEFINE text == b \o lines
    <3>1. PICK m \in 0..Len(text) : /\ Limited(text) = captured \o SubSeq(text, 1, m)
                                    /\ Len(captured) + m <= CaptureCap
      BY <1>6, <1>10, LimitedKnown
    <3>2. /\ lineBuf' \in [Procs -> Seq(AllPieces)] /\ lineBuf'[p] = <<>>
          /\ \A q \in Procs \ {p} : lineBuf'[q] = lineBuf[q]
      BY <1>6, <2>5 DEF StderrTypes
    <3>3. Numbered(lineBuf'[p], p, c + m)
      BY <3>2 DEF Numbered
    <3>4. text \in Seq(AllPieces) /\ Numbered(text, p, c) /\ captured' = Limited(text)
      BY <1>10, <2>5
    <3> HIDE DEF text
    <3>5. Writes(p, c, SubSeq(text, 1, m))
      BY <1>12, <2>2, <3>1, <3>2, <3>3, <3>4
    <3> QED
      BY <1>11, <2>2, <3>5
  <2> QED
    BY <1>15, <2>3, <2>4, <2>5 DEF WriteErrs, b, e, lines
<1> QED
  BY <1>2, <1>13, <1>14, <1>15

(* muxWriterStream.Flush, when the goroutine of p is over.                 *)
LEMMA FlushKeeps ==
    ASSUME StderrInv, NEW p \in Procs, Flush(p), errCopy[p] \in {"done", "failed"},
           UNCHANGED proc, FlushedKnown'
    PROVE  StderrInv'
<1> DEFINE b == lineBuf[p]
<1>1. PICK c \in Nat : TextKnown(p, c)
  BY StreamKnown
<1>2. /\ b \in Seq(AllPieces) /\ errPipe[p] \in Seq(AllPieces) /\ Len(b) \in Nat
      /\ Len(captured) \in Nat /\ errSent[p] \in Nat
  BY StreamKnown
<1>3. StderrTypes /\ CopyingKnown
  BY DEF StderrInv
<1>4. Holds(p, c) /\ Numbered(b, p, c)
  BY <1>1 DEF TextKnown
<1>5. UNCHANGED <<errSent, errPipe, errCopy>> /\ captured' = Limited(b)
  BY DEF Flush, KeepsUnwritten
<1>6. /\ Fits(b) => lineBuf' = [lineBuf EXCEPT ![p] = <<>>]
      /\ ~Fits(b) => lineBuf' = [lineBuf EXCEPT
                         ![p] = SubSeq(lineBuf[p], CaptureCap - Len(captured) + 1, Len(lineBuf[p]))]
  BY DEF Flush, KeepsUnwritten
<1>7. PICK m \in 0..Len(b) : /\ Limited(b) = captured \o SubSeq(b, 1, m)
                             /\ Len(captured) + m <= CaptureCap
                             /\ Fits(b) => m = Len(b)
                             /\ ~Fits(b) => m = CaptureCap - Len(captured)
  <2> HIDE DEF b
  <2> QED
    BY <1>2, <1>3, LimitedKnown
<1> DEFINE t == SubSeq(b, 1, m)
           r == SubSeq(b, m + 1, Len(b))
<1>8. lineBuf' = [lineBuf EXCEPT ![p] = r]
  <2>1. CASE Fits(b)
    <3>1. r = <<>>
      BY <1>2, <1>7, <2>1
    <3> HIDE DEF r, b
    <3> QED
      BY <1>6, <2>1, <3>1
  <2>2. CASE ~Fits(b)
    BY <1>6, <1>7, <2>2
  <2> QED
    BY <2>1, <2>2
<1> HIDE DEF b
<1>9. /\ t \in Seq(AllPieces) /\ Len(t) = m /\ \A i \in 1..m : t[i] = b[i]
      /\ r \in Seq(AllPieces) /\ Len(r) = Len(b) - m
      /\ Numbered(t, p, c) /\ Numbered(r, p, c + m)
  BY <1>2, <1>4, <1>7, NumberedParts
<1> HIDE DEF t, r
<1>10. /\ lineBuf' \in [Procs -> Seq(AllPieces)] /\ lineBuf'[p] = r
       /\ \A q \in Procs \ {p} : lineBuf'[q] = lineBuf[q]
  BY <1>3, <1>8, <1>9 DEF StderrTypes
<1>11. c + Len(t) + Len(r) = c + Len(b)
  BY <1>2, <1>9
<1>12. errCopy[p] # "failed" =>
         /\ Numbered(errPipe[p], p, c + Len(b))
         /\ errSent[p] = c + Len(b) + Len(errPipe[p])
  BY <1>1 DEF TextKnown, b
<1>13. ASSUME t # <<>> PROVE Len(captured) + Len(t) = CaptureCap \/ SettledNext(t[Len(t)])
  <2>1. CASE ~Fits(b)
    BY <1>2, <1>3, <1>7, <1>9, <2>1 DEF StderrTypes
  <2>2. CASE Fits(b)
    <3>1. Len(t) = Len(b) /\ Len(t) \in 1..Len(t)
      BY <1>7, <1>9, <1>13, <2>2
    <3>2. t[Len(t)].proc = p /\ t[Len(t)].n = c + Len(b)
      BY <1>9, <3>1 DEF Numbered
    <3>3. CASE errCopy[p] = "failed"
      BY <1>5, <3>2, <3>3 DEF SettledNext
    <3>4. CASE errCopy[p] = "done"
      <4>1. errPipe[p] = <<>> /\ Len(errPipe[p]) = 0
        BY <1>3, <3>4 DEF CopyingKnown
      <4>2. errSent[p] = c + Len(b)
        BY <1>2, <1>12, <3>4, <4>1
      <4> QED
        BY <1>5, <3>2, <3>4, <4>2 DEF SettledNext
    <3> QED
      BY <3>3, <3>4
  <2> QED
    BY <2>1, <2>2
<1>14. Writes(p, c, t)
  <2>1. captured' = captured \o t
    BY <1>5, <1>7 DEF t
  <2>2. Numbered(lineBuf'[p], p, c + Len(t))
    BY <1>9, <1>10
  <2>3. Len(captured) + Len(t) <= CaptureCap
    BY <1>7, <1>9
  <2> QED
    BY <1>9, <1>10, <1>13, <2>1, <2>2, <2>3 DEF Writes
<1>15. errCopy'[p] # "failed" =>
         /\ Numbered(errPipe'[p], p, c + Len(t) + Len(lineBuf'[p]))
         /\ errSent'[p] = c + Len(t) + Len(lineBuf'[p]) + Len(errPipe'[p])
  BY <1>5, <1>10, <1>11, <1>12
<1>16. CopyingKnown'
  BY <1>3, <1>5 DEF CopyingKnown
<1>17. /\ errSent' \in [Procs -> Nat] /\ errPipe' \in [Procs -> Seq(AllPieces)]
       /\ errCopy' \in [Procs -> {"off", "on", "done", "failed"}]
  BY <1>3, <1>5 DEF StderrTypes
<1> QED
  BY <1>4, <1>5, <1>14, <1>15, <1>16, <1>17, WritesKeep

-----------------------------------------------------------------------------
(* A step by which nothing of standard error moves.                        *)
ProcsGoOn ==
    \A p \in Procs : /\ proc'[p] = "none" <=> proc[p] = "none"
                     /\ proc[p] \in Exited => proc'[p] \in Exited

LEMMA SilentKeeps ==
    ASSUME StderrInv, UNCHANGED <<errSent, errPipe, errCopy, lineBuf, captured>>,
           ProcsGoOn, FlushedKnown'
    PROVE  StderrInv'
<1>1. StderrTypes'
  BY DEF StderrInv, StderrTypes
<1>2. ASSUME NEW p \in Procs PROVE \E c \in Nat : TextKnown(p, c)'
  <2>1. PICK c \in Nat : TextKnown(p, c)
    BY DEF StderrInv, TextsKnown
  <2>2. \A n : Captured(p, n)' <=> Captured(p, n)
    BY DEF Captured
  <2>3. Holds(p, c)'
    BY <2>1, <2>2 DEF TextKnown, Holds
  <2>4. TextKnown(p, c)'
    BY <2>1, <2>3 DEF TextKnown, Numbered
  <2> QED
    BY <2>4
<1>3. CopyingKnown'
  BY DEF StderrInv, CopyingKnown, ProcsGoOn
<1>4. InOrder' /\ EdgesKnown'
  BY DEF StderrInv, InOrder, EdgesKnown, Settled
<1> QED
  BY <1>1, <1>2, <1>3, <1>4 DEF StderrInv, TextsKnown

LEMMA ProcsKeep == ASSUME UNCHANGED proc PROVE ProcsGoOn
<1> QED
  BY DEF ProcsGoOn

LEMMA ExitGoesOn ==
    ASSUME LogTypes, NEW p \in Procs, NEW status \in {"ok", "failed"},
           Running(p), proc' = [proc EXCEPT ![p] = status]
    PROVE  ProcsGoOn
<1>1. \A q \in Procs : proc'[q] = IF q = p THEN status ELSE proc[q]
  BY DEF LogTypes
<1> QED
  BY <1>1 DEF ProcsGoOn, Running, Exited

LEMMA TerminateGoesOn ==
    ASSUME LogTypes, NEW p \in Procs, Terminate(p) \/ WatcherEnds(p)
    PROVE  ProcsGoOn
<1>1. CASE Terminate(p)
  <2>1. \A q \in Procs : proc'[q] = proc[q] \/ (proc[q] = "running" /\ proc'[q] = "signalled")
    BY <1>1 DEF Terminate, LogTypes
  <2> QED
    BY <2>1 DEF ProcsGoOn, Exited
<1>2. CASE WatcherEnds(p)
  BY <1>2, ProcsKeep DEF WatcherEnds
<1> QED
  BY <1>1, <1>2

(* git rev-list, git cat-file, the goroutine between them, and sigterm's.  *)
LEMMA SubprocessesSilent ==
    ASSUME LogInv, StderrInv,
           \/ RevListWrites \/ RevListEnds \/ RevListFails
           \/ CatFileTakes \/ CatFileWrites \/ CatFileEnds \/ CatFileStops
           \/ Copier \/ Watchers \/ CancelParent \/ UNCHANGED vars
    PROVE  StderrInv'
<1>1. UNCHANGED <<stderrVars, user, closers, firstErr>>
  BY DEF RevListWrites, RevListEnds, RevListFails, CatFileTakes, CatFileWrites, CatFileEnds,
         CatFileStops, Copier, CopierReads, CopierWrites, CopierEnds, Watchers, CancelParent,
         logVars, vars
<1>2. LogTypes
  BY DEF LogInv
<1>3. ProcsGoOn
  <2>1. CASE RevListWrites \/ CatFileTakes \/ CatFileWrites \/ Copier \/ CancelParent \/ UNCHANGED vars
    <3>1. UNCHANGED proc
      BY <2>1 DEF RevListWrites, CatFileTakes, CatFileWrites, Copier, CopierReads, CopierWrites,
                  CopierEnds, CancelParent, vars, pipeVars, WriteChunk, ReadChunk, CancelContext
    <3> QED
      BY <3>1, ProcsKeep
  <2>2. CASE RevListEnds \/ RevListFails \/ CatFileEnds \/ CatFileStops
    <3>1. PICK p \in Procs, status \in {"ok", "failed"} :
             Running(p) /\ proc' = [proc EXCEPT ![p] = status]
      BY <2>2, LogAssumption DEF RevListEnds, RevListFails, CatFileEnds, CatFileStops, WriteFails, StopsAfter, Exit
    <3> QED
      BY <1>2, <3>1, ExitGoesOn
  <2>3. CASE Watchers
    BY <1>2, <2>3, TerminateGoesOn DEF Watchers
  <2> QED
    BY <2>1, <2>2, <2>3
<1>4. FlushedKnown'
  BY <1>1 DEF StderrInv, FlushedKnown, stderrVars
<1> QED
  BY <1>1, <1>3, <1>4, SilentKeeps DEF stderrVars

(* The calls of Log, Next and Close that flush nothing.                    *)
LEMMA CallsSilent ==
    ASSUME LogInv, StderrInv,
           \/ LogRefused \/ StartCatFileFails \/ AbortCloses \/ AbortWaits
           \/ NextCalled \/ NextReadsLine \/ NextBadLine \/ NextTrue \/ NextBadObject
           \/ NextNoObject \/ NextAtEnd \/ NextClosed \/ NextFalse \/ CloseCalled \/ CloseReturns
           \/ ClosesPipe("nextClose", "nextWait") \/ ClosesPipe("close", "closeWait")
    PROVE  StderrInv'
<1>1. UNCHANGED stderrVars
  BY DEF LogRefused, StartCatFileFails, AbortCloses, AbortWaits, NextCalled, NextReadsLine,
         NextBadLine, NextTrue, NextBadObject, ReadFrom, NextNoObject, NextAtEnd, NextClosed,
         NextFalse, CloseCalled, CloseReturns, ClosesPipe
<1>2. UNCHANGED proc
  <2>1. ASSUME NEW p, CloseReadEnd(p) PROVE proc' = proc
    BY <2>1 DEF CloseReadEnd, LogInv, LogTypes
  <2> QED
    BY <2>1 DEF LogRefused, StartCatFileFails, AbortCloses, AbortWaits, NextCalled, NextReadsLine,
         NextBadLine, NextTrue, NextBadObject, ReadFrom, NextNoObject, NextAtEnd, NextClosed,
         NextFalse, CloseCalled, CloseReturns, ClosesPipe, ReadChunk, Wait, CancelContext, pipeVars
<1>3. \/ user' \notin {"nextClose", "nextWait"}
      \/ user \in {"nextClose", "nextWait"} /\ UNCHANGED <<firstErr, closers>>
      \/ closers' = Procs
  <2>1. CASE NextAtEnd
    BY <2>1 DEF NextAtEnd, Goto, LogInv, ReaderKnown, Reading
  <2>2. CASE ClosesPipe("nextClose", "nextWait")
    BY <2>2 DEF ClosesPipe, Goto, logVars
  <2>3. CASE ~NextAtEnd /\ ~ClosesPipe("nextClose", "nextWait")
    BY <2>3 DEF LogRefused, StartCatFileFails, AbortCloses, AbortWaits, NextCalled, NextReadsLine,
         NextBadLine, NextTrue, NextBadObject, ReadFrom, NextNoObject, NextClosed,
         NextFalse, CloseCalled, CloseReturns, ClosesPipe, Goto
  <2> QED
    BY <2>1, <2>2, <2>3
<1>4. FlushedKnown'
  BY <1>1, <1>3 DEF StderrInv, FlushedKnown, stderrVars
<1> QED
  BY <1>1, <1>2, <1>4, ProcsKeep, SilentKeeps DEF stderrVars

(* The starts of the two subprocesses.                                     *)
LEMMA StartCopyingKeeps ==
    ASSUME LogInv, StderrInv, StartRevList \/ StartCatFile
    PROVE  StderrInv'
<1>1. PICK p \in Procs : StartPipe(p) /\ StartCopying(p)
  BY LogAssumption DEF StartRevList, StartCatFile
<1>2. user' \notin {"nextClose", "nextWait"}
  BY DEF StartRevList, StartCatFile, Goto
<1>3. /\ proc[p] = "none" /\ errCopy[p] = "off"
      /\ \A q \in Procs : proc'[q] = IF q = p THEN "running" ELSE proc[q]
  BY <1>1 DEF StartPipe, StderrInv, CopyingKnown, LogInv, LogTypes
<1>4. /\ errCopy' = [errCopy EXCEPT ![p] = "on"] /\ UNCHANGED <<errSent, errPipe, lineBuf, captured>>
  BY <1>1 DEF StartCopying
<1>5. \A q \in Procs : errCopy'[q] = IF q = p THEN "on" ELSE errCopy[q]
  BY <1>4 DEF StderrInv, StderrTypes
<1>6. CopyingKnown'
  BY <1>3, <1>4, <1>5 DEF StderrInv, CopyingKnown, Exited
<1>7. FlushedKnown'
  BY <1>2 DEF FlushedKnown
<1> QED
  BY <1>3, <1>4, <1>6, <1>7, GoroutineKeeps

LEMMA CopyingEndsKeeps ==
    ASSUME StderrInv, NEW p \in Procs, CopyingEnds(p), UNCHANGED <<proc, user, firstErr, closers>>
    PROVE  StderrInv'
<1>1. /\ errCopy[p] = "on" /\ errPipe[p] = <<>> /\ proc[p] \in Exited
      /\ errCopy' = [errCopy EXCEPT ![p] = "done"] /\ UNCHANGED <<errSent, errPipe, lineBuf, captured>>
  BY DEF CopyingEnds
<1>2. \A q \in Procs : errCopy'[q] = IF q = p THEN "done" ELSE errCopy[q]
  BY <1>1 DEF StderrInv, StderrTypes
<1>3. CopyingKnown' /\ FlushedKnown'
  BY <1>1, <1>2 DEF StderrInv, CopyingKnown, FlushedKnown
<1> QED
  BY <1>1, <1>3, GoroutineKeeps

(* Log.close waits for a subprocess and flushes its stream.                *)
LEMMA WaitFlushes ==
    ASSUME LogInv, StderrInv, NEW from, NEW to,
           <<from, to>> \in {<<"nextWait", "nextClose">>, <<"closeWait", "close">>},
           WaitsFor(from, to)
    PROVE  StderrInv'
<1> DEFINE p == FirstCloser
<1>1. /\ user = from /\ user' = to /\ Wait(p) /\ Flush(p) /\ errCopy[p] # "on"
      /\ firstErr' = (firstErr \/ CloserErr) /\ closers' = closers \ {p}
      /\ to = "nextClose" => from = "nextWait"
      /\ to \in {"nextClose", "close"}
  BY DEF WaitsFor, Goto
<1>2. p \in Procs
  BY LogAssumption DEF FirstCloser
<1>3. ~firstErr' => ~firstErr /\ errCopy[p] # "failed" /\ Fits(lineBuf[p])
  BY <1>1 DEF CloserErr, FlushErr
<1> HIDE DEF p
<1>4. proc[p] \in Exited /\ proc' = proc
  BY <1>1 DEF Wait, LogInv, LogTypes
<1>5. errCopy[p] \in {"done", "failed"}
  BY <1>1, <1>2, <1>4 DEF StderrInv, StderrTypes, CopyingKnown, Exited
<1>6. ASSUME user' \in {"nextClose", "nextWait"}, ~firstErr', NEW q \in Procs \ closers'
      PROVE  errCopy'[q] = "done" /\ lineBuf'[q] = <<>>
  <2>1. /\ errCopy' = errCopy /\ lineBuf' = [lineBuf EXCEPT ![p] = <<>>]
        /\ lineBuf \in [Procs -> Seq(AllPieces)]
    BY <1>1, <1>3, <1>6 DEF Flush, StderrInv, StderrTypes
  <2>2. CASE q = p
    BY <1>2, <1>3, <1>5, <1>6, <2>1, <2>2
  <2>3. CASE q # p
    <3>1. q \in Procs \ closers /\ user = "nextWait"
      BY <1>1, <1>6, <2>3
    <3>2. errCopy[q] = "done" /\ lineBuf[q] = <<>>
      BY <1>3, <1>6, <3>1 DEF StderrInv, FlushedKnown
    <3> QED
      BY <2>1, <2>3, <3>1, <3>2
  <2> QED
    BY <2>2, <2>3
<1>7. FlushedKnown'
  BY <1>6 DEF FlushedKnown
<1> QED
  BY <1>1, <1>2, <1>4, <1>5, <1>7, FlushKeeps

-----------------------------------------------------------------------------
LEMMA InitStderr == Init => StderrInv
<1> SUFFICES ASSUME Init PROVE StderrInv
  OBVIOUS
<1>1. /\ errSent = [p \in Procs |-> 0] /\ errPipe = [p \in Procs |-> <<>>]
      /\ errCopy = [p \in Procs |-> "off"] /\ lineBuf = [p \in Procs |-> <<>>]
      /\ captured = <<>> /\ user = "start" /\ \A p \in Procs : proc[p] = "none"
  BY DEF Init, StderrInit, PipeInit
<1>2. <<>> \in Seq(AllPieces) /\ Len(<<>>) = 0
  OBVIOUS
<1>3. StderrTypes
  BY <1>1, <1>2 DEF StderrTypes
<1>4. ASSUME NEW p \in Procs PROVE TextKnown(p, 0)
  <2>1. errSent[p] = 0 /\ errPipe[p] = <<>> /\ lineBuf[p] = <<>>
    BY <1>1
  <2>2. Holds(p, 0)
    BY <1>1, <1>2 DEF Holds
  <2>3. Numbered(lineBuf[p], p, 0) /\ Numbered(errPipe[p], p, 0 + Len(lineBuf[p]))
    BY <2>1 DEF Numbered
  <2>4. errSent[p] = 0 + Len(lineBuf[p]) + Len(errPipe[p])
    BY <1>2, <2>1
  <2> QED
    BY <2>2, <2>3, <2>4 DEF TextKnown
<1>5. TextsKnown
  BY <1>4 DEF TextsKnown
<1>6. CopyingKnown /\ InOrder /\ EdgesKnown /\ FlushedKnown
  BY <1>1, <1>2 DEF CopyingKnown, InOrder, EdgesKnown, FlushedKnown
<1> QED
  BY <1>3, <1>5, <1>6 DEF StderrInv

LEMMA StepStderr == LogInv /\ StderrInv /\ [Next]_vars => StderrInv'
<1> SUFFICES ASSUME LogInv, StderrInv, [Next]_vars PROVE StderrInv'
  OBVIOUS
<1>1. CASE CallStep
  <2>1. CASE WaitsFor("nextWait", "nextClose") \/ WaitsFor("closeWait", "close")
    BY <2>1, WaitFlushes
  <2> QED
    BY <1>1, <2>1, StartCopyingKeeps, CallsSilent DEF CallStep
<1>2. CASE CopyStderr
  <2>1. PICK p \in Procs : CopiesStderr(p) \/ CopyingEnds(p)
    BY <1>2 DEF CopyStderr
  <2>2. UNCHANGED <<proc, user, firstErr, closers>>
    BY <1>2 DEF CopyStderr, pipeVars, logVars
  <2> QED
    BY <2>1, <2>2, CopyKeeps, CopyingEndsKeeps
<1>3. CASE GitWritesStderr
  BY <1>3, WriteKeeps DEF GitWritesStderr, pipeVars, logVars
<1> QED
  BY <1>1, <1>2, <1>3, StartCopyingKeeps, CallsSilent, SubprocessesSilent DEF Next

(* What the two streams keep of standard error, at every step.             *)
THEOREM LogStderrInvariant == Spec => []StderrInv
<1> QED
  BY InitStderr, StepStderr, LogInvariant, PTL DEF Spec

(***************************************************************************)
(* The standard error a Log captures: each subprocess's text in order and  *)
(* without gaps, the texts meeting where one of them is at the end of a    *)
(* line, at its end or cut off; and all of both when Next's close returns  *)
(* no error.                                                               *)
(***************************************************************************)
THEOREM LogStderrWhole == Spec => []StderrWhole
<1>1. LogInv /\ StderrInv => StderrWhole
  <2> SUFFICES ASSUME LogInv, StderrInv PROVE StderrWhole
    OBVIOUS
  <2>1. /\ DOMAIN captured = 1..Len(captured) /\ Len(captured) \in Nat
        /\ \A i \in 1..Len(captured) : captured[i] \in AllPieces
    BY DEF StderrInv, StderrTypes
  <2>2. \A i, j \in DOMAIN captured :
           captured[i].proc = captured[j].proc /\ i < j => captured[i].n < captured[j].n
    BY <2>1 DEF StderrInv, InOrder
  <2>3. ASSUME NEW i \in DOMAIN captured, NEW n \in 1..captured[i].n
        PROVE  Captured(captured[i].proc, n)
    <3>1. captured[i].proc \in Procs /\ captured[i].n \in Nat
      BY <2>1 DEF AllPieces
    <3>2. PICK c \in Nat : TextKnown(captured[i].proc, c)
      BY <3>1 DEF StderrInv, TextsKnown
    <3>3. captured[i].n \in 1..c
      BY <2>1, <3>2 DEF TextKnown, Holds
    <3>4. n \in 1..c
      BY <3>1, <3>3
    <3> QED
      BY <3>2, <3>4 DEF TextKnown, Holds
  <2>4. ASSUME NEW i \in 1..Len(captured) - 1, captured[i].proc # captured[i + 1].proc
        PROVE  \/ captured[i].newline
               \/ captured[i].n = errSent[captured[i].proc]
               \/ errCopy[captured[i].proc] = "failed"
    BY <2>4 DEF StderrInv, EdgesKnown, Settled
  <2>5. ASSUME user = "nextClose", closers = {}, ~firstErr, NEW p \in Procs, NEW n \in 1..errSent[p]
        PROVE  Captured(p, n)
    <3>1. errCopy[p] = "done" /\ lineBuf[p] = <<>>
      BY <2>5 DEF StderrInv, FlushedKnown
    <3>2. errPipe[p] = <<>>
      BY <3>1 DEF StderrInv, CopyingKnown
    <3>3. PICK c \in Nat : TextKnown(p, c)
      BY DEF StderrInv, TextsKnown
    <3>4. errSent[p] = c + Len(lineBuf[p]) + Len(errPipe[p])
      BY <3>1, <3>3 DEF TextKnown
    <3>5. Len(lineBuf[p]) = 0 /\ Len(errPipe[p]) = 0
      BY <3>1, <3>2
    <3>6. errSent[p] = c
      BY <3>4, <3>5
    <3> QED
      BY <3>3, <3>6 DEF TextKnown, Holds
  <2> QED
    BY <2>2, <2>3, <2>4, <2>5 DEF StderrWhole
<1> QED
  BY <1>1, LogInvariant, LogStderrInvariant, PTL
=============================================================================
