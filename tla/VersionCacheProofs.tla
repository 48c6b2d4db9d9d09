-------------------------- MODULE VersionCacheProofs --------------------------
(***************************************************************************)
(* Proofs about Git.getVersion, for any set of concurrent calls.  The      *)
(* argument: the calls past Lead are the one call that versionCond names,  *)
(* so the version cannot change between its two sections under the mutex.  *)
(* And about its callers, for any builds of Git, changes and settings:     *)
(* what is known of a call whose command ran stays true, because a call    *)
(* that has its version keeps it; Status then reads the strings of one     *)
(* change after the other, which is shown by counting the changes.         *)
(***************************************************************************)
EXTENDS VersionUsers, WellFoundedInduction, TLAPS

Leading(c) == pc[c] \in {"run", "git", "store"}

LeaderNamed   == \A c \in Calls : Leading(c) <=> cond = c
LeadsUncached == cond # NoCond => version = Empty
ProcHeld      == \A c \in Calls : proc[c] \in {"running", "signalled"} => pc[c] = "git"
StoresOutcome == \A c \in Calls : pc[c] = "store" => out[c] # Pending
AnswersOnce   == \A c \in Calls : pc[c] # "done" => answer[c] = Pending

IInv == /\ TypeOK
        /\ LeaderNamed
        /\ LeadsUncached
        /\ ProcHeld
        /\ StoresOutcome
        /\ AnswersOnce
        /\ FailsAlone

LEMMA InitIInv == Init => IInv
BY CallsAssumption
   DEF Init, IInv, TypeOK, LeaderNamed, LeadsUncached, ProcHeld, StoresOutcome,
       AnswersOnce, FailsAlone, Leading

(***************************************************************************)
(* The steps of a call, one lemma for each part of the invariant.          *)
(***************************************************************************)
LEMMA StepTypes ==
    ASSUME IInv, NEW c \in Calls,
           \/ Step(c) \/ Start(c) \/ Cancel(c) \/ GiveUp(c) \/ StartFails(c)
           \/ Terminate(c) \/ GitExits(c)
    PROVE  TypeOK'
<1> USE CallsAssumption DEF IInv, TypeOK, Goto, Answer, shared
<1>1. CASE Start(c)      BY <1>1 DEF Start
<1>2. CASE Cancel(c)     BY <1>2 DEF Cancel
<1>3. CASE Wait(c)       BY <1>3 DEF Wait
<1>4. CASE Wake(c)       BY <1>4 DEF Wake
<1>5. CASE GiveUp(c)     BY <1>5 DEF GiveUp
<1>6. CASE ReadCached(c) BY <1>6 DEF ReadCached
<1>7. CASE Lead(c)       BY <1>7 DEF Lead
<1>8. CASE StartFails(c) BY <1>8 DEF StartFails
<1>9. CASE StartGit(c)   BY <1>9 DEF StartGit
<1>10. CASE Terminate(c) BY <1>10 DEF Terminate
<1>11. CASE GitExits(c)  BY <1>11 DEF GitExits
<1>12. CASE Store(c)
  <2>1. cond = c  BY <1>12 DEF Store, LeaderNamed, Leading
  <2>2. out[c] # Pending  BY <1>12 DEF Store, StoresOutcome
  <2> QED  BY <1>12, <2>1, <2>2 DEF Store
<1> QED
  BY <1>1, <1>2, <1>3, <1>4, <1>5, <1>6, <1>7, <1>8, <1>9, <1>10, <1>11, <1>12
     DEF Step

LEMMA StepLeader ==
    ASSUME IInv, NEW c \in Calls,
           \/ Step(c) \/ Start(c) \/ Cancel(c) \/ GiveUp(c) \/ StartFails(c)
           \/ Terminate(c) \/ GitExits(c)
    PROVE  LeaderNamed' /\ LeadsUncached'
<1> USE CallsAssumption
        DEF IInv, TypeOK, Goto, Answer, shared, LeaderNamed, LeadsUncached, Leading
<1>1. CASE Start(c)      BY <1>1 DEF Start
<1>2. CASE Cancel(c)     BY <1>2 DEF Cancel
<1>3. CASE Wait(c)       BY <1>3 DEF Wait
<1>4. CASE Wake(c)       BY <1>4 DEF Wake
<1>5. CASE GiveUp(c)     BY <1>5 DEF GiveUp
<1>6. CASE ReadCached(c) BY <1>6 DEF ReadCached
<1>7. CASE Lead(c)       BY <1>7 DEF Lead, NoRun
<1>8. CASE StartFails(c) BY <1>8 DEF StartFails
<1>9. CASE StartGit(c)   BY <1>9 DEF StartGit
<1>10. CASE Terminate(c) BY <1>10 DEF Terminate
<1>11. CASE GitExits(c)  BY <1>11 DEF GitExits
<1>12. CASE Store(c)     BY <1>12 DEF Store
<1> QED
  BY <1>1, <1>2, <1>3, <1>4, <1>5, <1>6, <1>7, <1>8, <1>9, <1>10, <1>11, <1>12
     DEF Step

LEMMA StepPhases ==
    ASSUME IInv, NEW c \in Calls,
           \/ Step(c) \/ Start(c) \/ Cancel(c) \/ GiveUp(c) \/ StartFails(c)
           \/ Terminate(c) \/ GitExits(c)
    PROVE  ProcHeld' /\ StoresOutcome' /\ AnswersOnce' /\ FailsAlone'
<1> USE CallsAssumption
        DEF IInv, TypeOK, Goto, Answer, shared, ProcHeld, StoresOutcome,
            AnswersOnce, FailsAlone
<1>1. CASE Start(c)      BY <1>1 DEF Start
<1>2. CASE Cancel(c)     BY <1>2 DEF Cancel
<1>3. CASE Wait(c)       BY <1>3 DEF Wait
<1>4. CASE Wake(c)       BY <1>4 DEF Wake
<1>5. CASE GiveUp(c)     BY <1>5 DEF GiveUp
<1>6. CASE ReadCached(c) BY <1>6 DEF ReadCached
<1>7. CASE Lead(c)       BY <1>7 DEF Lead
<1>8. CASE StartFails(c) BY <1>8 DEF StartFails
<1>9. CASE StartGit(c)   BY <1>9 DEF StartGit
<1>10. CASE Terminate(c) BY <1>10 DEF Terminate
<1>11. CASE GitExits(c)  BY <1>11 DEF GitExits
<1>12. CASE Store(c)     BY <1>12 DEF Store
<1> QED
  BY <1>1, <1>2, <1>3, <1>4, <1>5, <1>6, <1>7, <1>8, <1>9, <1>10, <1>11, <1>12
     DEF Step

LEMMA NextIInv == IInv /\ [Next]_vars => IInv'
<1> SUFFICES ASSUME IInv, [Next]_vars PROVE IInv'
  OBVIOUS
<1>1. CASE Next
  <2>1. PICK c \in Calls : \/ Step(c) \/ Start(c) \/ Cancel(c) \/ GiveUp(c)
                           \/ StartFails(c) \/ Terminate(c) \/ GitExits(c)
    BY <1>1 DEF Next
  <2> QED  BY <2>1, StepTypes, StepLeader, StepPhases DEF IInv
<1>2. CASE UNCHANGED vars
  BY <1>2 DEF vars, shared, IInv, TypeOK, LeaderNamed, LeadsUncached, ProcHeld,
              StoresOutcome, AnswersOnce, FailsAlone, Leading
<1> QED  BY <1>1, <1>2

THEOREM Invariance == Spec => []IInv
BY InitIInv, NextIInv, PTL DEF Spec

(***************************************************************************)
(* At most one `git --version` runs at a time, and none once getVersion    *)
(* has cached a version, for any number of concurrent calls.               *)
(***************************************************************************)
THEOREM OneRun == Spec => []SingleFlight
<1>1. IInv => SingleFlight
  BY CallsAssumption
     DEF IInv, SingleFlight, LeaderNamed, LeadsUncached, ProcHeld, Leading
<1> QED  BY <1>1, Invariance, PTL

(***************************************************************************)
(* An error of getVersion is the call's own: Git failed for it, or its     *)
(* context is done.                                                        *)
(***************************************************************************)
THEOREM ErrorsNotShared == Spec => []FailsAlone
<1>1. IInv => FailsAlone  BY DEF IInv
<1> QED  BY <1>1, Invariance, PTL

(***************************************************************************)
(* The concurrent getVersion implements the memo cell: a step is a stutter *)
(* until the call returns, and then one of the cell's three answers.       *)
(***************************************************************************)
THEOREM MemoRefinement == Spec => ImplementsVersionMemo
<1> USE DEF Memo!Return, Goto, Answer, shared
<1>1. Init => Memo!Init
  BY DEF Init, Memo!Init
<1>2. IInv /\ [Next]_vars => [Memo!Next]_Memo!vars
  <2> SUFFICES ASSUME IInv, [Next]_vars PROVE [Memo!Next]_Memo!vars
    OBVIOUS
  <2> USE DEF Memo!Next, Memo!vars
  <2>1. CASE UNCHANGED vars  BY <2>1 DEF vars
  <2>2. CASE Next
    <3>1. PICK c \in Calls : \/ Step(c) \/ Start(c) \/ Cancel(c) \/ GiveUp(c)
                             \/ StartFails(c) \/ Terminate(c) \/ GitExits(c)
      BY <2>2 DEF Next
    <3>2. pc[c] # "done" => answer[c] = Pending  BY DEF IInv, AnswersOnce
    <3>3. CASE Start(c) \/ Cancel(c) \/ StartFails(c) \/ Terminate(c) \/ GitExits(c)
      BY <3>3 DEF Start, Cancel, StartFails, Terminate, GitExits
    <3>4. CASE Wait(c) \/ Wake(c) \/ Lead(c) \/ StartGit(c)
      BY <3>4 DEF Wait, Wake, Lead, StartGit
    <3>5. CASE GiveUp(c)
      <4>1. Memo!Fail(c)  BY <3>2, <3>5 DEF GiveUp, Memo!Fail
      <4> QED  BY <4>1
    <3>6. CASE ReadCached(c)
      <4>1. Memo!Recall(c)  BY <3>2, <3>6 DEF ReadCached, Memo!Recall
      <4> QED  BY <4>1
    <3>7. CASE Store(c)
      <4>1. cond = c /\ version = Empty
        BY <3>7, CallsAssumption DEF Store, IInv, LeaderNamed, LeadsUncached, Leading
      <4>2. out[c] \in Outputs \cup {Failed}
        BY <3>7 DEF Store, IInv, TypeOK, StoresOutcome
      <4>3. CASE out[c] = Failed
        <5>1. Memo!Fail(c)  BY <3>2, <3>7, <4>3 DEF Store, Memo!Fail
        <5> QED  BY <5>1
      <4>4. CASE out[c] \in Outputs
        <5>1. out[c] # Failed  BY <4>4, CallsAssumption
        <5>2. Memo!Compute(c)
          BY <3>2, <3>7, <4>1, <4>4, <5>1 DEF Store, Memo!Compute
        <5> QED  BY <5>2
      <4> QED  BY <4>2, <4>3, <4>4
    <3> QED  BY <3>1, <3>3, <3>4, <3>5, <3>6, <3>7 DEF Step
  <2> QED  BY <2>1, <2>2
<1> QED  BY <1>1, <1>2, Invariance, PTL DEF Spec, ImplementsVersionMemo, Memo!Spec

-----------------------------------------------------------------------------
(* What is known of a call whose command ran.                              *)
Ran(c) ==
    /\ ranOn[c] \in Releases
    /\ kind[c] \in {"status", "config"} => pc[c] = "done"
    /\ kind[c] \in {"status", "noRenames"} /\ result[c].ok =>
         result[c] = StatusEntries(StatusOutput(ranOn[c], kind[c]), ModeOf(c))
    /\ kind[c] = "config" /\ ~warns /\ result[c].ok =>
         result[c].remote = ListRemotes(config, answer[c])

UsersInv ==
    /\ kind \in [Calls -> Kinds]
    /\ builds \in Seq(Releases) \ {<<>>}
    /\ worktree \in Seq([what : STRING, from : STRING, to : STRING])
    /\ config \in Seq([key : {"url", "pushurl"}, url : STRING])
    /\ DOMAIN ranOn = Calls /\ DOMAIN result = Calls
    /\ \A c \in Calls : result[c] = Pending \/ Ran(c)

LEMMA DoneStays ==
    ASSUME IInv, Next, NEW c \in Calls, pc[c] = "done"
    PROVE  pc'[c] = "done" /\ answer'[c] = answer[c]
<1>1. PICK d \in Calls : \/ Step(d) \/ Start(d) \/ Cancel(d) \/ GiveUp(d)
                         \/ StartFails(d) \/ Terminate(d) \/ GitExits(d)
  BY DEF Next
<1>2. ASSUME NEW from, NEW to, Goto(d, from, to), from # "done"
      PROVE  d # c /\ pc'[c] = "done"
  BY <1>2 DEF Goto, IInv, TypeOK
<1>3. ASSUME NEW a, Answer(d, a), d # c PROVE answer'[c] = answer[c]
  BY <1>3 DEF Answer, IInv, TypeOK
<1>4. CASE Start(d) \/ Wait(d) \/ Wake(d) \/ Lead(d) \/ StartFails(d) \/ StartGit(d) \/ GitExits(d)
  BY <1>2, <1>4 DEF Start, Wait, Wake, Lead, StartFails, StartGit, GitExits
<1>5. CASE Cancel(d) \/ Terminate(d)
  BY <1>5 DEF Cancel, Terminate
<1>6. CASE GiveUp(d) \/ ReadCached(d) \/ Store(d)
  BY <1>2, <1>3, <1>6 DEF GiveUp, ReadCached, Store
<1> QED
  BY <1>1, <1>4, <1>5, <1>6 DEF Step

LEMMA UsersStart == UsersInit => UsersInv
<1> SUFFICES ASSUME UsersInit PROVE UsersInv
  OBVIOUS
<1>1. PICK s \in Scenarios : /\ kind = s.kind /\ builds = s.builds
                             /\ worktree = s.worktree /\ config = s.config
  BY DEF UsersInit
<1>2. /\ kind \in [Calls -> Kinds]
      /\ builds \in Seq(Releases) \ {<<>>}
      /\ worktree \in Seq([what : STRING, from : STRING, to : STRING])
      /\ config \in Seq([key : {"url", "pushurl"}, url : STRING])
  BY <1>1, UsersAssumption
<1>3. ranOn = [c \in Calls |-> Pending] /\ result = [c \in Calls |-> Pending]
  BY DEF UsersInit
<1> QED
  BY <1>2, <1>3 DEF UsersInv

\* A step that leaves a call's result alone leaves what is known of it.
LEMMA RanStays ==
    ASSUME NEW c \in Calls, Ran(c),
           ranOn'[c] = ranOn[c], result'[c] = result[c],
           UNCHANGED <<kind, worktree, config, warns>>,
           kind[c] \in {"status", "config"} => pc'[c] = pc[c] /\ answer'[c] = answer[c]
    PROVE  Ran(c)'
<1>1. kind[c] \in {"status", "noRenames"} => ModeOf(c)' = ModeOf(c)
  BY DEF ModeOf
<1>2. StatusOutput(ranOn[c], kind[c])' = StatusOutput(ranOn[c], kind[c])
  BY DEF StatusOutput
<1>3. kind[c] = "config" => ListRemotes(config, answer[c])' = ListRemotes(config, answer[c])
  OBVIOUS
<1>4. StatusEntries(StatusOutput(ranOn[c], kind[c]), ModeOf(c))' =
      StatusEntries(StatusOutput(ranOn[c], kind[c])', ModeOf(c)')
  OBVIOUS
<1> QED
  BY <1>1, <1>2, <1>3, <1>4 DEF Ran

LEMMA RunKnown ==
    ASSUME UsersInv, NEW c \in Calls, Runs(c), NEW r, result' = [result EXCEPT ![c] = r],
           r = Pending \/ Ran(c)'
    PROVE  UsersInv'
<1>1. /\ ranOn' = [ranOn EXCEPT ![c] = installed]
      /\ UNCHANGED <<vars, kind, builds, worktree, config, warns>>
  BY DEF Runs
<1>2. ASSUME NEW d \in Calls PROVE (result[d] = Pending \/ Ran(d))'
  <2>1. CASE d = c
    BY <2>1 DEF UsersInv
  <2>2. CASE d # c
    <3>1. ranOn'[d] = ranOn[d] /\ result'[d] = result[d] /\ pc'[d] = pc[d] /\ answer'[d] = answer[d]
      BY <1>1, <2>2 DEF vars
    <3> QED
      BY <1>1, <3>1, RanStays DEF UsersInv
  <2> QED
    BY <2>1, <2>2
<1>3. DOMAIN ranOn' = Calls /\ DOMAIN result' = Calls
  BY <1>1 DEF UsersInv
<1> QED
  BY <1>1, <1>2, <1>3 DEF UsersInv

LEMMA InstalledKnown == ASSUME UsersInv PROVE installed \in Releases
BY DEF UsersInv, installed

LEMMA UsersStep ==
    ASSUME IInv, UsersInv, [UsersNext]_allVars
    PROVE  UsersInv'
<1>1. CASE CacheStep
  <2>1. Next /\ UNCHANGED userVars
    BY <1>1 DEF CacheStep
  <2>2. ASSUME NEW c \in Calls PROVE (result[c] = Pending \/ Ran(c))'
    BY <2>1, DoneStays, RanStays DEF UsersInv, userVars, Ran
  <2> QED
    BY <2>1, <2>2 DEF UsersInv, userVars
<1>2. CASE ReplaceGit
  <2>1. /\ builds' = Tail(builds) /\ Len(builds) > 1
        /\ UNCHANGED <<vars, kind, worktree, config, warns, ranOn, result>>
    BY <1>2 DEF ReplaceGit
  <2>2. builds' \in Seq(Releases) \ {<<>>}
    <3>1. builds \in Seq(Releases)
      BY DEF UsersInv
    <3>2. Tail(builds) \in Seq(Releases) /\ Len(Tail(builds)) > 0
      BY <2>1, <3>1
    <3> QED
      BY <2>1, <3>2
  <2>3. ASSUME NEW c \in Calls PROVE (result[c] = Pending \/ Ran(c))'
    BY <2>1, RanStays DEF UsersInv, vars
  <2> QED
    BY <2>1, <2>2, <2>3 DEF UsersInv
<1>3. ASSUME NEW c \in Calls, RunsStatus(c) PROVE UsersInv'
  <2> DEFINE r == StatusEntries(StatusOutput(installed, kind[c]), ModeOf(c))
  <2>1. /\ Runs(c) /\ result' = [result EXCEPT ![c] = r]
        /\ kind[c] = "status" => pc[c] = "done"
        /\ kind[c] \in {"status", "noRenames"}
    BY <1>3 DEF RunsStatus
  <2>2. UNCHANGED <<pc, answer, kind, worktree>> /\ ranOn'[c] = installed /\ result'[c] = r
    BY <2>1 DEF Runs, vars, UsersInv
  <2>3. r = StatusEntries(StatusOutput(ranOn[c], kind[c]), ModeOf(c))'
    <3>1. StatusOutput(ranOn[c], kind[c])' = StatusOutput(installed, kind[c])
      BY <2>2 DEF StatusOutput
    <3>2. ModeOf(c)' = ModeOf(c)
      BY <2>2 DEF ModeOf
    <3> QED
      BY <3>1, <3>2
  <2> HIDE DEF r
  <2>4. Ran(c)'
    BY <2>1, <2>2, <2>3, InstalledKnown DEF Ran
  <2> QED
    BY <2>1, <2>4, RunKnown
<1>4. ASSUME NEW c \in Calls, RunsConfig(c) PROVE UsersInv'
  <2>1. PICK data \in Captured :
          result' = [result EXCEPT ![c] =
            IF data.ok THEN [ok |-> TRUE, remote |-> ListRemotes(data.settings, answer[c])]
            ELSE [ok |-> FALSE]]
    BY <1>4 DEF RunsConfig
  <2> DEFINE r == IF data.ok THEN [ok |-> TRUE, remote |-> ListRemotes(data.settings, answer[c])]
                  ELSE [ok |-> FALSE]
  <2>2. Runs(c) /\ kind[c] = "config" /\ pc[c] = "done"
    BY <1>4 DEF RunsConfig
  <2>3. /\ UNCHANGED <<pc, answer, kind, config, warns>> /\ ranOn'[c] = installed /\ result'[c] = r
    BY <2>1, <2>2 DEF Runs, vars, UsersInv
  <2>4. ~warns /\ r.ok => r.remote = ListRemotes(config, answer[c])
    <3>1. ~warns => data.ok /\ data.settings = config
      BY DEF Captured
    <3> QED
      BY <3>1
  <2> HIDE DEF r
  <2>5. Ran(c)'
    BY <2>2, <2>3, <2>4, InstalledKnown DEF Ran
  <2> QED
    BY <2>1, <2>2, <2>5, RunKnown DEF r
<1>5. ASSUME NEW c \in Calls, CommandFails(c) PROVE UsersInv'
  <2> DEFINE r == [ok |-> FALSE]
  <2>1. /\ Runs(c) /\ result' = [result EXCEPT ![c] = r] /\ ~r.ok
        /\ kind[c] \in {"status", "config"} => pc[c] = "done"
    BY <1>5 DEF CommandFails
  <2> HIDE DEF r
  <2>2. UNCHANGED <<pc, kind>> /\ ranOn'[c] = installed /\ result'[c] = r
    BY <2>1 DEF Runs, vars, UsersInv
  <2>3. Ran(c)'
    BY <2>1, <2>2, InstalledKnown DEF Ran
  <2> QED
    BY <2>1, <2>3, RunKnown
<1>6. CASE UNCHANGED allVars
  <2>1. UNCHANGED <<pc, answer, kind, builds, worktree, config, warns, ranOn, result>>
    BY <1>6 DEF allVars, userVars, vars
  <2>2. ASSUME NEW c \in Calls PROVE (result[c] = Pending \/ Ran(c))'
    BY <2>1, RanStays DEF UsersInv
  <2> QED
    BY <2>1, <2>2 DEF UsersInv
<1> QED
  BY <1>1, <1>2, <1>3, <1>4, <1>5, <1>6 DEF UsersNext

LEMMA UsersInvHolds == UsersSpec => [](IInv /\ UsersInv)
<1>1. UsersInit => IInv /\ UsersInv
  BY InitIInv, UsersStart DEF UsersInit
<1>2. [UsersNext]_allVars => [Next]_vars
  BY DEF UsersNext, CacheStep, ReplaceGit, RunsStatus, RunsConfig, CommandFails, Runs, allVars
<1>3. IInv /\ UsersInv /\ [UsersNext]_allVars => (IInv /\ UsersInv)'
  BY <1>2, NextIInv, UsersStep
<1> QED
  BY <1>1, <1>3, PTL DEF UsersSpec

(* What is known of a version that parseVersion knows.                     *)
LEMMA VersionKnown ==
    ASSUME NEW r \in Releases, NEW major, NEW minor, NEW v, v = r.prints, parses(v)
    PROVE  Before(v, major, minor) <=> Before(r, major, minor)
<1>1. v = [major |-> r.major, minor |-> r.minor]
  BY UsersAssumption DEF parses
<1>2. v.major = r.major /\ v.minor = r.minor
  BY <1>1
<1> QED
  BY <1>2 DEF Before

(***************************************************************************)
(* ListRemotes returns the URLs that the Git that printed them uses.       *)
(***************************************************************************)
THEOREM RemotesAsGit == UsersSpec => []RemotesExact
<1>1. IInv /\ UsersInv => RemotesExact
  <2> SUFFICES ASSUME UsersInv, NEW c \in Calls, kind[c] = "config", ~warns,
                      result[c] # Pending, result[c].ok, answer[c] = ranOn[c].prints,
                      Before(ranOn[c], 2, 46) => parses(answer[c])
               PROVE  LET fetch == UsesUrl(ranOn[c], UrlsOf(config, "url"),
                                           IF Before(ranOn[c], 2, 46) THEN "" ELSE Remote)
                      IN result[c].remote = [listed |-> config # <<>>,
                                             fetch |-> fetch,
                                             push |-> UsesUrl(ranOn[c], UrlsOf(config, "pushurl"), fetch)]
    BY DEF RemotesExact
  <2> DEFINE old == Before(ranOn[c], 2, 46)
             urls(key) == UrlsOf(config, key)
  <2>1. improvedHandling(answer[c]) <=> ~old
    BY VersionKnown DEF improvedHandling, UsersInv, Ran
  <2>2. result[c].remote = ListRemotes(config, answer[c])
    BY DEF UsersInv, Ran
  <2>3. (\E i \in DOMAIN config : config[i] # Damaged) <=> config # <<>>
    <3> DEFINE Settings == [key : {"url", "pushurl"}, url : STRING]
    <3>1. config \in Seq(Settings)
      BY DEF UsersInv
    <3> HIDE DEF Settings
    <3>2. Damaged.key = "unknown"
      BY DEF Damaged
    <3> HIDE DEF Damaged
    <3>3. ASSUME NEW i \in DOMAIN config PROVE config[i] # Damaged
      <4>1. config[i] \in Settings
        BY <3>1, <3>3
      <4>2. config[i].key \in {"url", "pushurl"}
        BY <4>1 DEF Settings
      <4>3. config[i].key # "unknown"
        BY <4>2
      <4> QED
        BY <3>2, <4>3
    <3>4. config # <<>> => 1 \in DOMAIN config
      BY <3>1
    <3> QED
      BY <3>3, <3>4
  <2> DEFINE fetches == urls("url")
             pushes == urls("pushurl")
             listed == \E i \in DOMAIN config : config[i] # Damaged
             last(of) == of[Len(of)]
  <2> HIDE DEF urls
  <2>4. CASE old
    <3> DEFINE fetch == IF fetches = <<>> THEN "" ELSE fetches[1]
    <3>1. ListRemotes(config, answer[c]) =
            [listed |-> listed, fetch |-> fetch,
             push |-> IF pushes = <<>> THEN fetch ELSE IF pushes = <<>> THEN "" ELSE pushes[1]]
      BY <2>1, <2>4 DEF ListRemotes, urls
    <3>2. /\ UsesUrl(ranOn[c], fetches, "") = fetch
          /\ UsesUrl(ranOn[c], pushes, fetch) = IF pushes = <<>> THEN fetch ELSE pushes[1]
      BY <2>4 DEF UsesUrl, old
    <3> QED
      BY <2>2, <2>3, <2>4, <3>1, <3>2 DEF urls
  <2>5. CASE ~old
    <3> DEFINE chosen(of) == IF of = <<>> THEN "" ELSE last(of)
               fetch == IF chosen(fetches) = "" THEN Remote ELSE chosen(fetches)
    <3>1. ListRemotes(config, answer[c]) =
            [listed |-> listed, fetch |-> fetch,
             push |-> IF chosen(pushes) = "" THEN fetch ELSE chosen(pushes)]
      BY <2>1, <2>5 DEF ListRemotes, urls
    <3>2. /\ UsesUrl(ranOn[c], fetches, Remote) = fetch
          /\ UsesUrl(ranOn[c], pushes, fetch) = IF chosen(pushes) = "" THEN fetch ELSE chosen(pushes)
      BY <2>5 DEF UsesUrl, old
    <3> QED
      BY <2>2, <2>3, <2>5, <3>1, <3>2 DEF urls
  <2> QED
    BY <2>4, <2>5
<1> QED
  BY <1>1, UsersInvHolds, PTL

-----------------------------------------------------------------------------
LessPairs == {ss \in Nat \X Nat : ss[1] < ss[2]}

(* Counting from 0 to n: what stands for induction in this module.         *)
LEMMA CountUp ==
    ASSUME NEW n \in Nat, NEW S, 0 \in S, \A m \in 0..n - 1 : m \in S => m + 1 \in S
    PROVE  \A m \in 0..n : m \in S
<1> DEFINE T == {m \in 0..n : m \notin S}
<1>1. IsWellFoundedOn(LessPairs, Nat)
  BY NatLessThanWellFounded DEF OpToRel, LessPairs
<1>2. SUFFICES ASSUME T # {} PROVE FALSE
  OBVIOUS
<1>3. T \subseteq Nat
  OBVIOUS
<1>4. PICK x \in T : \A y \in T : <<y, x>> \notin LessPairs
  BY <1>1, <1>2, <1>3, WFMin
<1>5. x \in 0..n /\ x \notin S /\ x # 0
  OBVIOUS
<1>6. x - 1 \in 0..n - 1 /\ x - 1 \in 0..n /\ x - 1 + 1 = x /\ x - 1 < x
  BY <1>5
<1>7. x - 1 \notin S
  BY <1>5, <1>6
<1>8. x - 1 \in T
  BY <1>6, <1>7
<1>9. <<x - 1, x>> \in LessPairs
  BY <1>5, <1>6 DEF LessPairs
<1> QED
  BY <1>4, <1>8, <1>9

-----------------------------------------------------------------------------
(* A sequence of sequences put together, one after the other.              *)
Joined(f, seqs, n) ==
    f = [i \in 1..n |-> IF i = 1 THEN seqs[i] ELSE f[i - 1] \o seqs[i]]

LEMMA JoinedExists ==
    ASSUME NEW seqs, NEW n \in Nat
    PROVE  \E f : Joined(f, seqs, n)
<1> DEFINE S == {m \in 0..n : \E f : Joined(f, seqs, m)}
<1>1. 0 \in S
  <2>1. Joined([i \in 1..0 |-> <<>>], seqs, 0)
    BY DEF Joined
  <2> QED
    BY <2>1
<1>2. ASSUME NEW m \in 0..n - 1, m \in S PROVE m + 1 \in S
  <2>1. PICK f : Joined(f, seqs, m)
    BY <1>2
  <2> DEFINE last == IF m = 0 THEN seqs[1] ELSE f[m] \o seqs[m + 1]
             g == [i \in 1..m + 1 |-> IF i <= m THEN f[i] ELSE last]
  <2>2. ASSUME NEW i \in 1..m + 1 PROVE g[i] = IF i = 1 THEN seqs[i] ELSE g[i - 1] \o seqs[i]
    <3>1. CASE i <= m
      <4>1. i \in 1..m /\ g[i] = f[i] /\ (i # 1 => i - 1 \in 1..m + 1 /\ i - 1 <= m)
        BY <3>1
      <4>2. i # 1 => g[i - 1] = f[i - 1]
        BY <4>1
      <4>3. f[i] = IF i = 1 THEN seqs[i] ELSE f[i - 1] \o seqs[i]
        BY <2>1, <4>1 DEF Joined
      <4> QED
        BY <4>1, <4>2, <4>3
    <3>2. CASE ~(i <= m)
      <4>1. i = m + 1 /\ (m # 0 => i # 1 /\ i - 1 = m /\ m \in 1..m + 1 /\ m <= m)
        BY <3>2
      <4>2. g[i] = last /\ (m # 0 => g[m] = f[m])
        BY <3>2, <4>1
      <4> QED
        BY <4>1, <4>2
    <3> QED
      BY <3>1, <3>2
  <2>3. g = [i \in 1..m + 1 |-> g[i]]
    OBVIOUS
  <2> HIDE DEF g
  <2>4. Joined(g, seqs, m + 1)
    BY <2>2, <2>3 DEF Joined
  <2> QED
    BY <2>4
<1>3. \A m \in 0..n : m \in S
  <2> HIDE DEF S
  <2> QED
    BY <1>1, <1>2, CountUp
<1> QED
  BY <1>3

Steps(f, seqs, n) ==
    /\ f[0] = <<>> /\ f[n] = FlattenSeq(seqs)
    /\ \A m \in 0..n - 1 : f[m + 1] = f[m] \o seqs[m + 1]

LEMMA FlattenSteps ==
    ASSUME NEW T, NEW n \in Nat, NEW seqs \in [1..n -> Seq(T)]
    PROVE  \E f \in [0..n -> Seq(T)] : Steps(f, seqs, n)
<1>1. seqs \in Seq(Seq(T)) /\ Len(seqs) = n
  OBVIOUS
<1> DEFINE g == CHOOSE g : Joined(g, seqs, n)
           f == [i \in 0..n |-> IF i = 0 THEN <<>> ELSE g[i]]
<1>2. Joined(g, seqs, n)
  BY JoinedExists
<1>3. \A i \in 1..n : g[i] = IF i = 1 THEN seqs[i] ELSE g[i - 1] \o seqs[i]
  BY <1>2 DEF Joined
<1>4. n # 0 => FlattenSeq(seqs) = g[n]
  BY <1>1 DEF FlattenSeq, Joined
<1>5. n = 0 => FlattenSeq(seqs) = <<>>
  BY <1>1 DEF FlattenSeq
<1> HIDE DEF g
<1>6. f[0] = <<>> /\ f[n] = FlattenSeq(seqs)
  BY <1>4, <1>5
<1>7. ASSUME NEW m \in 0..n - 1 PROVE f[m + 1] = f[m] \o seqs[m + 1]
  <2>1. /\ m + 1 \in 1..n /\ m + 1 \in 0..n /\ m \in 0..n /\ m + 1 # 0 /\ m + 1 - 1 = m
        /\ seqs[m + 1] \in Seq(T)
    OBVIOUS
  <2>2. g[m + 1] = IF m = 0 THEN seqs[m + 1] ELSE g[m] \o seqs[m + 1]
    <3>1. (m + 1 = 1) <=> (m = 0)
      OBVIOUS
    <3>2. g[m + 1] = IF m + 1 = 1 THEN seqs[m + 1] ELSE g[m + 1 - 1] \o seqs[m + 1]
      BY <1>3, <2>1
    <3> QED
      BY <2>1, <3>1, <3>2
  <2>3. f[m + 1] = g[m + 1] /\ f[m] = IF m = 0 THEN <<>> ELSE g[m]
    BY <2>1
  <2>4. CASE m = 0
    <3>1. <<>> \o seqs[m + 1] = seqs[m + 1]
      BY <2>1
    <3> QED
      BY <2>2, <2>3, <2>4, <3>1
  <2>5. CASE m # 0
    BY <2>1, <2>2, <2>3, <2>5
  <2> QED
    BY <2>4, <2>5
<1> HIDE DEF f
<1>8. \A m \in 0..n : f[m] \in Seq(T)
  <2> DEFINE S == {m \in 0..n : f[m] \in Seq(T)}
  <2>1. 0 \in S
    <3>1. 0 \in 0..n /\ <<>> \in Seq(T)
      OBVIOUS
    <3> QED
      BY <1>6, <3>1
  <2>2. ASSUME NEW m \in 0..n - 1, m \in S PROVE m + 1 \in S
    <3>1. m + 1 \in 1..n /\ m + 1 \in 0..n /\ seqs[m + 1] \in Seq(T) /\ f[m] \in Seq(T)
      BY <2>2
    <3>2. f[m + 1] = f[m] \o seqs[m + 1]
      BY <1>7
    <3>3. f[m] \o seqs[m + 1] \in Seq(T)
      BY <3>1
    <3> QED
      BY <3>1, <3>2, <3>3
  <2>3. \A m \in 0..n : m \in S
    <3> HIDE DEF S
    <3> QED
      BY <2>1, <2>2, CountUp
  <2> QED
    BY <2>3
<1>9. f = [i \in 0..n |-> f[i]]
  BY DEF f
<1> QED
  BY <1>6, <1>7, <1>8, <1>9 DEF Steps

-----------------------------------------------------------------------------
(* The names, the codes and what is put together of them.                  *)
Words == STRING \cup Codes \cup {Blank, Modified, StagedRename, Added, Deleted, LocalRename}
Strings == [code : Words, name : Words]
Entries == [code : Words, name : Strings, from : Strings]
Modes == {"rewriteLocalRenames", "localRenameMissingName", "acceptRenames"}
Changes == [what : STRING, from : STRING, to : STRING]

\* Any name is a string of the output, be it one that looks like an entry.
LEMMA NameTyped ==
    ASSUME NEW x \in Words
    PROVE  Name(x) \in Strings
<1>1. Blank \in Words
  BY DEF Words
<1>2. CASE x \in DOMAIN Looks
  <2>1. /\ Looks[x].code \in Codes /\ Looks[x].name \in STRING
        /\ Looks[x] = [code |-> Looks[x].code, name |-> Looks[x].name]
    BY <1>2, UsersAssumption
  <2>2. Looks[x].code \in Words /\ Looks[x].name \in Words
    BY <2>1 DEF Words
  <2>3. Looks[x] \in Strings
    BY <2>1, <2>2 DEF Strings
  <2> QED
    BY <1>2, <2>3 DEF Name
<1>3. CASE x \notin DOMAIN Looks
  BY <1>1, <1>3 DEF Name, Token, Strings
<1> QED
  BY <1>2, <1>3

\* And then it is where the name of an entry or its old name goes.
LEMMA EntryTyped ==
    ASSUME NEW x \in Words, NEW y \in Strings, NEW z \in Strings
    PROVE  Entry(x, y, z) \in Entries /\ Plain(x, y) \in Entries
<1>1. Name(Blank) \in Strings
  <2>1. Blank \in Words
    BY DEF Words
  <2> QED
    BY <2>1, NameTyped
<1> HIDE DEF Strings
<1> QED
  BY <1>1 DEF Entry, Plain, Entries

(* What readStatusEntry returns.                                           *)
LEMMA EntryRead ==
    ASSUME NEW s \in Seq(Strings), NEW i \in 1..Len(s), NEW mode
    PROVE  LET e == readStatusEntry(s, i, mode)
           IN e.ok \in BOOLEAN /\ (e.ok => e.takes \in 1..2 /\ e.entries \in Seq(Entries))
<1> DEFINE e == readStatusEntry(s, i, mode)
           code == s[i].code
           name == Name(s[i].name)
           gone == Name(Blank)
           read(es, n) == [ok |-> TRUE, entries |-> es, takes |-> n]
<1>1. s[i] \in Strings /\ (i # Len(s) => s[i + 1] \in Strings)
  OBVIOUS
<1>2. code \in Words /\ name \in Strings
  <2>1. code \in Words /\ s[i].name \in Words
    BY <1>1 DEF Strings
  <2> QED
    BY <2>1, NameTyped
<1>3. Blank \in Words /\ Added \in Words /\ Deleted \in Words /\ 1 \in 1..2 /\ 2 \in 1..2
  BY DEF Words
<1>4. gone \in Strings
  BY <1>3, NameTyped
<1> HIDE DEF code, name, gone
<1>5. \/ ~e.ok /\ e.ok \in BOOLEAN
      \/ e = read(<<Entry(code, gone, name)>>, 1)
      \/ e = read(<<Plain(code, name)>>, 1)
      \/ i # Len(s) /\ e = read(<<Plain(Added, name), Plain(Deleted, s[i + 1])>>, 2)
      \/ i # Len(s) /\ e = read(<<Entry(code, name, s[i + 1])>>, 2)
  BY DEF readStatusEntry, code, name, gone
<1> HIDE DEF e
<1>6. ASSUME NEW es \in Seq(Entries), NEW n \in 1..2, e = read(es, n)
      PROVE  e.ok \in BOOLEAN /\ e.takes \in 1..2 /\ e.entries \in Seq(Entries)
  <2>1. e.ok = TRUE /\ e.takes = n /\ e.entries = es
    BY <1>6
  <2> QED
    BY <2>1
<1>7. ASSUME NEW x \in Entries, NEW y \in Entries
      PROVE  <<x>> \in Seq(Entries) /\ <<x, y>> \in Seq(Entries)
  OBVIOUS
<1> HIDE DEF read
<1> QED
  <2>1. CASE ~e.ok /\ e.ok \in BOOLEAN
    BY <2>1 DEF e
  <2>2. CASE e = read(<<Entry(code, gone, name)>>, 1)
    <3>1. <<Entry(code, gone, name)>> \in Seq(Entries)
      BY <1>2, <1>4, <1>7, EntryTyped
    <3> QED
      BY <1>3, <1>6, <2>2, <3>1 DEF e
  <2>3. CASE e = read(<<Plain(code, name)>>, 1)
    <3>1. <<Plain(code, name)>> \in Seq(Entries)
      BY <1>2, <1>7, EntryTyped
    <3> QED
      BY <1>3, <1>6, <2>3, <3>1 DEF e
  <2>4. CASE i # Len(s) /\ e = read(<<Plain(Added, name), Plain(Deleted, s[i + 1])>>, 2)
    <3>1. <<Plain(Added, name), Plain(Deleted, s[i + 1])>> \in Seq(Entries)
      BY <1>1, <1>2, <1>3, <1>7, <2>4, EntryTyped
    <3> QED
      BY <1>3, <1>6, <2>4, <3>1 DEF e
  <2>5. CASE i # Len(s) /\ e = read(<<Entry(code, name, s[i + 1])>>, 2)
    <3>1. <<Entry(code, name, s[i + 1])>> \in Seq(Entries)
      BY <1>1, <1>2, <1>7, <2>5, EntryTyped
    <3> QED
      BY <1>3, <1>6, <2>5, <3>1 DEF e
  <2> QED
    BY <1>5, <2>1, <2>2, <2>3, <2>4, <2>5

(* StatusEntries, one entry after the other, back from the end.            *)
After(f, s, mode, i) ==
    IF i > Len(s) THEN [ok |-> TRUE, entries |-> <<>>]
    ELSE LET e == readStatusEntry(s, i, mode) IN
         IF ~e.ok THEN [ok |-> FALSE, entries |-> <<>>]
         ELSE [ok |-> f[i + e.takes].ok,
               entries |-> e.entries \o f[i + e.takes].entries]

ReadBy(f, s, mode) == f = [i \in 1..Len(s) + 2 |-> After(f, s, mode, i)]

LEMMA ReadExists ==
    ASSUME NEW s \in Seq(Strings), NEW mode
    PROVE  \E f : ReadBy(f, s, mode)
<1> DEFINE n == Len(s)
           All == 1..n + 2
           From(m) == n + 1 - m
           Good(f, m) == /\ DOMAIN f = All /\ f = [i \in All |-> f[i]]
                         /\ \A i \in All : i >= From(m) => f[i] = After(f, s, mode, i)
           S == {m \in 0..n : \E f : Good(f, m)}
<1>1. 0 \in S
  <2> DEFINE f == [i \in All |-> [ok |-> TRUE, entries |-> <<>>]]
  <2>1. ASSUME NEW i \in All, i >= From(0) PROVE f[i] = After(f, s, mode, i)
    <3>1. i > Len(s)
      BY <2>1
    <3> QED
      BY <3>1 DEF After
  <2>2. DOMAIN f = All /\ f = [i \in All |-> f[i]] /\ 0 \in 0..n
    OBVIOUS
  <2> HIDE DEF f
  <2> QED
    BY <2>1, <2>2
<1>2. ASSUME NEW m \in 0..n - 1, m \in S PROVE m + 1 \in S
  <2>1. PICK f : Good(f, m)
    BY <1>2
  <2> DEFINE at == From(m + 1)
             g == [i \in All |-> IF i = at THEN After(f, s, mode, at) ELSE f[i]]
  <2>2. at \in 1..n /\ at \in All /\ From(m) = at + 1 /\ m + 1 \in 0..n
    OBVIOUS
  <2>3. /\ DOMAIN g = All /\ g = [i \in All |-> g[i]]
        /\ \A i \in All : g[i] = IF i = at THEN After(f, s, mode, at) ELSE f[i]
    OBVIOUS
  <2> HIDE DEF at, g
  <2>4. ASSUME NEW i \in All, i >= at PROVE g[i] = After(g, s, mode, i)
    <3>1. After(g, s, mode, i) = After(f, s, mode, i)
      <4>1. CASE i > Len(s)
        BY <4>1 DEF After
      <4>2. CASE i <= Len(s)
        <5> DEFINE e == readStatusEntry(s, i, mode)
        <5>1. i \in 1..Len(s)
          BY <4>2
        <5>2. e.ok => e.takes \in 1..2
          BY <5>1, EntryRead
        <5> HIDE DEF e
        <5>3. e.ok => i + e.takes \in All /\ i + e.takes # at
          BY <2>2, <2>4, <5>1, <5>2
        <5>4. e.ok => g[i + e.takes] = f[i + e.takes]
          BY <2>3, <5>3
        <5> QED
          BY <5>4 DEF After, e
      <4> QED
        BY <4>1, <4>2
    <3>2. g[i] = After(f, s, mode, i)
      <4>1. CASE i = at
        BY <2>3, <4>1
      <4>2. CASE i # at
        <5>1. i >= From(m)
          BY <2>2, <2>4, <4>2
        <5> QED
          BY <2>1, <2>3, <4>2, <5>1
      <4> QED
        BY <4>1, <4>2
    <3> QED
      BY <3>1, <3>2
  <2>5. Good(g, m + 1)
    BY <2>3, <2>4 DEF at
  <2> QED
    BY <2>2, <2>5
<1>3. \A m \in 0..n : m \in S
  <2>1. n \in Nat
    OBVIOUS
  <2> HIDE DEF S, n
  <2> QED
    BY <1>1, <1>2, <2>1, CountUp
<1>4. PICK f : Good(f, n)
  BY <1>3
<1>5. \A i \in All : i >= From(n) /\ f[i] = After(f, s, mode, i)
  BY <1>4
<1>6. f = [i \in 1..Len(s) + 2 |-> After(f, s, mode, i)]
  BY <1>4, <1>5
<1> QED
  BY <1>6 DEF ReadBy

(* What a function that reads the strings satisfies.                       *)
Reads(f, s, mode) ==
    \A i \in 1..Len(s) + 2 :
        f[i] = After(f, s, mode, i) /\ f[i].ok \in BOOLEAN /\ f[i].entries \in Seq(Entries)

(* The entries are those of one function, and are entries.                 *)
LEMMA EntriesSteps ==
    ASSUME NEW s \in Seq(Strings), NEW mode
    PROVE  \E f : StatusEntries(s, mode) = f[1] /\ Reads(f, s, mode)
<1> DEFINE n == Len(s)
           f == CHOOSE f : ReadBy(f, s, mode)
<1>1. ReadBy(f, s, mode)
  BY ReadExists
<1>2. StatusEntries(s, mode) = f[1]
  BY DEF StatusEntries, ReadBy, After
<1> HIDE DEF f
<1>3. \A i \in 1..n + 2 : f[i] = After(f, s, mode, i)
  BY <1>1 DEF ReadBy
<1> DEFINE Typed(i) == f[i].ok \in BOOLEAN /\ f[i].entries \in Seq(Entries)
           S == {m \in 0..n : \A i \in 1..n + 2 : i >= n + 1 - m => Typed(i)}
<1>4. ASSUME NEW i \in 1..n + 2, i > n PROVE Typed(i)
  <2>1. f[i] = [ok |-> TRUE, entries |-> <<>>]
    BY <1>3, <1>4 DEF After
  <2> QED
    BY <2>1
<1>5. 0 \in S
  <2>1. 0 \in 0..n /\ \A i \in 1..n + 2 : i >= n + 1 - 0 => i > n
    OBVIOUS
  <2> QED
    BY <1>4, <2>1
<1>6. ASSUME NEW m \in 0..n - 1, m \in S PROVE m + 1 \in S
  <2>1. m + 1 \in 0..n
    OBVIOUS
  <2>2. SUFFICES ASSUME NEW i \in 1..n + 2, i >= n + 1 - (m + 1) PROVE Typed(i)
    BY <2>1
  <2>3. CASE i > n
    BY <1>4, <2>3
  <2>4. CASE i <= n
    <3> DEFINE e == readStatusEntry(s, i, mode)
    <3>1. i \in 1..Len(s)
      BY <2>4
    <3>2. e.ok \in BOOLEAN /\ (e.ok => e.takes \in 1..2 /\ e.entries \in Seq(Entries))
      BY <3>1, EntryRead
    <3>3. f[i] = IF ~e.ok THEN [ok |-> FALSE, entries |-> <<>>]
                 ELSE [ok |-> f[i + e.takes].ok, entries |-> e.entries \o f[i + e.takes].entries]
      <4>1. f[i] = After(f, s, mode, i) /\ ~(i > Len(s))
        BY <1>3, <2>4
      <4> QED
        BY <4>1 DEF After
    <3> HIDE DEF e
    <3>4. e.ok => i + e.takes \in 1..n + 2 /\ i + e.takes >= n + 1 - m
      BY <2>2, <2>4, <3>2
    <3>5. e.ok => Typed(i + e.takes)
      BY <1>6, <3>4
    <3>6. CASE ~e.ok
      <4>1. f[i].ok = FALSE /\ f[i].entries = <<>>
        BY <3>3, <3>6
      <4>2. <<>> \in Seq(Entries)
        OBVIOUS
      <4> QED
        BY <4>1, <4>2
    <3>7. CASE e.ok
      <4> DEFINE rest == f[i + e.takes]
      <4>1. rest.ok \in BOOLEAN /\ rest.entries \in Seq(Entries)
        BY <3>5, <3>7
      <4> HIDE DEF rest
      <4>2. f[i] = [ok |-> rest.ok, entries |-> e.entries \o rest.entries]
        BY <3>3, <3>7 DEF rest
      <4> DEFINE all == e.entries \o rest.entries
      <4> HIDE DEF all
      <4>3. f[i] = [ok |-> rest.ok, entries |-> all]
        BY <4>2 DEF all
      <4>4. e.entries \o rest.entries \in Seq(Entries)
        BY <3>2, <3>7, <4>1
      <4> QED
        BY <4>1, <4>3, <4>4 DEF all
    <3> QED
      BY <3>2, <3>6, <3>7
  <2> QED
    BY <2>3, <2>4
<1>7. \A m \in 0..n : m \in S
  <2>1. n \in Nat
    OBVIOUS
  <2> HIDE DEF S, n
  <2> QED
    BY <1>5, <1>6, <2>1, CountUp
<1>8. \A i \in 1..n + 2 : Typed(i)
  <2>1. n \in S
    BY <1>7
  <2>2. \A i \in 1..n + 2 : i >= n + 1 - n
    OBVIOUS
  <2> QED
    BY <2>1, <2>2
<1> QED
  BY <1>2, <1>3, <1>8 DEF Reads

-----------------------------------------------------------------------------
(* The mode does not lose an entry of this build.                          *)
Suits(mode, r, k) ==
    \/ k = "noRenames" /\ mode = "rewriteLocalRenames" /\ ~BreaksRenames(r)
    \/ /\ k = "status" /\ mode \in {"localRenameMissingName", "acceptRenames"}
       /\ BreaksRenames(r) => mode = "localRenameMissingName"

(* The mode takes no name of this build for an entry.                      *)
Passes(mode, r, change) ==
    mode = "localRenameMissingName" /\ ~BreaksRenames(r) => ~Loose(change)

LEMMA PrintsTyped ==
    ASSUME NEW r, NEW k, NEW change \in Changes
    PROVE  Prints(r, k, change) \in Seq(Strings) /\ Shown(r, k, change) \in Seq(Entries)
<1> DEFINE from == Name(change.from)
           to == Name(change.to)
           gone == Name(Blank)
<1>1. change.from \in Words /\ change.to \in Words
  BY DEF Changes, Words
<1>2. {Blank, Modified, StagedRename, Added, Deleted, LocalRename} \subseteq Words
  BY DEF Words
<1>3. from \in Strings /\ to \in Strings /\ gone \in Strings
  BY <1>1, <1>2, NameTyped
<1>4. ASSUME NEW x \in Words, NEW y \in Words PROVE Token(x, y) \in Strings
  BY DEF Token, Strings
<1>5. /\ \A x \in Strings : <<x>> \in Seq(Strings)
      /\ \A x, y \in Strings : <<x, y>> \in Seq(Strings)
      /\ \A x \in Entries : <<x>> \in Seq(Entries)
      /\ \A x, y \in Entries : <<x, y>> \in Seq(Entries)
  OBVIOUS
<1> HIDE DEF from, to, gone
<1>6. Prints(r, k, change) \in Seq(Strings)
  BY <1>1, <1>2, <1>3, <1>4, <1>5 DEF Prints, from, to
<1>7. Shown(r, k, change) \in Seq(Entries)
  <2>1. ASSUME NEW x \in Words, NEW y \in Strings, NEW z \in Strings
        PROVE  Entry(x, y, z) \in Entries /\ Plain(x, y) \in Entries
    BY EntryTyped
  <2>2. \/ Shown(r, k, change) = <<Plain(Modified, to)>>
        \/ Shown(r, k, change) = <<Entry(StagedRename, to, from)>>
        \/ Shown(r, k, change) = <<Plain(Added, to), Plain(Deleted, from)>>
        \/ Shown(r, k, change) = <<Entry(LocalRename, gone, from)>>
        \/ Shown(r, k, change) = <<Entry(LocalRename, to, from)>>
    BY DEF Shown, from, to, gone
  <2> HIDE DEF Strings, Entries, Words
  <2> QED
    BY <1>2, <1>3, <1>5, <2>1, <2>2
<1> QED
  BY <1>6, <1>7

LEMMA PlainIsEntry ==
    ASSUME NEW x \in Strings
    PROVE  Plain(Added, x) \in Entries /\ Plain(Deleted, x) \in Entries
<1>1. Added \in Words /\ Deleted \in Words
  BY DEF Words
<1> QED
  BY <1>1, EntryTyped

LEMMA CodesApart ==
    /\ Blank # Modified /\ Blank # StagedRename /\ Blank # LocalRename /\ Blank # Added
    /\ Blank # Deleted
    /\ Modified # StagedRename /\ Modified # LocalRename
    /\ Added # StagedRename /\ Added # LocalRename
    /\ Deleted # StagedRename /\ Deleted # LocalRename
    /\ StagedRename # LocalRename
    /\ StagedRename \in FromCodes /\ LocalRename \in FromCodes
    /\ Modified \notin FromCodes /\ Added \notin FromCodes /\ Deleted \notin FromCodes
<1>1. /\ Blank # Modified /\ Blank # StagedRename /\ Blank # LocalRename /\ Blank # Added
      /\ Blank # Deleted
  BY Zenon DEF Blank, Modified, StagedRename, LocalRename, Added, Deleted
<1>2. Modified # StagedRename /\ Modified # LocalRename
  BY Zenon DEF Modified, StagedRename, LocalRename
<1>3. Added # StagedRename /\ Added # LocalRename
  BY Zenon DEF Added, StagedRename, LocalRename
<1>4. Deleted # StagedRename /\ Deleted # LocalRename
  BY Zenon DEF Deleted, StagedRename, LocalRename
<1>5. StagedRename # LocalRename
  BY Zenon DEF StagedRename, LocalRename
<1>6. StagedRename \in FromCodes /\ LocalRename \in FromCodes
  BY Zenon DEF StagedRename, LocalRename, FromCodes
<1>7. Modified \notin FromCodes /\ Added \notin FromCodes /\ Deleted \notin FromCodes
  BY Zenon DEF Modified, Added, Deleted, FromCodes
<1> QED
  BY <1>1, <1>2, <1>3, <1>4, <1>5, <1>6, <1>7

LEMMA FieldsOf ==
    ASSUME NEW x, NEW y
    PROVE  /\ Token(x, y).code = x /\ Token(x, y).name = y
           /\ y \notin DOMAIN Looks => Name(y).code = Blank
BY DEF Token, Name

(* From the i-th string n are read as these entries; what f has there then. *)
Yields(s, i, mode, es, n) ==
    readStatusEntry(s, i, mode) = [ok |-> TRUE, entries |-> es, takes |-> n]
Follows(f, i, es, n) == f[i].ok = f[i + n].ok /\ f[i].entries = es \o f[i + n].entries

\* One reading, with what comes after it.
LEMMA ReadOnce ==
    ASSUME NEW s \in Seq(Strings), NEW mode, NEW f, NEW i \in 1..Len(s),
           f[i] = After(f, s, mode, i),
           NEW es, NEW n, Yields(s, i, mode, es, n)
    PROVE  Follows(f, i, es, n)
<1> DEFINE e == readStatusEntry(s, i, mode)
           rest == f[i + n]
           all == es \o rest.entries
<1>1. e.ok = TRUE /\ e.entries = es /\ e.takes = n
  BY DEF Yields
<1>2. ~(i > Len(s))
  OBVIOUS
<1>3. f[i] = [ok |-> f[i + e.takes].ok, entries |-> e.entries \o f[i + e.takes].entries]
  BY <1>1, <1>2 DEF After
<1> HIDE DEF e
<1>4. f[i] = [ok |-> rest.ok, entries |-> all]
  BY <1>1, <1>3
<1> HIDE DEF rest, all
<1>5. f[i].ok = rest.ok /\ f[i].entries = all
  BY <1>4
<1> QED
  BY <1>5 DEF rest, all, Follows

LEMMA ReadFails ==
    ASSUME NEW s \in Seq(Strings), NEW mode, NEW f, NEW i \in 1..Len(s),
           f[i] = After(f, s, mode, i),
           s[i].code = Blank
    PROVE  ~f[i].ok
<1>1. readStatusEntry(s, i, mode).ok = FALSE
  BY CodesApart DEF readStatusEntry
<1>2. ~(i > Len(s))
  OBVIOUS
<1>3. f[i] = [ok |-> FALSE, entries |-> <<>>]
  BY <1>1, <1>2 DEF After
<1> QED
  BY <1>3

(* At the i-th string there are one or two.                                *)
OneAt(s, i, x) == i \in 1..Len(s) /\ s[i] = x
TwoAt(s, i, x, y) ==
    i \in 1..Len(s) /\ i + 1 \in 1..Len(s) /\ i # Len(s) /\ s[i] = x /\ s[i + 1] = y

LEMMA ReadNext ==
    ASSUME NEW s \in Seq(Strings), NEW mode, NEW f, Reads(f, s, mode), NEW i \in 1..Len(s),
           NEW es, NEW n, Yields(s, i, mode, es, n)
    PROVE  Follows(f, i, es, n)
<1>1. i \in 1..Len(s) + 2
  OBVIOUS
<1>2. f[i] = After(f, s, mode, i)
  BY <1>1 DEF Reads
<1> QED
  BY <1>2, ReadOnce

LEMMA CodeAt ==
    ASSUME NEW s, NEW i, NEW x, NEW y, s[i] = Token(x, y)
    PROVE  s[i].code = x /\ s[i].name = y
BY FieldsOf

(* What is read of the strings of each kind of change.                     *)
LEMMA PlainRead ==
    ASSUME NEW s \in Seq(Strings), NEW mode, NEW f, Reads(f, s, mode), NEW i \in 1..Len(s),
           NEW code \in {Modified, Added, Deleted}, NEW name, s[i] = Token(code, name)
    PROVE  Follows(f, i, <<Plain(code, Name(name))>>, 1)
<1>1. s[i].code = code /\ s[i].name = name
  BY CodeAt
<1>2. Yields(s, i, mode, <<Plain(code, Name(name))>>, 1)
  BY <1>1, CodesApart DEF Yields, readStatusEntry
<1> QED
  BY <1>2, ReadNext

LEMMA FromRead ==
    ASSUME NEW s \in Seq(Strings), NEW mode, NEW f, Reads(f, s, mode), NEW i,
           NEW code \in {StagedRename, LocalRename}, NEW to, NEW from,
           TwoAt(s, i, Token(code, to), Name(from)),
           code = LocalRename => mode = "acceptRenames"
    PROVE  Follows(f, i, <<Entry(code, Name(to), Name(from))>>, 2)
<1>1. i \in 1..Len(s) /\ i # Len(s) /\ s[i] = Token(code, to) /\ s[i + 1] = Name(from)
  BY DEF TwoAt
<1>2. s[i].code = code /\ s[i].name = to
  BY <1>1, CodeAt
<1>3. Yields(s, i, mode, <<Entry(code, Name(to), Name(from))>>, 2)
  BY <1>1, <1>2, CodesApart DEF Yields, readStatusEntry
<1> QED
  BY <1>1, <1>3, ReadNext

LEMMA RewriteRead ==
    ASSUME NEW s \in Seq(Strings), NEW f, Reads(f, s, "rewriteLocalRenames"), NEW i,
           NEW to, NEW from, TwoAt(s, i, Token(LocalRename, to), Name(from))
    PROVE  Follows(f, i, <<Plain(Added, Name(to)), Plain(Deleted, Name(from))>>, 2)
<1>1. i \in 1..Len(s) /\ i # Len(s) /\ s[i] = Token(LocalRename, to) /\ s[i + 1] = Name(from)
  BY DEF TwoAt
<1>2. s[i].code = LocalRename /\ s[i].name = to
  BY <1>1, CodeAt
<1>3. Yields(s, i, "rewriteLocalRenames", <<Plain(Added, Name(to)), Plain(Deleted, Name(from))>>, 2)
  BY <1>1, <1>2, CodesApart DEF Yields, readStatusEntry
<1> QED
  BY <1>1, <1>3, ReadNext

LEMMA MissingRead ==
    ASSUME NEW s \in Seq(Strings), NEW f, Reads(f, s, "localRenameMissingName"), NEW i,
           NEW from, OneAt(s, i, Token(LocalRename, from))
    PROVE  Follows(f, i, <<Entry(LocalRename, Name(Blank), Name(from))>>, 1)
<1>1. i \in 1..Len(s) /\ s[i].code = LocalRename /\ s[i].name = from
  BY CodeAt DEF OneAt
<1>2. Yields(s, i, "localRenameMissingName", <<Entry(LocalRename, Name(Blank), Name(from))>>, 1)
  BY <1>1, CodesApart DEF Yields, readStatusEntry
<1> QED
  BY <1>1, <1>2, ReadNext

\* A new name that is there after all makes the old one an error, unless
\* that looks like an entry.
LEMMA MissingFails ==
    ASSUME NEW s \in Seq(Strings), NEW f, Reads(f, s, "localRenameMissingName"), NEW i,
           NEW from, NEW to, TwoAt(s, i, Token(LocalRename, to), Name(from)),
           from \notin DOMAIN Looks
    PROVE  ~f[i].ok
<1>1. OneAt(s, i, Token(LocalRename, to)) /\ i + 1 \in 1..Len(s) /\ s[i + 1] = Name(from)
  BY DEF OneAt, TwoAt
<1>2. f[i].ok = f[i + 1].ok
  <2>1. Follows(f, i, <<Entry(LocalRename, Name(Blank), Name(to))>>, 1)
    BY <1>1, MissingRead
  <2> QED
    BY <2>1 DEF Follows
<1>3. i + 1 \in 1..Len(s) + 2
  BY <1>1
<1>4. f[i + 1] = After(f, s, "localRenameMissingName", i + 1)
  BY <1>3 DEF Reads
<1>5. s[i + 1].code = Blank
  BY <1>1, FieldsOf
<1>6. ~f[i + 1].ok
  BY <1>1, <1>4, <1>5, ReadFails
<1> QED
  BY <1>2, <1>6

LEMMA PairInFront ==
    ASSUME NEW T, NEW t \in Seq(T), NEW u \in T, NEW v \in T
    PROVE  <<u>> \o (<<v>> \o t) = <<u, v>> \o t
<1>1. <<u>> \in Seq(T) /\ <<v>> \in Seq(T)
  OBVIOUS
<1>2. (<<u>> \o <<v>>) \o t = <<u>> \o (<<v>> \o t)
  BY <1>1
<1> DEFINE w == <<u>> \o <<v>>
           pair == <<u, v>>
<1>3. w \in Seq(T) /\ Len(w) = 2 /\ w[1] = u /\ w[2] = v
  BY <1>1
<1>4. pair \in Seq(T) /\ Len(pair) = 2 /\ pair[1] = u /\ pair[2] = v
  OBVIOUS
<1>5. w = pair
  <2> HIDE DEF w, pair
  <2>1. w = [i \in 1..2 |-> w[i]] /\ pair = [i \in 1..2 |-> pair[i]]
    BY <1>3, <1>4
  <2>2. \A i \in 1..2 : w[i] = pair[i]
    BY <1>3, <1>4
  <2> QED
    BY <2>1, <2>2
<1> QED
  BY <1>2, <1>5

LEMMA TwoPlainRead ==
    ASSUME NEW s \in Seq(Strings), NEW mode, NEW f, Reads(f, s, mode), NEW i,
           NEW to \in Words, NEW from \in Words, TwoAt(s, i, Token(Added, to), Token(Deleted, from))
    PROVE  Follows(f, i, <<Plain(Added, Name(to)), Plain(Deleted, Name(from))>>, 2)
<1> DEFINE x == Plain(Added, Name(to))
           y == Plain(Deleted, Name(from))
           rest == f[i + 2].entries
           next == f[i + 1].entries
<1>1. /\ i \in 1..Len(s) /\ i + 1 \in 1..Len(s)
      /\ s[i] = Token(Added, to) /\ s[i + 1] = Token(Deleted, from)
  BY DEF TwoAt
<1>2. Follows(f, i, <<x>>, 1)
  BY <1>1, PlainRead
<1>3. Follows(f, i + 1, <<y>>, 1)
  BY <1>1, PlainRead
<1>4. i + 1 + 1 = i + 2 /\ i + 2 \in 1..Len(s) + 2
  BY <1>1
<1>5. rest \in Seq(Entries)
  BY <1>4 DEF Reads
<1>6. x \in Entries /\ y \in Entries
  BY NameTyped, PlainIsEntry
<1>7. f[i].ok = f[i + 2].ok /\ f[i].entries = <<x>> \o next /\ next = <<y>> \o rest
  <2> HIDE DEF x, y
  <2>1. f[i].ok = f[i + 1].ok /\ f[i].entries = <<x>> \o f[i + 1].entries
    BY <1>2 DEF Follows
  <2>2. f[i + 1].ok = f[i + 1 + 1].ok /\ f[i + 1].entries = <<y>> \o f[i + 1 + 1].entries
    BY <1>3 DEF Follows
  <2> QED
    BY <1>4, <2>1, <2>2
<1> HIDE DEF x, y, rest, next
<1>8. <<x>> \o (<<y>> \o rest) = <<x, y>> \o rest
  BY <1>5, <1>6, PairInFront
<1>9. f[i].entries = <<x, y>> \o rest
  BY <1>7, <1>8
<1> QED
  BY <1>7, <1>9 DEF Follows, x, y, rest

(* The strings of one change are read as that change.                      *)
Goes(f, i, r, k, change) ==
    LET next == i + Len(Prints(r, k, change))
    IN f[next].ok /\ f[i].entries = Shown(r, k, change) \o f[next].entries

LEMMA ChangeRead ==
    ASSUME NEW s \in Seq(Strings), NEW r \in Releases, NEW k, NEW mode, Suits(mode, r, k),
           NEW change \in Changes, Passes(mode, r, change), NEW i, NEW f, Reads(f, s, mode),
           \A x : Prints(r, k, change) = <<x>> => OneAt(s, i, x),
           \A x, y : Prints(r, k, change) = <<x, y>> => TwoAt(s, i, x, y),
           f[i].ok
    PROVE  Goes(f, i, r, k, change)
<1> DEFINE tokens == Prints(r, k, change)
           shown == Shown(r, k, change)
           from == change.from
           to == change.to
<1>1. from \in Words /\ to \in Words
  BY DEF Changes, Words
<1> HIDE DEF from, to
<1>2. SUFFICES \E n : Len(tokens) = n /\ Follows(f, i, shown, n)
  BY DEF Follows, Goes
<1>3. CASE change.what = "modified"
  <2>1. tokens = <<Token(Modified, to)>> /\ shown = <<Plain(Modified, Name(to))>>
    BY <1>3 DEF Prints, Shown, to
  <2>2. OneAt(s, i, Token(Modified, to)) /\ Len(tokens) = 1
    BY <2>1
  <2> HIDE DEF tokens, shown
  <2> QED
    <3>1. i \in 1..Len(s) /\ s[i] = Token(Modified, to)
      BY <2>2 DEF OneAt
    <3> QED
      BY <2>1, <2>2, <3>1, PlainRead
<1>4. CASE change.what = "stagedRename"
  <2>1. /\ tokens = <<Token(StagedRename, to), Name(from)>>
        /\ shown = <<Entry(StagedRename, Name(to), Name(from))>>
    BY <1>4 DEF Prints, Shown, to, from
  <2>2. TwoAt(s, i, Token(StagedRename, to), Name(from)) /\ Len(tokens) = 2
    BY <2>1
  <2> HIDE DEF tokens, shown
  <2> QED
    BY <2>1, <2>2, FromRead, CodesApart
<1>5. CASE /\ change.what \notin {"modified", "stagedRename"}
           /\ Before(r, 2, 11) \/ (k = "noRenames" /\ ~Before(r, 2, 18))
  <2>1. /\ tokens = <<Token(Added, to), Token(Deleted, from)>>
        /\ shown = <<Plain(Added, Name(to)), Plain(Deleted, Name(from))>>
    BY <1>5 DEF Prints, Shown, to, from
  <2>2. TwoAt(s, i, Token(Added, to), Token(Deleted, from)) /\ Len(tokens) = 2
    BY <2>1
  <2> HIDE DEF tokens, shown
  <2> QED
    BY <1>1, <2>1, <2>2, TwoPlainRead
<1>6. CASE /\ change.what \notin {"modified", "stagedRename"}
           /\ ~(Before(r, 2, 11) \/ (k = "noRenames" /\ ~Before(r, 2, 18)))
           /\ BreaksRenames(r)
  <2>1. k = "status" /\ mode = "localRenameMissingName"
    BY <1>6 DEF Suits
  <2>2. tokens = <<Token(LocalRename, from)>> /\ shown = <<Entry(LocalRename, Name(Blank), Name(from))>>
    BY <1>6, <2>1 DEF Prints, Shown, to, from
  <2>3. OneAt(s, i, Token(LocalRename, from)) /\ Len(tokens) = 1
    BY <2>2
  <2> HIDE DEF tokens, shown
  <2> QED
    BY <2>1, <2>2, <2>3, MissingRead
<1>7. CASE /\ change.what \notin {"modified", "stagedRename"}
           /\ ~(Before(r, 2, 11) \/ (k = "noRenames" /\ ~Before(r, 2, 18)))
           /\ ~BreaksRenames(r)
  <2>1. tokens = <<Token(LocalRename, to), Name(from)>>
    BY <1>7 DEF Prints, to, from
  <2>2. TwoAt(s, i, Token(LocalRename, to), Name(from)) /\ Len(tokens) = 2
    BY <2>1
  <2>3. k = "noRenames" => shown = <<Plain(Added, Name(to)), Plain(Deleted, Name(from))>>
    BY <1>7 DEF Shown, to, from
  <2>4. k = "status" => shown = <<Entry(LocalRename, Name(to), Name(from))>>
    BY <1>7 DEF Shown, to, from
  <2> HIDE DEF tokens, shown
  <2>5. CASE k = "noRenames" /\ mode = "rewriteLocalRenames"
    BY <2>2, <2>3, <2>5, RewriteRead
  <2>6. CASE k = "status" /\ mode = "acceptRenames"
    BY <2>2, <2>4, <2>6, FromRead
  <2>7. CASE mode = "localRenameMissingName"
    <3>1. from \notin DOMAIN Looks
      BY <1>7, <2>7 DEF Passes, Loose, from
    <3> QED
      BY <2>2, <2>7, <3>1, MissingFails
  <2> QED
    BY <2>5, <2>6, <2>7 DEF Suits
<1> QED
  BY <1>3, <1>4, <1>5, <1>6, <1>7

-----------------------------------------------------------------------------
Begins(p, q) == Len(p) <= Len(q) /\ \A i \in 1..Len(p) : q[i] = p[i]

LEMMA ConcatFacts ==
    ASSUME NEW T, NEW p \in Seq(T), NEW q \in Seq(T)
    PROVE  /\ p \o q \in Seq(T) /\ Len(p \o q) = Len(p) + Len(q)
           /\ \A i \in 1..Len(p) : (p \o q)[i] = p[i]
           /\ \A i \in 1..Len(q) : (p \o q)[Len(p) + i] = q[i]
OBVIOUS

LEMMA ConcatInThree ==
    ASSUME NEW p \in Seq(Entries), NEW q \in Seq(Entries), NEW t \in Seq(Entries)
    PROVE  (p \o q) \o t = p \o (q \o t)
<1> DEFINE T == Entries
<1>1. p \in Seq(T) /\ q \in Seq(T) /\ t \in Seq(T)
  OBVIOUS
<1> HIDE DEF T
<1> QED
  BY <1>1

LEMMA ConcatNothing ==
    ASSUME NEW T, NEW p \in Seq(T)
    PROVE  p \o <<>> = p /\ <<>> \o p = p
OBVIOUS

(* What is put in front is a beginning of what a longer one begins.        *)
LEMMA BeginsFirst ==
    ASSUME NEW T, NEW p \in Seq(T), NEW q \in Seq(T), NEW s \in Seq(T), Begins(p \o q, s)
    PROVE  Begins(p, s)
<1>1. Len(p \o q) = Len(p) + Len(q) /\ \A i \in 1..Len(p) : (p \o q)[i] = p[i]
  BY ConcatFacts
<1>2. Len(p) \in Nat /\ Len(q) \in Nat /\ Len(s) \in Nat
  OBVIOUS
<1> DEFINE w == p \o q
<1> HIDE DEF w
<1>3. Len(w) = Len(p) + Len(q) /\ (\A i \in 1..Len(p) : w[i] = p[i]) /\ Begins(w, s)
  BY <1>1 DEF w
<1> QED
  BY <1>2, <1>3 DEF Begins

(* The strings of a change are where those of the earlier ones end.        *)
LEMMA StringsAt ==
    ASSUME NEW T, NEW p \in Seq(T), NEW q \in Seq(T), NEW s \in Seq(T), Begins(p \o q, s)
    PROVE  /\ \A x : q = <<x>> => OneAt(s, Len(p) + 1, x)
           /\ \A x, y : q = <<x, y>> => TwoAt(s, Len(p) + 1, x, y)
<1> DEFINE w == p \o q
           n == Len(p)
           k == Len(q)
           l == Len(s)
<1>1. Len(w) = n + k /\ \A i \in 1..k : w[n + i] = q[i]
  BY ConcatFacts
<1>2. n \in Nat /\ k \in Nat /\ l \in Nat
  OBVIOUS
<1> HIDE DEF w, n, k, l
<1>3. n + k <= l /\ \A i \in 1..n + k : s[i] = w[i]
  BY <1>1 DEF Begins, w, l
<1>4. ASSUME NEW i \in 1..k PROVE n + i \in 1..l /\ s[n + i] = q[i]
  <2>1. n + i \in 1..n + k /\ n + i \in 1..l
    BY <1>2, <1>3
  <2>2. s[n + i] = w[n + i]
    BY <1>3, <2>1
  <2> QED
    BY <1>1, <2>1, <2>2
<1>5. ASSUME NEW x, q = <<x>> PROVE n + 1 \in 1..l /\ s[n + 1] = x
  <2>1. 1 \in 1..k /\ q[1] = x
    BY <1>5 DEF k
  <2> QED
    BY <1>4, <2>1
<1>6. ASSUME NEW x, NEW y, q = <<x, y>>
      PROVE  n + 1 \in 1..l /\ n + 1 + 1 \in 1..l /\ n + 1 # l /\ s[n + 1] = x /\ s[n + 1 + 1] = y
  <2>1. 1 \in 1..k /\ 2 \in 1..k /\ q[1] = x /\ q[2] = y
    BY <1>6 DEF k
  <2>2. n + 1 \in 1..l /\ s[n + 1] = x /\ n + 2 \in 1..l /\ s[n + 2] = y
    BY <1>4, <2>1
  <2>3. n + 1 + 1 = n + 2 /\ n + 1 # l
    BY <1>2, <2>2
  <2> QED
    BY <2>2, <2>3
<1> QED
  BY <1>5, <1>6 DEF OneAt, TwoAt, n, l

(***************************************************************************)
(* Status reads the strings of all the changes as those changes: up to     *)
(* each of them the entries are those of the changes before it.            *)
(***************************************************************************)
LEMMA AllRead ==
    ASSUME NEW r \in Releases, NEW k, NEW mode, Suits(mode, r, k), NEW changes \in Seq(Changes),
           \A i \in DOMAIN changes : Passes(mode, r, changes[i]),
           NEW s, s = FlattenSeq([i \in DOMAIN changes |-> Prints(r, k, changes[i])]),
           StatusEntries(s, mode).ok
    PROVE  StatusEntries(s, mode).entries =
             FlattenSeq([i \in DOMAIN changes |-> Shown(r, k, changes[i])])
<1> DEFINE n == Len(changes)
           tokens == [i \in DOMAIN changes |-> Prints(r, k, changes[i])]
           shown == [i \in DOMAIN changes |-> Shown(r, k, changes[i])]
<1>1. n \in Nat /\ tokens \in [1..n -> Seq(Strings)] /\ shown \in [1..n -> Seq(Entries)]
  <2>1. \A i \in DOMAIN changes : changes[i] \in Changes
    OBVIOUS
  <2>2. \A i \in DOMAIN changes : /\ Prints(r, k, changes[i]) \in Seq(Strings)
                                  /\ Shown(r, k, changes[i]) \in Seq(Entries)
    BY <2>1, PrintsTyped
  <2>3. n \in Nat /\ DOMAIN changes = 1..n
    OBVIOUS
  <2> HIDE DEF n
  <2> QED
    BY <2>2, <2>3
<1>2. \A i \in 1..n : /\ changes[i] \in Changes /\ Passes(mode, r, changes[i])
                      /\ tokens[i] = Prints(r, k, changes[i])
                      /\ shown[i] = Shown(r, k, changes[i])
  OBVIOUS
<1>3. s = FlattenSeq(tokens)
  OBVIOUS
<1>4. SUFFICES StatusEntries(s, mode).entries = FlattenSeq(shown)
  OBVIOUS
<1> HIDE DEF n, tokens, shown
<1>5. PICK cat \in [0..n -> Seq(Strings)] : Steps(cat, tokens, n) /\ cat[n] = s
  <2>1. \E cat \in [0..n -> Seq(Strings)] : Steps(cat, tokens, n)
    BY <1>1, FlattenSteps
  <2> QED
    BY <1>3, <2>1 DEF Steps
<1>6. PICK ecat \in [0..n -> Seq(Entries)] : Steps(ecat, shown, n)
  BY <1>1, FlattenSteps
<1>7. s \in Seq(Strings)
  BY <1>1, <1>5
<1>8. PICK f : StatusEntries(s, mode) = f[1] /\ Reads(f, s, mode)
  BY <1>7, EntriesSteps
<1>9. ASSUME NEW m \in 0..n - 1
      PROVE  /\ m + 1 \in 1..n /\ m \in 0..n /\ m + 1 \in 0..n
             /\ cat[m] \in Seq(Strings) /\ tokens[m + 1] \in Seq(Strings)
             /\ ecat[m] \in Seq(Entries) /\ shown[m + 1] \in Seq(Entries)
  <2>1. m + 1 \in 1..n /\ m \in 0..n /\ m + 1 \in 0..n
    BY <1>1
  <2> QED
    BY <1>1, <1>5, <1>6, <2>1
<1>10. \A m \in 0..n : Begins(cat[m], s)
  <2> DEFINE S == {m \in 0..n : Begins(cat[n - m], s)}
  <2>1. 0 \in S
    <3>1. n - 0 = n /\ 0 \in 0..n
      BY <1>1
    <3>2. Begins(s, s)
      BY <1>7 DEF Begins
    <3> QED
      BY <1>5, <3>1, <3>2
  <2>2. ASSUME NEW m \in 0..n - 1, m \in S PROVE m + 1 \in S
    <3> DEFINE j == n - (m + 1)
    <3>1. j \in 0..n - 1 /\ j + 1 = n - m /\ m + 1 \in 0..n
      BY <1>1
    <3>2. Begins(cat[j + 1], s)
      BY <2>2, <3>1
    <3> HIDE DEF j
    <3>3. Begins(cat[j], s)
      <4>1. Begins(cat[j] \o tokens[j + 1], s)
        BY <1>5, <3>1, <3>2 DEF Steps
      <4>2. cat[j] \in Seq(Strings) /\ tokens[j + 1] \in Seq(Strings)
        BY <1>9, <3>1
      <4> QED
        BY <1>7, <4>1, <4>2, BeginsFirst
    <3> QED
      BY <3>1, <3>3 DEF j
  <2>3. \A m \in 0..n : m \in S
    <3> HIDE DEF S
    <3> QED
      BY <1>1, <2>1, <2>2, CountUp
  <2>4. ASSUME NEW m \in 0..n PROVE Begins(cat[m], s)
    <3>1. n - m \in 0..n /\ n - (n - m) = m
      BY <1>1
    <3>2. n - m \in S
      BY <2>3, <3>1
    <3> QED
      BY <3>1, <3>2
  <2> QED
    BY <2>4
<1> DEFINE At(m) == Len(cat[m]) + 1
           S == {m \in 0..n : f[At(m)].ok /\ f[1].entries = ecat[m] \o f[At(m)].entries}
<1>11. 0 \in S
  <2>1. At(0) = 1 /\ 0 \in 0..n
    BY <1>1, <1>5 DEF Steps
  <2>2. 1 \in 1..Len(s) + 2
    BY <1>7
  <2>3. f[1].entries \in Seq(Entries)
    BY <1>8, <2>2 DEF Reads
  <2>4. <<>> \o f[1].entries = f[1].entries
    BY <2>3, ConcatNothing
  <2> QED
    BY <1>6, <1>8, <2>1, <2>4 DEF Steps
<1>12. ASSUME NEW m \in 0..n - 1, m \in S PROVE m + 1 \in S
  <2> DEFINE i == At(m)
             q == i + Len(tokens[m + 1])
             change == changes[m + 1]
  <2>1. f[i].ok /\ f[1].entries = ecat[m] \o f[i].entries
    BY <1>12
  <2>2. Begins(cat[m] \o tokens[m + 1], s)
    BY <1>5, <1>9, <1>10 DEF Steps
  <2>3. /\ \A x : tokens[m + 1] = <<x>> => OneAt(s, i, x)
        /\ \A x, y : tokens[m + 1] = <<x, y>> => TwoAt(s, i, x, y)
    BY <1>7, <1>9, <2>2, StringsAt
  <2>4. /\ change \in Changes /\ Passes(mode, r, change)
        /\ tokens[m + 1] = Prints(r, k, change) /\ shown[m + 1] = Shown(r, k, change)
    BY <1>2, <1>9
  <2>5. q = At(m + 1) /\ q \in 1..Len(s) + 2
    <3>1. cat[m + 1] = cat[m] \o tokens[m + 1] /\ cat[m + 1] \in Seq(Strings)
      BY <1>5, <1>9 DEF Steps
    <3>2. Len(cat[m + 1]) = Len(cat[m]) + Len(tokens[m + 1])
      BY <1>9, <3>1, ConcatFacts
    <3>3. Len(cat[m]) \in Nat /\ Len(tokens[m + 1]) \in Nat /\ Len(s) \in Nat
      BY <1>7, <1>9
    <3>4. Len(cat[m + 1]) <= Len(s)
      BY <1>9, <1>10 DEF Begins
    <3> DEFINE here == Len(cat[m])
               more == Len(tokens[m + 1])
               next == Len(cat[m + 1])
               all == Len(s)
    <3> HIDE DEF here, more, next, all
    <3>5. next = here + more /\ here \in Nat /\ more \in Nat /\ all \in Nat /\ next <= all
      BY <3>2, <3>3, <3>4 DEF here, more, next, all
    <3>6. here + 1 + more = next + 1 /\ next + 1 \in 1..all + 2
      BY <3>5
    <3> QED
      BY <3>6 DEF here, more, next, all
  <2> HIDE DEF i, change, At
  <2>6. f[q].ok /\ f[i].entries = shown[m + 1] \o f[q].entries
    <3>1. /\ \A x : Prints(r, k, change) = <<x>> => OneAt(s, i, x)
          /\ \A x, y : Prints(r, k, change) = <<x, y>> => TwoAt(s, i, x, y)
      BY <2>3, <2>4
    <3>2. Goes(f, i, r, k, change)
      BY <1>7, <1>8, <2>1, <2>4, <3>1, ChangeRead
    <3> QED
      BY <2>4, <3>2 DEF Goes
  <2> HIDE DEF q
  <2>7. f[q].entries \in Seq(Entries)
    BY <1>8, <2>5 DEF Reads
  <2>8. f[1].entries = ecat[m + 1] \o f[q].entries
    <3> DEFINE a == ecat[m]
               b == shown[m + 1]
               t == f[q].entries
    <3>1. a \in Seq(Entries) /\ b \in Seq(Entries) /\ t \in Seq(Entries)
      BY <1>9, <2>7
    <3>2. ecat[m + 1] = a \o b
      BY <1>6 DEF Steps
    <3>3. f[1].entries = a \o (b \o t)
      BY <2>1, <2>6
    <3> HIDE DEF a, b, t
    <3>4. (a \o b) \o t = a \o (b \o t)
      BY <3>1, ConcatInThree
    <3> QED
      BY <3>2, <3>3, <3>4 DEF t
  <2> QED
    BY <1>9, <2>5, <2>6, <2>8
<1>13. n \in S
  <2>1. \A m \in 0..n : m \in S
    <3> HIDE DEF S
    <3> QED
      BY <1>1, <1>11, <1>12, CountUp
  <2> QED
    BY <1>1, <2>1
<1>14. f[At(n)] = [ok |-> TRUE, entries |-> <<>>]
  <2>1. At(n) = Len(s) + 1 /\ At(n) \in 1..Len(s) + 2 /\ At(n) > Len(s)
    BY <1>5, <1>7
  <2>2. f[At(n)] = After(f, s, mode, At(n))
    BY <1>8, <2>1 DEF Reads
  <2> QED
    BY <2>1, <2>2 DEF After
<1>15. ecat[n] \in Seq(Entries) /\ n \in 0..n
  BY <1>1, <1>6
<1>16. f[1].entries = ecat[n] \o f[At(n)].entries
  BY <1>13
<1> HIDE DEF At, S
<1>17. f[At(n)].entries = <<>>
  BY <1>14
<1>18. ecat[n] \o <<>> = ecat[n]
  BY <1>15, ConcatNothing
<1> QED
  BY <1>6, <1>8, <1>16, <1>17, <1>18 DEF Steps

-----------------------------------------------------------------------------
(* The mode of a call suits the Git that ran its command, unless that Git  *)
(* is one that breaks renames and the call does not know it.               *)
LEMMA ModeSuits ==
    ASSUME NEW c \in Calls, kind[c] \in {"status", "noRenames"}, ranOn[c] \in Releases,
           BreaksRenames(ranOn[c]) =>
             kind[c] = "status" /\ parses(answer[c]) /\ answer[c] = ranOn[c].prints
    PROVE  Suits(ModeOf(c), ranOn[c], kind[c])
<1>1. CASE kind[c] = "noRenames"
  BY <1>1 DEF ModeOf, Suits
<1>2. CASE kind[c] = "status"
  <2>1. ModeOf(c) = IF affectedByStatusRenameBug(answer[c]) THEN "localRenameMissingName"
                    ELSE "acceptRenames"
    BY <1>2 DEF ModeOf
  <2>2. BreaksRenames(ranOn[c]) => affectedByStatusRenameBug(answer[c])
    <3>1. SUFFICES ASSUME BreaksRenames(ranOn[c]) PROVE affectedByStatusRenameBug(answer[c])
      OBVIOUS
    <3>2. parses(answer[c]) /\ answer[c] = ranOn[c].prints
      BY <3>1
    <3>3. ~Before(ranOn[c], 2, 11) /\ Before(ranOn[c], 2, 16)
      BY <3>1 DEF BreaksRenames, Before
    <3>4. ~Before(answer[c], 2, 11) /\ Before(answer[c], 2, 16)
      BY <3>2, <3>3, VersionKnown
    <3> QED
      BY <3>2, <3>4 DEF affectedByStatusRenameBug
  <2> QED
    BY <1>2, <2>1, <2>2 DEF Suits
<1> QED
  BY <1>1, <1>2

(***************************************************************************)
(* Status lists every change, one by one and in order, or returns an       *)
(* error, where StatusExact says so: not from an unaffected Git that names *)
(* a file that looks like an entry when an affected version was cached.    *)
(***************************************************************************)
THEOREM StatusAsFound == UsersSpec => []StatusExact
<1>1. IInv /\ UsersInv => StatusExact
  <2> SUFFICES ASSUME UsersInv, NEW c \in Calls, kind[c] \in {"status", "noRenames"},
                      result[c] # Pending, result[c].ok,
                      BreaksRenames(ranOn[c]) =>
                        kind[c] = "status" /\ parses(answer[c]) /\ answer[c] = ranOn[c].prints,
                      \A i \in DOMAIN worktree : Passes(ModeOf(c), ranOn[c], worktree[i])
               PROVE  result[c].entries = StatusOf(ranOn[c], kind[c])
    BY DEF StatusExact, Passes
  <2> DEFINE r == ranOn[c]
             k == kind[c]
             mode == ModeOf(c)
             s == StatusOutput(r, k)
  <2>1. r \in Releases /\ result[c] = StatusEntries(s, mode)
    BY DEF UsersInv, Ran
  <2>2. Suits(mode, r, k)
    BY <2>1, ModeSuits
  <2>3. worktree \in Seq(Changes)
    BY DEF UsersInv, Changes
  <2>4. s = FlattenSeq([i \in DOMAIN worktree |-> Prints(r, k, worktree[i])])
    BY DEF StatusOutput
  <2>5. StatusEntries(s, mode).ok
    BY <2>1
  <2>6. StatusOf(r, k) = FlattenSeq([i \in DOMAIN worktree |-> Shown(r, k, worktree[i])])
    BY DEF StatusOf
  <2> HIDE DEF r, k, mode, s
  <2>7. StatusEntries(s, mode).entries =
          FlattenSeq([i \in DOMAIN worktree |-> Shown(r, k, worktree[i])])
    <3>1. \A i \in DOMAIN worktree : Passes(mode, r, worktree[i])
      BY DEF r, mode
    <3> QED
      BY <2>1, <2>2, <2>3, <2>4, <2>5, <3>1, AllRead
  <2> QED
    BY <2>1, <2>6, <2>7 DEF r, k
<1> QED
  BY <1>1, UsersInvHolds, PTL
=============================================================================
