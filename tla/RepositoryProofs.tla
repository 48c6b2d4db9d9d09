--------------------------- MODULE RepositoryProofs ---------------------------
(***************************************************************************)
(* Proofs, for any number of clients, directories, pathspecs and commits:  *)
(* Init moves no HEAD of a repository it found, CheckoutBranch makes no    *)
(* branch, CommitFiles and AmendFiles commit the files their pathspecs     *)
(* name in the caller's directory, and an amended commit keeps its parents *)
(* and its message.                                                        *)
(***************************************************************************)
EXTENDS Repository, WellFoundedInduction, TLAPS

(* Of what a call remembers, what the argument is about.                   *)
CallShape(r) == {"op", "branch", "existed", "gone"} \subseteq DOMAIN r

(* A branch that was there is there, or was seen to go.                    *)
BranchSeen(r, b) == r.op = "CheckoutBranch" => r.branch \in b \/ r.gone

CallInv ==
    /\ DOMAIN call = Clients
    /\ \A c \in Clients :
         /\ call[c] = [f \in DOMAIN call[c] |-> call[c][f]]
         /\ CallShape(call[c])
         /\ BranchSeen(call[c], DOMAIN branches)
         /\ call[c].op = "linkToMain" => ~call[c].existed
         /\ call[c].existed => exists

LEMMA NoticeKeeps ==
    ASSUME CallInv, NEW c \in Clients, NEW update, Notice(c, update),
           update = [f \in DOMAIN update |-> update[f]],
           CallShape(update), BranchSeen(update, DOMAIN branches'),
           update.op = "linkToMain" => ~update.existed,
           update.existed => exists', exists => exists'
    PROVE  CallInv'
<1> DEFINE seen(x) == [call[x] EXCEPT !.gone = @ \/ call[x].branch \in DOMAIN branches \ DOMAIN branches']
<1>1. call' = [x \in Clients |-> IF x = c THEN update ELSE seen(x)]
  BY DEF Notice
<1>2. ASSUME NEW x \in Clients, x # c
      PROVE  /\ call'[x] = [f \in DOMAIN call'[x] |-> call'[x][f]]
             /\ CallShape(call'[x])
             /\ BranchSeen(call'[x], DOMAIN branches')
             /\ call'[x].op = "linkToMain" => ~call'[x].existed
             /\ call'[x].existed => exists'
  <2>1. call'[x] = seen(x)
    BY <1>1, <1>2
  <2>2. /\ DOMAIN seen(x) = DOMAIN call[x]
        /\ seen(x).op = call[x].op /\ seen(x).branch = call[x].branch /\ seen(x).existed = call[x].existed
        /\ seen(x).gone = (call[x].gone \/ call[x].branch \in DOMAIN branches \ DOMAIN branches')
    BY <1>2 DEF CallInv, CallShape
  <2> HIDE DEF seen
  <2>3. CallShape(call'[x])
    BY <2>1, <2>2 DEF CallInv, CallShape
  <2>4. BranchSeen(call'[x], DOMAIN branches')
    BY <2>1, <2>2 DEF CallInv, BranchSeen
  <2>5. call'[x].op = "linkToMain" => ~call'[x].existed
    BY <2>1, <2>2 DEF CallInv
  <2>6. call'[x].existed => exists'
    BY <2>1, <2>2 DEF CallInv
  <2>7. call'[x] = [f \in DOMAIN call'[x] |-> call'[x][f]]
    BY <2>1 DEF seen
  <2> QED
    BY <2>3, <2>4, <2>5, <2>6, <2>7
<1>3. DOMAIN call' = Clients /\ call'[c] = update
  BY <1>1
<1> QED
  BY <1>2, <1>3 DEF CallInv

LEMMA ReturnKeeps ==
    ASSUME CallInv, NEW c \in Clients, Returns(c), exists => exists'
    PROVE  CallInv'
<1>1. /\ NoCall = [f \in DOMAIN NoCall |-> NoCall[f]]
      /\ CallShape(NoCall)
      /\ BranchSeen(NoCall, DOMAIN branches')
      /\ NoCall.op # "linkToMain"
      /\ ~NoCall.existed
  BY DEF NoCall, CallShape, BranchSeen
<1>2. Notice(c, NoCall)
  BY DEF Returns
<1> HIDE DEF NoCall
<1> QED
  BY <1>1, <1>2, NoticeKeeps

\* The steps that end a call of one command, or the last command of a call.
OneCommand(c) ==
    \/ linkToMain(c) \/ Stops(c) \/ StageTracked(c) \/ AbortMerge(c)
    \/ \E specs \in SomeSpecs : Add(c, specs)
    \/ \E specs \in SomeSpecs, modified, keepWorkingCopy \in BOOLEAN :
         RemoveFiles(c, specs, modified, keepWorkingCopy)
    \/ \E message \in Messages : Commit(c, message)
    \/ \E message \in Messages : CommitAll(c, message)
    \/ CommitFiles(c) \/ Amend(c) \/ AmendAll(c) \/ AmendFiles(c)
    \/ \E n \in 1..MaxCommits : Merge(c, n)
    \/ CheckoutBranchRuns(c)
    \/ \E n \in 1..MaxCommits, behavior \in Behaviors : CheckoutRev(c, n, behavior)
    \/ \E b \in Branches, n \in 0..MaxCommits, checkout, overwrite \in BOOLEAN :
         NewBranch(c, b, n, checkout, overwrite)
    \/ \E names \in SUBSET Branches, force \in BOOLEAN : DeleteBranches(c, names, force)

LEMMA OneCommandReturns ==
    ASSUME NEW c \in Clients, OneCommand(c)
    PROVE  Returns(c) /\ exists' = exists
<1>1. CASE linkToMain(c) \/ Stops(c) \/ StageTracked(c) \/ AbortMerge(c)
  BY <1>1 DEF linkToMain, Stops, Fails, StageTracked, AbortMerge, gitVars
<1>2. ASSUME NEW specs, Add(c, specs) PROVE Returns(c) /\ exists' = exists
  BY <1>2 DEF Add
<1>3. ASSUME NEW specs, NEW m, NEW k, RemoveFiles(c, specs, m, k) PROVE Returns(c) /\ exists' = exists
  BY <1>3 DEF RemoveFiles
<1>4. ASSUME NEW message, NEW files, NEW i, NEW amend, NEW empty, GitCommits(c, message, files, i, amend, empty)
      PROVE  Returns(c) /\ exists' = exists
  BY <1>4 DEF GitCommits
<1>5. ASSUME NEW message, NEW specs, NEW amend, NEW empty, CommitsOnly(c, message, specs, amend, empty)
      PROVE  Returns(c) /\ exists' = exists
  BY <1>4, <1>5 DEF CommitsOnly
<1>6. ASSUME NEW message, Commit(c, message) \/ CommitAll(c, message) PROVE Returns(c) /\ exists' = exists
  BY <1>4, <1>6 DEF Commit, CommitAll
<1>7. CASE CommitFiles(c) \/ Amend(c) \/ AmendAll(c) \/ AmendFiles(c)
  BY <1>4, <1>5, <1>7 DEF CommitFiles, Amend, AmendAll, AmendFiles
<1>8. ASSUME NEW n, Merge(c, n) PROVE Returns(c) /\ exists' = exists
  BY <1>8 DEF Merge
<1>9. ASSUME NEW to, NEW b, NEW behavior, GitChecksOut(c, to, b, behavior)
      PROVE  Returns(c) /\ exists' = exists
  BY <1>9 DEF GitChecksOut
<1>10. CASE CheckoutBranchRuns(c)
  BY <1>9, <1>10 DEF CheckoutBranchRuns
<1>11. ASSUME NEW n, NEW behavior, CheckoutRev(c, n, behavior) PROVE Returns(c) /\ exists' = exists
  BY <1>9, <1>11 DEF CheckoutRev
<1>12. ASSUME NEW b, NEW n, NEW checkout, NEW overwrite, NewBranch(c, b, n, checkout, overwrite)
       PROVE  Returns(c) /\ exists' = exists
  BY <1>9, <1>12 DEF NewBranch
<1>13. ASSUME NEW names, NEW force, DeleteBranches(c, names, force) PROVE Returns(c) /\ exists' = exists
  BY <1>13 DEF DeleteBranches
<1> QED
  BY <1>1, <1>2, <1>3, <1>6, <1>7, <1>8, <1>10, <1>11, <1>12, <1>13 DEF OneCommand

LEMMA CallInvHolds == Spec => []CallInv
<1>1. Init => CallInv
  <2> SUFFICES ASSUME Init PROVE CallInv
    OBVIOUS
  <2>1. /\ NoCall = [f \in DOMAIN NoCall |-> NoCall[f]]
        /\ CallShape(NoCall)
        /\ NoCall.op = "none" /\ ~NoCall.existed
    BY DEF NoCall, CallShape
  <2>2. DOMAIN call = Clients /\ \A c \in Clients : call[c] = NoCall
    BY DEF Init
  <2> HIDE DEF NoCall
  <2> QED
    BY <2>1, <2>2 DEF CallInv, BranchSeen
<1>2. CallInv /\ [Next]_vars => CallInv'
  <2> SUFFICES ASSUME CallInv, [Next]_vars PROVE CallInv'
    OBVIOUS
  <2>1. ASSUME NEW p, NEW content, Edit(p, content) PROVE CallInv'
    BY <2>1 DEF Edit, CallInv
  <2>2. ASSUME NEW c \in Clients, OneCommand(c) PROVE CallInv'
    BY <2>2, OneCommandReturns, ReturnKeeps
  <2>3. ASSUME NEW c \in Clients, InitLooks(c) PROVE CallInv'
    <3> DEFINE update == [NoCall EXCEPT !.op = "Init", !.existed = exists]
    <3>1. Notice(c, update) /\ exists' = exists
      BY <2>3 DEF InitLooks, gitVars
    <3>2. /\ update = [f \in DOMAIN update |-> update[f]]
          /\ CallShape(update)
          /\ update.op = "Init" /\ update.existed = exists
      BY DEF NoCall, CallShape
    <3> HIDE DEF update
    <3>3. BranchSeen(update, DOMAIN branches')
      BY <3>2 DEF BranchSeen
    <3> QED
      BY <3>1, <3>2, <3>3, NoticeKeeps
  <2>4. ASSUME NEW c \in Clients, InitRuns(c) PROVE CallInv'
    <3>1. CASE call[c].existed
      <4>1. Returns(c) /\ exists'
        BY <2>4, <3>1 DEF InitRuns
      <4> QED
        BY <4>1, ReturnKeeps
    <3>2. CASE ~call[c].existed
      <4> DEFINE update == [call[c] EXCEPT !.op = "linkToMain"]
      <4>1. Notice(c, update) /\ exists'
        BY <2>4, <3>2 DEF InitRuns
      <4>2. /\ update = [f \in DOMAIN update |-> update[f]]
            /\ CallShape(update)
            /\ update.op = "linkToMain" /\ update.existed = call[c].existed
        BY DEF CallInv, CallShape
      <4> HIDE DEF update
      <4>3. BranchSeen(update, DOMAIN branches')
        BY <4>2 DEF BranchSeen
      <4> QED
        BY <3>2, <4>1, <4>2, <4>3, NoticeKeeps
    <3> QED
      BY <3>1, <3>2
  <2>5. ASSUME NEW c \in Clients, NEW op \in {"CommitFiles", "Amend", "AmendAll", "AmendFiles"},
               NEW message, NEW specs, CommitBegins(c, op, message, specs)
        PROVE  CallInv'
    <3> DEFINE update ==
          [NoCall EXCEPT !.op = op, !.specs = specs,
             !.from = IF message = NoMessage THEN HeadCommit ELSE 0,
             !.message = IF message = NoMessage THEN commits[HeadCommit].message ELSE message]
    <3>1. Notice(c, update) /\ exists' = exists
      BY <2>5 DEF CommitBegins, gitVars
    <3>2. /\ update = [f \in DOMAIN update |-> update[f]]
          /\ CallShape(update)
          /\ update.op = op /\ update.existed = FALSE
      BY DEF NoCall, CallShape
    <3> HIDE DEF update
    <3>3. BranchSeen(update, DOMAIN branches') /\ update.op # "linkToMain"
      BY <3>2 DEF BranchSeen
    <3> QED
      BY <3>1, <3>2, <3>3, NoticeKeeps
  <2>6. ASSUME NEW c \in Clients, NEW b, NEW behavior, CheckoutBranchLooks(c, b, behavior)
        PROVE  CallInv'
    <3> DEFINE update == [NoCall EXCEPT !.op = "CheckoutBranch", !.branch = b, !.behavior = behavior]
    <3>1. Notice(c, update) /\ exists' = exists /\ branches' = branches /\ b \in DOMAIN branches
      BY <2>6 DEF CheckoutBranchLooks, gitVars
    <3>2. /\ update = [f \in DOMAIN update |-> update[f]]
          /\ CallShape(update)
          /\ update.op = "CheckoutBranch" /\ update.existed = FALSE /\ update.branch = b
      BY DEF NoCall, CallShape
    <3> HIDE DEF update
    <3>3. BranchSeen(update, DOMAIN branches')
      BY <3>1, <3>2 DEF BranchSeen
    <3> QED
      BY <3>1, <3>2, <3>3, NoticeKeeps
  <2>7. CASE UNCHANGED vars
    BY <2>7 DEF vars, gitVars, CallInv
  <2> QED
    BY <2>1, <2>2, <2>3, <2>4, <2>5, <2>6, <2>7 DEF Next, OneCommand
<1> QED
  BY <1>1, <1>2, PTL DEF Spec

-----------------------------------------------------------------------------

\* What HeadMovesAsAsked says of one client.
HeadMovesOf(c) ==
    /\ call[c].op \in {"Init", "linkToMain"} /\ call'[c].op # call[c].op /\ head' # head =>
         ~call[c].existed
    /\ call[c].op = "CheckoutBranch" /\ call'[c].op # call[c].op /\ head' # head =>
         /\ head' = OnBranch(call[c].branch)
         /\ branches' = branches \/ call[c].gone

\* A step of another client leaves a call as it is.
LEMMA OthersGoOn ==
    ASSUME CallInv, NEW c \in Clients, NEW d \in Clients, d # c, NEW update, Notice(d, update)
    PROVE  call'[c].op = call[c].op
<1>1. call'[c] = [call[c] EXCEPT !.gone = @ \/ call[c].branch \in DOMAIN branches \ DOMAIN branches']
  BY DEF Notice
<1> QED
  BY <1>1 DEF CallInv, CallShape

LEMMA OneCommandMoves ==
    ASSUME CallInv, NEW c \in Clients, OneCommand(c)
    PROVE  HeadMovesOf(c)
<1> SUFFICES ASSUME call[c].op \in {"Init", "linkToMain", "CheckoutBranch"}
             PROVE  HeadMovesOf(c)
  BY DEF HeadMovesOf
<1>1. CASE linkToMain(c)
  BY <1>1 DEF linkToMain, CallInv, HeadMovesOf
<1>2. CASE Stops(c)
  BY <1>2 DEF Stops, Fails, gitVars, HeadMovesOf
<1>3. CASE CheckoutBranchRuns(c)
  <2>1. ASSUME NEW to, NEW b, NEW behavior, GitChecksOut(c, to, b, behavior)
        PROVE  head' = to /\ branches' = b
    BY <2>1 DEF GitChecksOut
  <2>2. /\ call[c].op = "CheckoutBranch"
        /\ head' = OnBranch(call[c].branch)
        /\ branches' = branches \/ call[c].branch \notin DOMAIN branches
    BY <1>3, <2>1 DEF CheckoutBranchRuns
  <2> QED
    BY <2>2 DEF CallInv, BranchSeen, HeadMovesOf
<1>4. ~Idle(c)
  BY DEF Idle
<1>5. ~CommitFiles(c) /\ ~Amend(c) /\ ~AmendAll(c) /\ ~AmendFiles(c)
  BY DEF CommitFiles, Amend, AmendAll, AmendFiles
<1> QED
  BY <1>1, <1>2, <1>3, <1>4, <1>5 DEF OneCommand, StageTracked, AbortMerge, Add, RemoveFiles,
       Commit, CommitAll, Merge, CheckoutRev, NewBranch, DeleteBranches

(***************************************************************************)
(* Init moves HEAD only of a repository it did not find, and               *)
(* CheckoutBranch makes no branch, unless another client deleted it: for   *)
(* any number of clients, branches and commands.                           *)
(***************************************************************************)
THEOREM RepositoryHeadMoves == Spec => HeadMovesAsAsked
<1>1. CallInv /\ [Next]_vars => [\A c \in Clients : HeadMovesOf(c)]_vars
  <2> SUFFICES ASSUME CallInv, Next, NEW c \in Clients PROVE HeadMovesOf(c)
    OBVIOUS
  <2>1. ASSUME NEW p, NEW content, Edit(p, content) PROVE HeadMovesOf(c)
    BY <2>1 DEF Edit, HeadMovesOf
  <2>2. ASSUME NEW d \in Clients, NEW update, Notice(d, update), d # c PROVE HeadMovesOf(c)
    BY <2>2, OthersGoOn DEF HeadMovesOf
  <2>3. ASSUME NEW d \in Clients, OneCommand(d) PROVE HeadMovesOf(c)
    BY <2>2, <2>3, OneCommandReturns, OneCommandMoves DEF Returns
  <2>4. ASSUME NEW d \in Clients, InitLooks(d) PROVE HeadMovesOf(c)
    BY <2>4 DEF InitLooks, gitVars, HeadMovesOf
  <2>5. ASSUME NEW d \in Clients, InitRuns(d) PROVE HeadMovesOf(c)
    <3>1. CASE d # c
      BY <2>2, <2>5, <3>1 DEF InitRuns, Returns
    <3>2. CASE d = c
      BY <2>5, <3>2 DEF InitRuns, CallInv, HeadMovesOf
    <3> QED
      BY <3>1, <3>2
  <2>6. ASSUME NEW d \in Clients, NEW op, NEW message, NEW specs, CommitBegins(d, op, message, specs)
        PROVE  HeadMovesOf(c)
    BY <2>6 DEF CommitBegins, gitVars, HeadMovesOf
  <2>7. ASSUME NEW d \in Clients, NEW b, NEW behavior, CheckoutBranchLooks(d, b, behavior)
        PROVE  HeadMovesOf(c)
    BY <2>7 DEF CheckoutBranchLooks, gitVars, HeadMovesOf
  <2> QED
    BY <2>1, <2>3, <2>4, <2>5, <2>6, <2>7 DEF Next, OneCommand
<1>2. [][\A c \in Clients : HeadMovesOf(c)]_vars => HeadMovesAsAsked
  BY DEF HeadMovesAsAsked, HeadMovesOf
<1> QED
  BY <1>1, <1>2, CallInvHolds, PTL DEF Spec

-----------------------------------------------------------------------------
LessPairs == {ss \in Nat \X Nat : ss[1] < ss[2]}

(* Counting from 0 to n: what stands for induction in this module.         *)
LEMMA CountUp ==
    ASSUME NEW n \in Nat, NEW S, 0 \in S, \A m \in 0..n - 1 : m \in S => m + 1 \in S
    PROVE  \A m \in 0..n : m \in S
<1> DEFINE T == {m \in 0..n : m \notin S}
<1>1. IsWellFoundedOn(LessPairs, Nat)
  BY NatLessThanWellFounded DEF OpToRel, LessPairs
<1>2. SUFFICES ASSUME T # {} PROVE FALSE
  OBVIOUS
<1>3. T \subseteq Nat
  OBVIOUS
<1>4. PICK x \in T : \A y \in T : <<y, x>> \notin LessPairs
  BY <1>1, <1>2, <1>3, WFMin
<1>5. x \in 0..n /\ x \notin S /\ x # 0
  OBVIOUS
<1>6. x - 1 \in 0..n - 1 /\ x - 1 \in 0..n /\ x - 1 + 1 = x /\ x - 1 < x
  BY <1>5
<1>7. x - 1 \notin S
  BY <1>5, <1>6
<1>8. x - 1 \in T
  BY <1>6, <1>7
<1>9. <<x - 1, x>> \in LessPairs
  BY <1>5, <1>6 DEF LessPairs
<1> QED
  BY <1>4, <1>8, <1>9

-----------------------------------------------------------------------------
(* Clean, name by name.                                                    *)
Step(p, name) == IF name = ".." THEN Front(p) ELSE Append(p, name)

CleanedTo(f, path, n) == f = [i \in 0..n |-> IF i = 0 THEN <<>> ELSE Step(f[i - 1], path[i])]

LEMMA CleanSteps ==
    ASSUME NEW path, Len(path) \in Nat
    PROVE  \E f : CleanedTo(f, path, Len(path)) /\ Clean(path) = f[Len(path)]
<1> DEFINE n == Len(path)
           S == {m \in 0..n : \E f : CleanedTo(f, path, m)}
<1>1. 0 \in S
  <2>1. CleanedTo([i \in 0..0 |-> <<>>], path, 0)
    BY DEF CleanedTo
  <2> QED
    BY <2>1
<1>2. ASSUME NEW m \in 0..n - 1, m \in S PROVE m + 1 \in S
  <2>1. PICK f : CleanedTo(f, path, m)
    BY <1>2
  <2> DEFINE g == [i \in 0..m + 1 |-> IF i <= m THEN f[i] ELSE Step(f[m], path[m + 1])]
  <2>2. ASSUME NEW i \in 0..m + 1 PROVE g[i] = IF i = 0 THEN <<>> ELSE Step(g[i - 1], path[i])
    <3>1. CASE i <= m
      <4>1. i \in 0..m /\ g[i] = f[i] /\ (i # 0 => i - 1 \in 0..m + 1 /\ i - 1 <= m)
        BY <3>1
      <4>2. i # 0 => g[i - 1] = f[i - 1]
        BY <4>1
      <4>3. f[i] = IF i = 0 THEN <<>> ELSE Step(f[i - 1], path[i])
        BY <2>1, <4>1 DEF CleanedTo
      <4> QED
        BY <4>1, <4>2, <4>3
    <3>2. CASE ~(i <= m)
      <4>1. i = m + 1 /\ i # 0 /\ i - 1 = m /\ m \in 0..m + 1 /\ m <= m
        BY <3>2
      <4>2. g[i] = Step(f[m], path[i]) /\ g[m] = f[m]
        BY <3>2, <4>1
      <4> QED
        BY <4>1, <4>2
    <3> QED
      BY <3>1, <3>2
  <2>3. g = [i \in 0..m + 1 |-> g[i]]
    OBVIOUS
  <2> HIDE DEF g
  <2>4. CleanedTo(g, path, m + 1)
    BY <2>2, <2>3 DEF CleanedTo
  <2> QED
    BY <2>4
<1>3. \E f : CleanedTo(f, path, n)
  <2>1. \A m \in 0..n : m \in S
    <3>1. n \in Nat
      OBVIOUS
    <3> HIDE DEF S, n
    <3> QED
      BY <1>1, <1>2, <3>1, CountUp
  <2>2. n \in 0..n
    OBVIOUS
  <2> QED
    BY <2>1, <2>2
<1> DEFINE g == CHOOSE f : CleanedTo(f, path, n)
<1>4. CleanedTo(g, path, n)
  BY <1>3
<1>5. Clean(path) = g[n]
  BY DEF Clean, CleanedTo, Step
<1> QED
  BY <1>4, <1>5

LEMMA CleanHasNoDots ==
    ASSUME NEW path \in Seq(STRING)
    PROVE  Clean(path) \in Seq(STRING) /\ \A i \in 1..Len(Clean(path)) : Clean(path)[i] # ".."
<1> DEFINE n == Len(path)
           Good(p) == p \in Seq(STRING) /\ \A i \in 1..Len(p) : p[i] # ".."
<1>1. PICK f : CleanedTo(f, path, n) /\ Clean(path) = f[n]
  BY CleanSteps
<1> DEFINE S == {m \in 0..n : Good(f[m])}
<1>2. f[0] = <<>> /\ \A m \in 0..n - 1 : f[m + 1] = Step(f[m], path[m + 1])
  <2>1. \A i \in 0..n : f[i] = IF i = 0 THEN <<>> ELSE Step(f[i - 1], path[i])
    BY <1>1 DEF CleanedTo
  <2>2. ASSUME NEW m \in 0..n - 1 PROVE f[m + 1] = Step(f[m], path[m + 1])
    <3>1. m + 1 \in 0..n /\ m + 1 # 0 /\ m + 1 - 1 = m
      OBVIOUS
    <3> QED
      BY <2>1, <3>1
  <2> QED
    BY <2>1, <2>2
<1>3. 0 \in S
  <2>1. Good(<<>>) /\ 0 \in 0..n
    OBVIOUS
  <2> HIDE DEF Good, n
  <2> QED
    BY <1>2, <2>1
<1>4. ASSUME NEW m \in 0..n - 1, m \in S PROVE m + 1 \in S
  <2>1. m + 1 \in 0..n /\ m + 1 \in 1..n /\ path[m + 1] \in STRING
    OBVIOUS
  <2>2. f[m] \in Seq(STRING) /\ \A i \in 1..Len(f[m]) : f[m][i] # ".."
    BY <1>4
  <2>3. ASSUME NEW p \in Seq(STRING), \A i \in 1..Len(p) : p[i] # "..", NEW x \in STRING
        PROVE  Good(Step(p, x))
    <3>1. CASE x = ".."
      <4> HIDE DEF Good
      <4>1. /\ Front(p) \in Seq(STRING) /\ Len(Front(p)) <= Len(p)
            /\ \A i \in 1..Len(Front(p)) : Front(p)[i] = p[i] /\ i \in 1..Len(p)
        <5>1. CASE p = <<>>
          BY <5>1 DEF Front
        <5>2. CASE p # <<>>
          BY <5>2 DEF Front
        <5> QED
          BY <5>1, <5>2
      <4> QED
        BY <2>3, <3>1, <4>1 DEF Step, Good
    <3>2. CASE x # ".."
      BY <2>3, <3>2 DEF Step
    <3> QED
      BY <3>1, <3>2
  <2>4. Good(f[m + 1])
    BY <1>2, <2>1, <2>2, <2>3
  <2> QED
    BY <2>1, <2>4
<1>5. \A m \in 0..n : m \in S
  <2>1. n \in Nat
    OBVIOUS
  <2> HIDE DEF S, n
  <2> QED
    BY <1>3, <1>4, <2>1, CountUp
<1>6. n \in 0..n
  OBVIOUS
<1> QED
  BY <1>1, <1>5, <1>6

LEMMA CleanOfClean ==
    ASSUME NEW path \in Seq(STRING), \A i \in 1..Len(path) : path[i] # ".."
    PROVE  Clean(path) = path
<1> DEFINE n == Len(path)
<1>1. PICK f : CleanedTo(f, path, n) /\ Clean(path) = f[n]
  BY CleanSteps
<1> DEFINE S == {m \in 0..n : f[m] = SubSeq(path, 1, m)}
<1>2. f[0] = <<>> /\ \A m \in 0..n - 1 : f[m + 1] = Step(f[m], path[m + 1])
  <2>1. \A i \in 0..n : f[i] = IF i = 0 THEN <<>> ELSE Step(f[i - 1], path[i])
    BY <1>1 DEF CleanedTo
  <2>2. ASSUME NEW m \in 0..n - 1 PROVE f[m + 1] = Step(f[m], path[m + 1])
    <3>1. m + 1 \in 0..n /\ m + 1 # 0 /\ m + 1 - 1 = m
      OBVIOUS
    <3> QED
      BY <2>1, <3>1
  <2> QED
    BY <2>1, <2>2
<1>3. 0 \in S
  <2>1. SubSeq(path, 1, 0) = <<>> /\ 0 \in 0..n
    OBVIOUS
  <2> HIDE DEF n
  <2> QED
    BY <1>2, <2>1
<1>4. ASSUME NEW m \in 0..n - 1, m \in S PROVE m + 1 \in S
  <2>1. m + 1 \in 0..n /\ m + 1 \in 1..n
    OBVIOUS
  <2>2. f[m + 1] = Append(SubSeq(path, 1, m), path[m + 1])
    BY <1>2, <1>4, <2>1 DEF Step
  <2>3. Append(SubSeq(path, 1, m), path[m + 1]) = SubSeq(path, 1, m + 1)
    OBVIOUS
  <2> QED
    BY <2>1, <2>2, <2>3
<1>5. \A m \in 0..n : m \in S
  <2>1. n \in Nat
    OBVIOUS
  <2> HIDE DEF S, n
  <2> QED
    BY <1>3, <1>4, <2>1, CountUp
<1>6. n \in 0..n /\ SubSeq(path, 1, n) = path
  OBVIOUS
<1> QED
  BY <1>1, <1>5, <1>6

(* A clean path stays so.                                                  *)
LEMMA CleanTwice ==
    ASSUME NEW path \in Seq(STRING)
    PROVE  Clean(<<>> \o Clean(path)) = Clean(path)
<1>1. Clean(path) \in Seq(STRING) /\ \A i \in 1..Len(Clean(path)) : Clean(path)[i] # ".."
  BY CleanHasNoDots
<1> DEFINE p == Clean(path)
<1> HIDE DEF p
<1>2. p \in Seq(STRING) /\ \A i \in 1..Len(p) : p[i] # ".."
  BY <1>1 DEF p
<1>3. <<>> \o p = p
  BY <1>2
<1>4. Clean(p) = p
  BY <1>2, CleanOfClean
<1> QED
  BY <1>3, <1>4 DEF p

(* Run at the top, Git is given pathspecs that select the same files.      *)
LEMMA RewriteSelectsSame ==
    ASSUME NEW spec \in Pathspecs, spec.magic # {"glob"}, NEW dir \in Seq(STRING), NEW p
    PROVE  Selects(Rewrite(spec, dir), <<>>, p) = Selects(spec, dir, p)
<1>1. spec.magic \in SUBSET STRING /\ spec.abs \in BOOLEAN /\ spec.pat \in Seq(STRING)
  BY RepositoryAssumption DEF RepositoryAssumption
<1>2. CASE "top" \in spec.magic \/ spec.abs
  BY <1>2 DEF Selects, Rewrite
<1>3. CASE ~("top" \in spec.magic \/ spec.abs)
  <2> DEFINE base == Clean(dir \o spec.pat)
             given == [magic |-> spec.magic, abs |-> FALSE, pat |-> base]
  <2>1. (IF IsZero(spec.magic) THEN {} ELSE spec.magic) = spec.magic
    BY DEF IsZero
  <2>2. Rewrite(spec, dir) = given
    BY <1>3, <2>1 DEF Rewrite, JoinPathspecMagic
  <2>3. Clean(<<>> \o base) = base
    <3>1. dir \o spec.pat \in Seq(STRING)
      BY <1>1
    <3> QED
      BY <3>1, CleanTwice
  <2> HIDE DEF base
  <2>4. given.magic = spec.magic /\ given.abs = FALSE /\ given.pat = base
    OBVIOUS
  <2> HIDE DEF given
  <2> DEFINE isPattern == "literal" \notin spec.magic /\ base # <<>> /\ Last(base) = "*"
             matches == IF isPattern
                        THEN /\ IsPrefix(Front(base), p)
                             /\ IF "glob" \in spec.magic THEN Len(p) = Len(base) ELSE Len(p) >= Len(base)
                        ELSE IsPrefix(base, p)
  <2>5. Selects(spec, dir, p) = matches
    BY <1>3 DEF Selects, base
  <2>6. ~(given.abs \/ "top" \in given.magic)
    BY <1>3, <2>4
  <2>7. Selects(given, <<>>, p) = matches
    BY <2>3, <2>4, <2>6 DEF Selects
  <2> QED
    BY <2>2, <2>5, <2>7
<1> QED
  BY <1>2, <1>3

LEMMA SelectedSame ==
    ASSUME NEW specs, NEW dir \in Seq(STRING),
           \A i \in DOMAIN specs : specs[i] \in Pathspecs /\ specs[i].magic # {"glob"}
    PROVE  SelectedFromTop(specs, dir) = Selected(specs, dir)
<1>1. CASE dir = <<>>
  BY <1>1 DEF SelectedFromTop
<1>2. CASE dir # <<>>
  <2> DEFINE given == [i \in DOMAIN specs |-> Rewrite(specs[i], dir)]
  <2>1. DOMAIN given = DOMAIN specs /\ \A i \in DOMAIN specs : given[i] = Rewrite(specs[i], dir)
    OBVIOUS
  <2>2. SelectedFromTop(specs, dir) = Selected(given, <<>>)
    BY <1>2 DEF SelectedFromTop
  <2> HIDE DEF given
  <2>3. ASSUME NEW i \in DOMAIN specs, NEW p
        PROVE  Selects(given[i], <<>>, p) = Selects(specs[i], dir, p)
    BY <2>1, RewriteSelectsSame
  <2> QED
    BY <2>1, <2>2, <2>3 DEF Selected
<1> QED
  BY <1>1, <1>2

-----------------------------------------------------------------------------
(* HEAD and the branches are at commits, and commits stay.                 *)
HistoryInv ==
    /\ \E T : commits \in Seq(T)
    /\ head = [on |-> head.on, at |-> head.at]
    /\ head.at \in 0..Len(commits)
    /\ \A b \in DOMAIN branches : branches[b] \in 1..Len(commits)

Grows ==
    /\ Len(commits') \in Nat /\ Len(commits) <= Len(commits')
    /\ \A n \in 1..Len(commits) : commits'[n] = commits[n]

(* What a call was given, or has read of HEAD.                             *)
Asked(r, history) ==
    /\ {"specs", "from", "message"} \subseteq DOMAIN r
    /\ \A i \in DOMAIN r.specs : r.specs[i] \in Pathspecs
    /\ r.from # 0 => r.from \in 1..Len(history) /\ r.message = history[r.from].message
    /\ r.op = "CheckoutBranch" => Len(history) # 0

AskedInv == \A c \in Clients : Asked(call[c], commits)

RepositoryInv == CallInv /\ HistoryInv /\ AskedInv

LEMMA HeadIsACommit ==
    ASSUME HistoryInv
    PROVE  Len(commits) \in Nat /\ HeadCommit \in 0..Len(commits)
<1>1. Len(commits) \in Nat
  BY DEF HistoryInv
<1>2. CASE head.on = ""
  <2>1. HeadCommit = head.at
    BY <1>2 DEF HeadCommit, CommitAt
  <2> QED
    BY <1>1, <2>1 DEF HistoryInv
<1>3. CASE head.on # "" /\ head.on \in DOMAIN branches
  <2>1. HeadCommit = branches[head.on]
    BY <1>3 DEF HeadCommit, CommitAt
  <2>2. branches[head.on] \in 1..Len(commits)
    BY <1>3 DEF HistoryInv
  <2> QED
    BY <1>1, <2>1, <2>2
<1>4. CASE head.on # "" /\ head.on \notin DOMAIN branches
  <2>1. HeadCommit = 0
    BY <1>4 DEF HeadCommit, CommitAt
  <2> QED
    BY <1>1, <2>1
<1> QED
  BY <1>2, <1>3, <1>4

LEMMA SameHistory ==
    ASSUME HistoryInv, UNCHANGED <<head, branches, commits>>
    PROVE  HistoryInv' /\ Grows
BY DEF HistoryInv, Grows

LEMMA HistoryMoves ==
    ASSUME HistoryInv, commits' = commits,
           head' = [on |-> head'.on, at |-> head'.at], head'.at \in 0..Len(commits),
           \A b \in DOMAIN branches' : branches'[b] \in 1..Len(commits)
    PROVE  HistoryInv' /\ Grows
<1>1. Grows
  BY DEF HistoryInv, Grows
<1>2. \E T : commits' \in Seq(T)
  BY DEF HistoryInv
<1> QED
  BY <1>1, <1>2 DEF HistoryInv

LEMMA AppendFacts ==
    ASSUME NEW T, NEW s \in Seq(T), NEW e, NEW t, t = Append(s, e)
    PROVE  /\ t \in Seq(T \cup {e})
           /\ Len(s) \in Nat /\ Len(t) = Len(s) + 1 /\ t[Len(s) + 1] = e
           /\ \A i \in 1..Len(s) : t[i] = s[i]
<1> DEFINE U == T \cup {e}
<1>1. s \in Seq(U) /\ e \in U
  OBVIOUS
<1> HIDE DEF U
<1> QED
  BY <1>1 DEF U

(* git commit.                                                             *)
LEMMA GitCommitsOne ==
    ASSUME HistoryInv, NEW c, NEW message, NEW files, NEW newIndex, NEW amend \in BOOLEAN, NEW allowEmpty,
           GitCommits(c, message, files, newIndex, amend, allowEmpty)
    PROVE  /\ HistoryInv' /\ Grows
           /\ Last(commits').files = files /\ Last(commits').message = message
           /\ amend => HeadCommit # 0 /\ Last(commits').parents = commits[HeadCommit].parents
           /\ index' = newIndex
<1> DEFINE parents == IF amend THEN commits[HeadCommit].parents
                      ELSE IF HeadCommit = 0 THEN <<>>
                      ELSE IF mergeHead = 0 THEN <<HeadCommit>>
                      ELSE <<HeadCommit, mergeHead>>
           n == Len(commits) + 1
           ancestors == {n} \cup UNION {commits[q].ancestors : q \in Range(parents)}
           made == [files |-> files, message |-> message, parents |-> parents, ancestors |-> ancestors]
<1>1. /\ commits' = Append(commits, made)
      /\ amend => HeadCommit # 0
      /\ index' = newIndex
      /\ \/ head.on = "" /\ head' = [head EXCEPT !.at = n] /\ branches' = branches
         \/ /\ branches' = [b \in DOMAIN branches \cup {head.on} |-> IF b = head.on THEN n ELSE branches[b]]
            /\ head' = head
  BY DEF GitCommits
<1>2. made.files = files /\ made.message = message /\ made.parents = parents
  OBVIOUS
<1>3. amend => parents = commits[HeadCommit].parents
  OBVIOUS
<1> HIDE DEF made, parents
<1>4. PICK T : commits \in Seq(T)
  BY DEF HistoryInv
<1>5. commits' \in Seq(T \cup {made})
  <2>1. commits' = Append(commits, made)
    BY <1>1
  <2> QED
    BY <1>4, <2>1, AppendFacts
<1>6. /\ Len(commits') = n /\ commits'[n] = made
      /\ \A i \in 1..Len(commits) : commits'[i] = commits[i]
      /\ Len(commits) \in Nat
  <2>1. commits' = Append(commits, made)
    BY <1>1
  <2> QED
    BY <1>4, <2>1, AppendFacts
<1>7. Last(commits') = made
  BY <1>6 DEF Last
<1>8. Grows
  BY <1>6 DEF Grows
<1>9. head' = [on |-> head'.on, at |-> head'.at] /\ head'.at \in 0..Len(commits')
  <2>1. CASE head' = head
    BY <1>6, <2>1 DEF HistoryInv
  <2>2. CASE head' = [head EXCEPT !.at = n]
    <3>1. head = [on |-> head.on, at |-> head.at]
      BY DEF HistoryInv
    <3>2. head' = [on |-> head.on, at |-> n]
      BY <2>2, <3>1
    <3>3. head'.on = head.on /\ head'.at = n
      BY <3>2
    <3> QED
      BY <1>6, <3>2, <3>3
  <2> QED
    BY <1>1, <2>1, <2>2
<1>10. ASSUME NEW b \in DOMAIN branches' PROVE branches'[b] \in 1..Len(commits')
  <2>1. branches'[b] = n \/ (b \in DOMAIN branches /\ branches'[b] = branches[b])
    BY <1>1, <1>10
  <2> QED
    BY <1>6, <2>1 DEF HistoryInv
<1>11. HistoryInv'
  BY <1>5, <1>9, <1>10 DEF HistoryInv
<1> QED
  BY <1>1, <1>2, <1>3, <1>7, <1>8, <1>11

(* git checkout.                                                           *)
LEMMA ChecksOutKnown ==
    ASSUME HistoryInv, NEW c, NEW to, NEW newBranches, NEW behavior, GitChecksOut(c, to, newBranches, behavior),
           to = [on |-> to.on, at |-> to.at], to.at \in 0..Len(commits),
           \A b \in DOMAIN newBranches : newBranches[b] \in 1..Len(commits)
    PROVE  HistoryInv' /\ Grows
<1>1. head' = to /\ branches' = newBranches /\ commits' = commits
  BY DEF GitChecksOut
<1> QED
  BY <1>1, HistoryMoves

LEMMA PutKnown ==
    ASSUME HistoryInv, NEW b, NEW n \in 1..Len(commits)
    PROVE  \A x \in DOMAIN Put(b, n) : Put(b, n)[x] \in 1..Len(commits)
BY DEF Put, HistoryInv

LEMMA OnBranchKnown ==
    ASSUME HistoryInv, NEW b
    PROVE  LET h == OnBranch(b) IN h = [on |-> h.on, at |-> h.at] /\ h.at \in 0..Len(commits)
BY HeadIsACommit DEF OnBranch

LEMMA DetachedKnown ==
    ASSUME HistoryInv, NEW n \in 1..Len(commits)
    PROVE  LET h == Detached(n) IN h = [on |-> h.on, at |-> h.at] /\ h.at \in 0..Len(commits)
<1>1. n \in 0..Len(commits)
  BY HeadIsACommit
<1> QED
  BY <1>1 DEF Detached

LEMMA CommandKeepsHistory ==
    ASSUME HistoryInv, NEW c \in Clients, Asked(call[c], commits), OneCommand(c)
    PROVE  HistoryInv' /\ Grows
<1>0. Len(commits) \in Nat /\ HeadCommit \in 0..Len(commits)
  BY HeadIsACommit
<1>1. CASE Stops(c) \/ StageTracked(c) \/ AbortMerge(c)
  BY <1>1, SameHistory DEF Stops, Fails, StageTracked, AbortMerge, gitVars
<1>2. CASE linkToMain(c)
  <2>1. head' = OnBranch("main") /\ branches' = branches /\ commits' = commits
    BY <1>2 DEF linkToMain
  <2> QED
    BY <2>1, OnBranchKnown, HistoryMoves DEF HistoryInv
<1>3. ASSUME NEW specs, Add(c, specs) PROVE HistoryInv' /\ Grows
  BY <1>3, SameHistory DEF Add
<1>4. ASSUME NEW specs, NEW m, NEW k, RemoveFiles(c, specs, m, k) PROVE HistoryInv' /\ Grows
  BY <1>4, SameHistory DEF RemoveFiles
<1>5. ASSUME NEW message, Commit(c, message) \/ CommitAll(c, message) PROVE HistoryInv' /\ Grows
  BY <1>5, GitCommitsOne DEF Commit, CommitAll
<1>6. CASE CommitFiles(c) \/ AmendFiles(c)
  BY <1>6, GitCommitsOne DEF CommitFiles, AmendFiles, CommitsOnly
<1>7. CASE Amend(c) \/ AmendAll(c)
  BY <1>7, GitCommitsOne DEF Amend, AmendAll
<1>8. ASSUME NEW n, Merge(c, n) PROVE HistoryInv' /\ Grows
  BY <1>8, SameHistory DEF Merge
<1>9. CASE CheckoutBranchRuns(c)
  <2> DEFINE b == call[c].branch
  <2>1. call[c].op = "CheckoutBranch" /\ Len(commits) # 0
    BY <1>9 DEF CheckoutBranchRuns, Asked
  <2>2. 1 \in 1..Len(commits)
    BY <1>0, <2>1
  <2>3. CASE GitChecksOut(c, OnBranch(b), branches, call[c].behavior)
    BY <2>3, OnBranchKnown, ChecksOutKnown DEF HistoryInv
  <2>4. CASE GitChecksOut(c, OnBranch(b), Put(b, 1), call[c].behavior)
    BY <2>2, <2>4, OnBranchKnown, PutKnown, ChecksOutKnown
  <2> QED
    BY <1>9, <2>3, <2>4 DEF CheckoutBranchRuns
<1>10. ASSUME NEW n, NEW behavior, CheckoutRev(c, n, behavior) PROVE HistoryInv' /\ Grows
  <2>1. n \in 1..Len(commits) /\ GitChecksOut(c, Detached(n), branches, behavior)
    BY <1>10 DEF CheckoutRev
  <2>2. LET h == Detached(n) IN h = [on |-> h.on, at |-> h.at] /\ h.at \in 0..Len(commits)
    BY <2>1, DetachedKnown
  <2> QED
    BY <2>1, <2>2, ChecksOutKnown DEF HistoryInv
<1>11. ASSUME NEW b, NEW n, NEW checkout, NEW overwrite, NewBranch(c, b, n, checkout, overwrite)
       PROVE  HistoryInv' /\ Grows
  <2> DEFINE at == IF n = 0 THEN HeadCommit ELSE n
             moved == IF at = 0 THEN branches ELSE Put(b, at)
  <2>1. /\ at \in 0..Len(commits)
        /\ \/ GitChecksOut(c, OnBranch(b), moved, "AbortOnFileChange")
           \/ at # 0 /\ head' = head /\ branches' = Put(b, at) /\ commits' = commits
    BY <1>11 DEF NewBranch
  <2> HIDE DEF at
  <2>2. at # 0 => \A x \in DOMAIN Put(b, at) : Put(b, at)[x] \in 1..Len(commits)
    <3>1. at # 0 => at \in 1..Len(commits)
      BY <1>0, <2>1
    <3> QED
      BY <3>1, PutKnown
  <2>3. \A x \in DOMAIN moved : moved[x] \in 1..Len(commits)
    BY <2>2 DEF HistoryInv
  <2> HIDE DEF moved
  <2>4. CASE GitChecksOut(c, OnBranch(b), moved, "AbortOnFileChange")
    BY <2>3, <2>4, OnBranchKnown, ChecksOutKnown
  <2>5. CASE at # 0 /\ head' = head /\ branches' = Put(b, at) /\ commits' = commits
    BY <2>2, <2>5, HistoryMoves DEF HistoryInv
  <2> QED
    BY <2>1, <2>4, <2>5
<1>12. ASSUME NEW names, NEW force, DeleteBranches(c, names, force) PROVE HistoryInv' /\ Grows
  <2>1. PICK deleted : /\ branches' = [b \in DOMAIN branches \ deleted |-> branches[b]]
                       /\ head' = head /\ commits' = commits
    BY <1>12 DEF DeleteBranches
  <2> QED
    BY <2>1, HistoryMoves DEF HistoryInv
<1> QED
  BY <1>1, <1>2, <1>3, <1>4, <1>5, <1>6, <1>7, <1>8, <1>9, <1>10, <1>11, <1>12 DEF OneCommand

LEMMA NoticeKeepsAsked ==
    ASSUME CallInv, HistoryInv, AskedInv, Grows, NEW c \in Clients, NEW update, Notice(c, update),
           Asked(update, commits')
    PROVE  AskedInv'
<1> SUFFICES ASSUME NEW x \in Clients PROVE Asked(call'[x], commits')
  BY DEF AskedInv
<1> DEFINE seen == [call[x] EXCEPT !.gone = @ \/ call[x].branch \in DOMAIN branches \ DOMAIN branches']
<1>1. call'[x] = IF x = c THEN update ELSE seen
  BY DEF Notice
<1>2. CASE x = c
  BY <1>1, <1>2
<1>3. CASE x # c
  <2>1. Asked(call[x], commits)
    BY DEF AskedInv
  <2>2. /\ DOMAIN seen = DOMAIN call[x]
        /\ seen.op = call[x].op /\ seen.specs = call[x].specs
        /\ seen.from = call[x].from /\ seen.message = call[x].message
    BY <2>1 DEF CallInv, CallShape, Asked
  <2>3. call'[x] = seen
    BY <1>1, <1>3
  <2> HIDE DEF seen
  <2>4. call[x].from \in 1..Len(commits) =>
          /\ call[x].from \in 1..Len(commits')
          /\ commits'[call[x].from] = commits[call[x].from]
    BY DEF Grows, HistoryInv
  <2>5. Len(commits) # 0 => Len(commits') # 0
    BY HeadIsACommit DEF Grows
  <2> QED
    BY <2>1, <2>2, <2>3, <2>4, <2>5 DEF Asked
<1> QED
  BY <1>2, <1>3

LEMMA NoCallAsked == ASSUME NEW history PROVE Asked(NoCall, history)
BY DEF NoCall, Asked

LEMMA RepositoryStep ==
    ASSUME RepositoryInv, [Next]_vars
    PROVE  HistoryInv' /\ AskedInv' /\ Grows
<1> USE DEF RepositoryInv
<1>1. ASSUME NEW p, NEW content, Edit(p, content) PROVE HistoryInv' /\ AskedInv' /\ Grows
  BY <1>1, SameHistory DEF Edit, AskedInv
<1>2. ASSUME NEW c \in Clients, OneCommand(c) PROVE HistoryInv' /\ AskedInv' /\ Grows
  <2>1. HistoryInv' /\ Grows
    BY <1>2, CommandKeepsHistory DEF AskedInv
  <2>2. Notice(c, NoCall)
    BY <1>2, OneCommandReturns DEF Returns
  <2> QED
    BY <2>1, <2>2, NoCallAsked, NoticeKeepsAsked
<1>3. ASSUME NEW c \in Clients, InitLooks(c) PROVE HistoryInv' /\ AskedInv' /\ Grows
  <2> DEFINE update == [NoCall EXCEPT !.op = "Init", !.existed = exists]
  <2>1. Notice(c, update) /\ UNCHANGED gitVars
    BY <1>3 DEF InitLooks
  <2>2. Asked(update, commits')
    BY DEF NoCall, Asked
  <2> HIDE DEF update
  <2> QED
    BY <2>1, <2>2, SameHistory, NoticeKeepsAsked DEF gitVars
<1>4. ASSUME NEW c \in Clients, InitRuns(c) PROVE HistoryInv' /\ AskedInv' /\ Grows
  <2>1. HistoryInv' /\ Grows
    <3>1. (head' = head \/ head' = OnBranch(DefaultBranch)) /\ branches' = branches /\ commits' = commits
      BY <1>4 DEF InitRuns
    <3>2. CASE head' = head
      BY <3>1, <3>2, SameHistory
    <3>3. CASE head' = OnBranch(DefaultBranch)
      BY <3>1, <3>3, OnBranchKnown, HistoryMoves DEF HistoryInv
    <3> QED
      BY <3>1, <3>2, <3>3
  <2>2. CASE Returns(c)
    BY <2>1, <2>2, NoCallAsked, NoticeKeepsAsked DEF Returns
  <2> DEFINE update == [call[c] EXCEPT !.op = "linkToMain"]
  <2>3. CASE Notice(c, update)
    <3>1. /\ DOMAIN update = DOMAIN call[c]
          /\ update.op = "linkToMain" /\ update.specs = call[c].specs
          /\ update.from = call[c].from /\ update.message = call[c].message
      BY DEF CallInv, CallShape, AskedInv, Asked
    <3>2. commits' = commits
      BY <1>4 DEF InitRuns
    <3> HIDE DEF update
    <3>3. Asked(update, commits')
      BY <3>1, <3>2 DEF AskedInv, Asked
    <3> QED
      BY <2>1, <2>3, <3>3, NoticeKeepsAsked
  <2> QED
    BY <1>4, <2>2, <2>3 DEF InitRuns
<1>5. ASSUME NEW c \in Clients, NEW op \in {"CommitFiles", "Amend", "AmendAll", "AmendFiles"},
             NEW message, NEW specs \in SomeSpecs \cup {<<>>}, CommitBegins(c, op, message, specs)
      PROVE  HistoryInv' /\ AskedInv' /\ Grows
  <2> DEFINE update ==
        [NoCall EXCEPT !.op = op, !.specs = specs,
           !.from = IF message = NoMessage THEN HeadCommit ELSE 0,
           !.message = IF message = NoMessage THEN commits[HeadCommit].message ELSE message]
  <2>1. Notice(c, update) /\ UNCHANGED gitVars
    BY <1>5 DEF CommitBegins
  <2>2. /\ {"specs", "from", "message"} \subseteq DOMAIN update
        /\ update.op = op /\ update.specs = specs
        /\ update.from = (IF message = NoMessage THEN HeadCommit ELSE 0)
        /\ update.message = (IF message = NoMessage THEN commits[HeadCommit].message ELSE message)
    BY DEF NoCall
  <2> HIDE DEF update
  <2>3. \A i \in DOMAIN specs : specs[i] \in Pathspecs
    BY DEF SomeSpecs
  <2>4. update.from # 0 => update.from \in 1..Len(commits) /\ update.message = commits[update.from].message
    BY <2>2, HeadIsACommit
  <2>5. Asked(update, commits')
    BY <2>1, <2>2, <2>3, <2>4 DEF Asked, gitVars
  <2> QED
    BY <2>1, <2>5, SameHistory, NoticeKeepsAsked DEF gitVars
<1>6. ASSUME NEW c \in Clients, NEW b, NEW behavior, CheckoutBranchLooks(c, b, behavior)
      PROVE  HistoryInv' /\ AskedInv' /\ Grows
  <2> DEFINE update == [NoCall EXCEPT !.op = "CheckoutBranch", !.branch = b, !.behavior = behavior]
  <2>1. Notice(c, update) /\ UNCHANGED gitVars /\ b \in DOMAIN branches
    BY <1>6 DEF CheckoutBranchLooks
  <2>2. Len(commits') # 0
    BY <2>1, HeadIsACommit DEF HistoryInv, gitVars
  <2>3. Asked(update, commits')
    BY <2>2 DEF NoCall, Asked
  <2> HIDE DEF update
  <2> QED
    BY <2>1, <2>3, SameHistory, NoticeKeepsAsked DEF gitVars
<1>7. CASE UNCHANGED vars
  BY <1>7, SameHistory DEF vars, gitVars, AskedInv
<1> QED
  BY <1>1, <1>2, <1>3, <1>4, <1>5, <1>6, <1>7 DEF Next, OneCommand

LEMMA RepositoryStarts == ASSUME Init PROVE HistoryInv /\ AskedInv
<1>1. AskedInv
  BY NoCallAsked DEF Init, AskedInv
<1>2. head = [on |-> head.on, at |-> head.at] /\ head.at = 0
  BY DEF Init, OnBranch
<1>3. \E T : commits \in Seq(T)
  <2>1. CASE commits = <<>>
    BY <2>1
  <2>2. ASSUME NEW x, commits = <<x>> PROVE \E T : commits \in Seq(T)
    <3>1. commits \in Seq({x})
      BY <2>2
    <3> QED
      BY <3>1
  <2>3. ASSUME NEW x, NEW y, commits = <<x, y>> PROVE \E T : commits \in Seq(T)
    <3>1. commits \in Seq({x, y})
      BY <2>3
    <3> QED
      BY <3>1
  <2>4. commits = <<>> \/ (\E x : commits = <<x>>) \/ (\E x, y : commits = <<x, y>>)
    BY DEF Init, SomeCommits
  <2> QED
    BY <2>1, <2>2, <2>3, <2>4
<1>4. Len(commits) \in Nat
  BY <1>3
<1>5. \A b \in DOMAIN branches : branches[b] \in 1..Len(commits)
  <2>1. CASE ~exists
    <3>1. branches = <<>>
      BY <2>1 DEF Init
    <3> QED
      BY <3>1
  <2>2. CASE exists
    <3>1. branches = [b \in {DefaultBranch} |-> Len(commits)]
      BY <2>2 DEF Init
    <3>2. (\E x : commits = <<x>>) \/ (\E x, y : commits = <<x, y>>)
      BY <2>2 DEF Init, SomeCommits
    <3>3. Len(commits) = 1 \/ Len(commits) = 2
      BY <3>2
    <3> QED
      BY <3>1, <3>3
  <2> QED
    BY <2>1, <2>2
<1> QED
  BY <1>1, <1>2, <1>3, <1>4, <1>5 DEF HistoryInv

LEMMA RepositoryInvHolds == Spec => []RepositoryInv
<1>1. Init => HistoryInv /\ AskedInv
  BY RepositoryStarts
<1>2. CallInv /\ CallInv' /\ HistoryInv /\ AskedInv /\ [Next]_vars => (HistoryInv /\ AskedInv)'
  BY RepositoryStep DEF RepositoryInv
<1>3. CallInv /\ HistoryInv /\ AskedInv => RepositoryInv
  BY DEF RepositoryInv
<1> QED
  BY <1>1, <1>2, <1>3, CallInvHolds, PTL DEF Spec

\* What CommitsAsAsked says of one client.
CommitOf(c) ==
    LET asked == call[c]
        made == Last(commits')
        named == Selected(asked.specs, Dir[c])
        asGiven == \A i \in DOMAIN asked.specs : asked.specs[i].magic # {"glob"}
    IN /\ Makes(c, {"CommitFiles", "AmendFiles"}) /\ asGiven =>
             \A p \in Paths :
                /\ made.files[p] # HeadFiles[p] => p \in named /\ made.files[p] = work[p]
                /\ p \in named /\ Tracked(p) => made.files[p] = work[p]
                /\ p \notin named => index'[p] = index[p]
       /\ Makes(c, {"Amend", "AmendAll", "AmendFiles"}) =>
             /\ made.parents = commits[HeadCommit].parents
             /\ asked.from = HeadCommit => made.message = commits[HeadCommit].message

CommitOps == {"CommitFiles", "Amend", "AmendAll", "AmendFiles"}

LEMMA MakesOnlyItself ==
    ASSUME RepositoryInv, Next, NEW c \in Clients, Makes(c, CommitOps)
    PROVE  CommitFiles(c) \/ Amend(c) \/ AmendAll(c) \/ AmendFiles(c)
<1>0. /\ call[c].op \in CommitOps /\ call'[c].op = "none" /\ commits' # commits
  <2>1. NoCall.op = "none"
    BY DEF NoCall
  <2> QED
    BY <2>1 DEF Makes
<1>1. ASSUME NEW p, NEW content, Edit(p, content) PROVE FALSE
  BY <1>0, <1>1 DEF Edit
<1>2. ASSUME NEW d \in Clients, d # c, NEW update, Notice(d, update) PROVE FALSE
  BY <1>0, <1>2, OthersGoOn DEF RepositoryInv, CommitOps
<1>3. ASSUME NEW d \in Clients, OneCommand(d) PROVE d = c
  BY <1>2, <1>3, OneCommandReturns DEF Returns
<1>4. ASSUME NEW d \in Clients, InitLooks(d) PROVE FALSE
  BY <1>0, <1>4 DEF InitLooks, gitVars
<1>5. ASSUME NEW d \in Clients, InitRuns(d) PROVE FALSE
  BY <1>0, <1>5 DEF InitRuns
<1>6. ASSUME NEW d \in Clients, NEW op, NEW message, NEW specs, CommitBegins(d, op, message, specs) PROVE FALSE
  BY <1>0, <1>6 DEF CommitBegins, gitVars
<1>7. ASSUME NEW d \in Clients, NEW b, NEW behavior, CheckoutBranchLooks(d, b, behavior) PROVE FALSE
  BY <1>0, <1>7 DEF CheckoutBranchLooks, gitVars
<1>8. OneCommand(c)
  BY <1>1, <1>3, <1>4, <1>5, <1>6, <1>7 DEF Next, OneCommand
<1>9. ~Stops(c) /\ ~linkToMain(c) /\ ~CheckoutBranchRuns(c) /\ ~Idle(c)
  BY <1>0 DEF Stops, Fails, gitVars, linkToMain, CheckoutBranchRuns, Idle, CommitOps
<1> QED
  BY <1>8, <1>9 DEF OneCommand, StageTracked, AbortMerge, Add, RemoveFiles,
       Commit, CommitAll, Merge, CheckoutRev, NewBranch, DeleteBranches

LEMMA OnlyTheNamed ==
    ASSUME RepositoryInv, NEW c \in Clients, NEW amend \in BOOLEAN, NEW allowEmpty,
           CommitsOnly(c, call[c].message, call[c].specs, amend, allowEmpty),
           \A i \in DOMAIN call[c].specs : call[c].specs[i].magic # {"glob"},
           NEW p \in Paths
    PROVE  LET made == Last(commits')
               named == Selected(call[c].specs, Dir[c])
           IN /\ made.files[p] # HeadFiles[p] => p \in named /\ made.files[p] = work[p]
              /\ p \in named /\ Tracked(p) => made.files[p] = work[p]
              /\ p \notin named => index'[p] = index[p]
<1> DEFINE specs == call[c].specs
           named == {q \in SelectedFromTop(specs, Dir[c]) : Tracked(q) \/ HeadFiles[q] # Absent}
<1>1. GitCommits(c, call[c].message, With(HeadFiles, named), With(index, named), amend, allowEmpty)
  BY DEF CommitsOnly
<1>2. Last(commits').files = With(HeadFiles, named) /\ index' = With(index, named)
  BY <1>1, GitCommitsOne DEF RepositoryInv
<1>3. SelectedFromTop(specs, Dir[c]) = Selected(specs, Dir[c])
  <2>1. Dir[c] \in Seq(STRING)
    BY RepositoryAssumption DEF RepositoryAssumption
  <2>2. \A i \in DOMAIN specs : specs[i] \in Pathspecs /\ specs[i].magic # {"glob"}
    BY DEF RepositoryInv, AskedInv, Asked
  <2> QED
    BY <2>1, <2>2, SelectedSame
<1>4. p \in named <=> p \in Selected(specs, Dir[c]) /\ (Tracked(p) \/ HeadFiles[p] # Absent)
  BY <1>3
<1> HIDE DEF named
<1>5. /\ With(HeadFiles, named)[p] = IF p \in named THEN work[p] ELSE HeadFiles[p]
      /\ With(index, named)[p] = IF p \in named THEN work[p] ELSE index[p]
  BY DEF With
<1> QED
  BY <1>2, <1>4, <1>5

LEMMA AmendsOnce ==
    ASSUME RepositoryInv, NEW c \in Clients, NEW files, NEW newIndex, NEW allowEmpty,
           GitCommits(c, call[c].message, files, newIndex, TRUE, allowEmpty)
    PROVE  /\ Last(commits').parents = commits[HeadCommit].parents
           /\ call[c].from = HeadCommit => Last(commits').message = commits[HeadCommit].message
<1>1. /\ HeadCommit # 0 /\ Last(commits').parents = commits[HeadCommit].parents
      /\ Last(commits').message = call[c].message
  BY GitCommitsOne DEF RepositoryInv
<1>2. call[c].from # 0 => call[c].message = commits[call[c].from].message
  BY DEF RepositoryInv, AskedInv, Asked
<1> QED
  BY <1>1, <1>2

(***************************************************************************)
(* CommitFiles and AmendFiles commit the files they name in the caller's   *)
(* directory and no others, and an amended commit keeps its parents and    *)
(* its message: for any directories, pathspecs, clients and histories.     *)
(***************************************************************************)
THEOREM RepositoryCommitsAsAsked == Spec => CommitsAsAsked
<1>1. RepositoryInv /\ [Next]_vars => [\A c \in Clients : CommitOf(c)]_vars
  <2> SUFFICES ASSUME RepositoryInv, Next, NEW c \in Clients PROVE CommitOf(c)
    OBVIOUS
  <2>1. CASE Makes(c, CommitOps)
    <3>1. CASE CommitFiles(c)
      <4>1. call[c].op = "CommitFiles" /\ CommitsOnly(c, call[c].message, call[c].specs, FALSE, TRUE)
        BY <3>1 DEF CommitFiles
      <4> QED
        BY <4>1, OnlyTheNamed DEF CommitOf, Makes
    <3>2. CASE AmendFiles(c)
      <4>1. CommitsOnly(c, call[c].message, call[c].specs, TRUE, FALSE)
        BY <3>2 DEF AmendFiles
      <4>2. \E files, newIndex : GitCommits(c, call[c].message, files, newIndex, TRUE, FALSE)
        BY <4>1 DEF CommitsOnly
      <4> QED
        BY <4>1, <4>2, OnlyTheNamed, AmendsOnce DEF CommitOf
    <3>3. CASE Amend(c)
      <4>1. call[c].op = "Amend" /\ GitCommits(c, call[c].message, index, index, TRUE, FALSE)
        BY <3>3 DEF Amend
      <4> QED
        BY <4>1, AmendsOnce DEF CommitOf, Makes
    <3>4. CASE AmendAll(c)
      <4>1. call[c].op = "AmendAll" /\ GitCommits(c, call[c].message, AllTracked, AllTracked, TRUE, FALSE)
        BY <3>4 DEF AmendAll
      <4> QED
        BY <4>1, AmendsOnce DEF CommitOf, Makes
    <3> QED
      BY <2>1, <3>1, <3>2, <3>3, <3>4, MakesOnlyItself
  <2>2. CASE ~Makes(c, CommitOps)
    BY <2>2 DEF CommitOf, Makes, CommitOps
  <2> QED
    BY <2>1, <2>2
<1>2. [][\A c \in Clients : CommitOf(c)]_vars => CommitsAsAsked
  BY DEF CommitsAsAsked, CommitOf
<1> QED
  BY <1>1, <1>2, RepositoryInvHolds, PTL DEF Spec
=============================================================================
