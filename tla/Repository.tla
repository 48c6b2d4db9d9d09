------------------------------ MODULE Repository ------------------------------
(***************************************************************************)
(* The commands of api.go that change a repository and its working tree.   *)
(* A call of a method of Git runs one or several Git commands; clients     *)
(* call concurrently, and Git's commands are the atomic steps.             *)
(*                                                                         *)
(* What Git does is modelled as far as the arguments this package gives it *)
(* ask for it: a repository is its HEAD, branches, commits, index, merge   *)
(* in progress and working copy, with contents instead of files.           *)
(***************************************************************************)
EXTENDS Naturals, SequencesExt

CONSTANTS
    Clients,
    Dir,            \* for each client its directory, below the top of the working tree
    Paths,          \* files, as sequences of names
    Contents,       \* of files; Absent is another
    Branches,       \* branch names, "main" among them
    DefaultBranch,  \* what git init points HEAD to
    Messages,       \* of commits
    Uses,           \* for each client the methods of several commands it calls
    Pathspecs,      \* [magic, abs, pat]; a name in pat may be ".." and the last one "*"
    Remote,         \* branches a remote has, which git checkout creates when asked to
    MaxCommits,     \* bound on commits
    MaxCommands     \* bound on commands of Git and changes by hand

Absent == "absent"
Unmerged == "unmerged"
NoMessage == "none"

ASSUME RepositoryAssumption ==
    /\ Dir \in [Clients -> Seq(STRING)]
    /\ Pathspecs \subseteq [magic : SUBSET STRING, abs : BOOLEAN, pat : Seq(STRING)]
    /\ {"main", DefaultBranch} \subseteq Branches
    /\ {Absent, Unmerged} \cap Contents = {}
    /\ NoMessage \notin Messages
    /\ MaxCommits \in Nat /\ MaxCommands \in Nat

VARIABLES
    exists,     \* there is a repository
    head,       \* [on |-> a branch, at |-> 0], or [on |-> "", at |-> a commit]
    branches,   \* commits of branches
    commits,    \* [files, message, parents, ancestors], by number
    index,      \* contents, or Unmerged
    work,       \* the working copy
    mergeHead,  \* the commit being merged, or 0
    commands,   \* of Git, and changes by hand, so far
    call        \* for each client its call of several commands

gitVars == <<exists, head, branches, commits, index, work, mergeHead>>
vars == <<gitVars, commands, call>>

NoFiles == [p \in Paths |-> Absent]
NoCall == [op |-> "none", message |-> NoMessage, specs |-> <<>>, branch |-> "",
           behavior |-> "", existed |-> FALSE, from |-> 0, gone |-> FALSE]

CommitAt(h, b) == IF h.on = "" THEN h.at ELSE IF h.on \in DOMAIN b THEN b[h.on] ELSE 0
HeadCommit == CommitAt(head, branches)
FilesOf(n) == IF n = 0 THEN NoFiles ELSE commits[n].files
HeadFiles == FilesOf(HeadCommit)

-----------------------------------------------------------------------------
(* Pathspecs.                                                              *)

Clean(path) ==
    LET cleaned[i \in 0..Len(path)] ==
            IF i = 0 THEN <<>>
            ELSE IF path[i] = ".." THEN Front(cleaned[i - 1])
            ELSE Append(cleaned[i - 1], path[i])
    IN cleaned[Len(path)]

\* What Git selects for a pathspec in a directory: a file, all below a
\* directory, or what a pattern matches, which with glob stops at a slash.
Selects(spec, dir, path) ==
    LET base == IF spec.abs \/ "top" \in spec.magic THEN spec.pat ELSE Clean(dir \o spec.pat)
        isPattern == "literal" \notin spec.magic /\ base # <<>> /\ Last(base) = "*"
    IN IF isPattern
       THEN /\ IsPrefix(Front(base), path)
            /\ IF "glob" \in spec.magic THEN Len(path) = Len(base) ELSE Len(path) >= Len(base)
       ELSE IsPrefix(base, path)

Selected(specs, dir) == {p \in Paths : \E i \in DOMAIN specs : Selects(specs[i], dir, p)}

\* PathspecMagic.IsZero does not look at Glob.
IsZero(magic) == magic \ {"glob"} = {}

JoinPathspecMagic(magic, pat) ==
    [magic |-> IF IsZero(magic) THEN {} ELSE magic, abs |-> FALSE, pat |-> pat]

\* Mutant: a pathspec from the top is rewritten, too.
RewriteAll(spec, prefix) ==
    IF spec.abs THEN spec ELSE JoinPathspecMagic(spec.magic, Clean(prefix \o spec.pat))

\* CommitFiles and AmendFiles run Git at the top of the working tree.
Rewrite(spec, prefix) ==
    IF "top" \in spec.magic \/ spec.abs THEN spec
    ELSE JoinPathspecMagic(spec.magic, Clean(prefix \o spec.pat))

SelectedFromTop(specs, prefix) ==
    IF prefix = <<>> THEN Selected(specs, prefix)
    ELSE Selected([i \in DOMAIN specs |-> Rewrite(specs[i], prefix)], <<>>)

-----------------------------------------------------------------------------
(* Git's commands.                                                         *)

Counted == commands < MaxCommands /\ commands' = commands + 1

\* A call that goes on sees another one delete its branch.
Notice(c, update) ==
    /\ Counted
    /\ call' = [x \in Clients |->
                  IF x = c THEN update
                  ELSE [call[x] EXCEPT !.gone = @ \/ call[x].branch \in DOMAIN branches \ DOMAIN branches']]

Returns(c) == Notice(c, NoCall)

Fails(c) == UNCHANGED gitVars /\ Returns(c)

Tracked(p) == index[p] # Absent

\* git commit, and what becomes of the index.
GitCommits(c, message, files, newIndex, amend, allowEmpty) ==
    LET old == commits[HeadCommit]
        parents == IF amend THEN old.parents
                   ELSE IF HeadCommit = 0 THEN <<>>
                   ELSE IF mergeHead = 0 THEN <<HeadCommit>>
                   ELSE <<HeadCommit, mergeHead>>
        same == files = IF parents = <<>> THEN NoFiles ELSE commits[parents[1]].files
        n == Len(commits) + 1
    IN /\ exists
       /\ n <= MaxCommits
       /\ amend => HeadCommit # 0 /\ mergeHead = 0
       /\ \A p \in Paths : Unmerged \notin {files[p], newIndex[p]}
       /\ same => allowEmpty \/ Len(parents) = 2
       /\ commits' = Append(commits,
            [files |-> files, message |-> message, parents |-> parents,
             ancestors |-> {n} \cup UNION {commits[q].ancestors : q \in Range(parents)}])
       /\ IF head.on = ""
          THEN head' = [head EXCEPT !.at = n] /\ UNCHANGED branches
          ELSE /\ branches' = [b \in DOMAIN branches \cup {head.on} |->
                                 IF b = head.on THEN n ELSE branches[b]]
               /\ UNCHANGED head
       /\ index' = newIndex
       /\ mergeHead' = 0
       /\ UNCHANGED <<exists, work>>
       /\ Returns(c)

\* Files of --all, and of --only.
AllTracked == [p \in Paths |-> IF Tracked(p) THEN work[p] ELSE Absent]
With(files, named) == [p \in Paths |-> IF p \in named THEN work[p] ELSE files[p]]

\* --only takes files that Git knows, and refuses a merge.
CommitsOnly(c, message, specs, amend, allowEmpty) ==
    LET named == {p \in SelectedFromTop(specs, Dir[c]) : Tracked(p) \/ HeadFiles[p] # Absent}
    IN /\ mergeHead = 0
       /\ specs # <<>> => named # {}
       /\ GitCommits(c, message, With(HeadFiles, named), With(index, named), amend, allowEmpty)

\* git checkout moves HEAD and brings the files of a commit.  What was changed
\* and differs there is in the way: it is merged, with or without a conflict,
\* or overwritten, as the caller wants.  Which content a merge leaves is not
\* modelled: one of the two.
GitChecksOut(c, to, newBranches, behavior) ==
    LET target == FilesOf(CommitAt(to, newBranches))
        local == {p \in Paths : index[p] # HeadFiles[p] \/ work[p] # index[p]}
        inTheWay == {p \in local : target[p] \notin {HeadFiles[p], index[p]}}
        untracked == {p \in Paths : ~Tracked(p)}
        kept == IF behavior = "DiscardLocal" THEN {p \in untracked : target[p] = Absent} ELSE local
    IN /\ exists
       /\ behavior = "AbortOnFileChange" => inTheWay = {}
       /\ behavior = "MergeLocal" /\ inTheWay # {} =>
            index = HeadFiles /\ inTheWay \cap untracked = {}
       /\ behavior # "DiscardLocal" => \A p \in Paths : index[p] # Unmerged
       /\ head' = to
       /\ branches' = newBranches
       /\ \E conflict \in SUBSET (inTheWay \cap kept) :
            /\ index' = [p \in Paths |-> IF p \in conflict THEN Unmerged
                                         ELSE IF p \in kept \ inTheWay THEN index[p] ELSE target[p]]
            /\ \E mine \in SUBSET (inTheWay \cap kept) :
                 work' = [p \in Paths |-> IF p \in (kept \ inTheWay) \cup mine THEN work[p] ELSE target[p]]
       /\ mergeHead' = 0
       /\ UNCHANGED <<exists, commits>>
       /\ Returns(c)

OnBranch(b) == [on |-> b, at |-> 0]
Detached(n) == [on |-> "", at |-> n]
Put(b, n) == [x \in DOMAIN branches \cup {b} |-> IF x = b THEN n ELSE branches[x]]

-----------------------------------------------------------------------------
(* Calls.                                                                  *)

Idle(c) == commands < MaxCommands /\ call[c].op = "none"

\* Init, or InitBare: is there a repository?
InitLooks(c) ==
    /\ Idle(c) /\ "Init" \in Uses[c]
    /\ UNCHANGED gitVars
    /\ Notice(c, [NoCall EXCEPT !.op = "Init", !.existed = exists])

InitRuns(c) ==
    /\ call[c].op = "Init"
    /\ exists' = TRUE
    /\ head' = IF exists THEN head ELSE OnBranch(DefaultBranch)
    /\ UNCHANGED <<branches, commits, index, work, mergeHead>>
    /\ IF call[c].existed THEN Returns(c) ELSE Notice(c, [call[c] EXCEPT !.op = "linkToMain"])

linkToMain(c) ==
    /\ call[c].op = "linkToMain"
    /\ head' = OnBranch("main")
    /\ UNCHANGED <<exists, branches, commits, index, work, mergeHead>>
    /\ Returns(c)

\* A command of a call fails, or the process of the caller ends.
Stops(c) == call[c].op # "none" /\ Fails(c)

Add(c, specs) ==
    LET named == {p \in Selected(specs, Dir[c]) : Tracked(p) \/ work[p] # Absent}
    IN /\ Idle(c) /\ exists
       /\ named # {}
       /\ index' = With(index, named)
       /\ UNCHANGED <<exists, head, branches, commits, work, mergeHead>>
       /\ Returns(c)

StageTracked(c) ==
    /\ Idle(c) /\ exists
    /\ index' = AllTracked
    /\ UNCHANGED <<exists, head, branches, commits, work, mergeHead>>
    /\ Returns(c)

RemoveFiles(c, specs, modified, keepWorkingCopy) ==
    LET named == {p \in Selected(specs, Dir[c]) : Tracked(p)}
    IN /\ Idle(c) /\ exists
       /\ named # {}
       /\ modified \/ \A p \in named : \/ index[p] = HeadFiles[p] /\ work[p] \in {index[p], Absent}
                                       \/ keepWorkingCopy /\ index[p] \in {HeadFiles[p], work[p]}
       /\ index' = [p \in Paths |-> IF p \in named THEN Absent ELSE index[p]]
       /\ work' = [p \in Paths |-> IF p \in named /\ ~keepWorkingCopy THEN Absent ELSE work[p]]
       /\ UNCHANGED <<exists, head, branches, commits, mergeHead>>
       /\ Returns(c)

Commit(c, message) == Idle(c) /\ GitCommits(c, message, index, index, FALSE, FALSE)

CommitAll(c, message) == Idle(c) /\ GitCommits(c, message, AllTracked, AllTracked, FALSE, FALSE)

\* CommitFiles asks Git for the directory's place in the working tree, and
\* Amend, AmendAll and AmendFiles for the message of HEAD if they have none,
\* before they commit.
CommitBegins(c, op, message, specs) ==
    /\ Idle(c) /\ exists /\ op \in Uses[c]
    /\ specs # <<>> => op \in {"CommitFiles", "AmendFiles"}
    /\ message = NoMessage => op # "CommitFiles" /\ HeadCommit # 0
    /\ UNCHANGED gitVars
    /\ Notice(c, [NoCall EXCEPT !.op = op, !.specs = specs,
                    !.from = IF message = NoMessage THEN HeadCommit ELSE 0,
                    !.message = IF message = NoMessage THEN commits[HeadCommit].message ELSE message])

CommitFiles(c) ==
    /\ call[c].op = "CommitFiles"
    /\ CommitsOnly(c, call[c].message, call[c].specs, FALSE, TRUE)

Amend(c) ==
    /\ call[c].op = "Amend"
    /\ GitCommits(c, call[c].message, index, index, TRUE, FALSE)

AmendAll(c) ==
    /\ call[c].op = "AmendAll"
    /\ GitCommits(c, call[c].message, AllTracked, AllTracked, TRUE, FALSE)

AmendFiles(c) ==
    /\ call[c].op = "AmendFiles"
    /\ CommitsOnly(c, call[c].message, call[c].specs, TRUE, FALSE)

\* Merge returns an error if there is a conflict, and MERGE_HEAD is there.
Merge(c, n) ==
    LET base == Max({0} \cup (commits[HeadCommit].ancestors \cap commits[n].ancestors))
        merged(p) == LET ours == HeadFiles[p]
                         theirs == FilesOf(n)[p]
                     IN IF theirs \in {ours, FilesOf(base)[p]} THEN ours
                        ELSE IF ours = FilesOf(base)[p] THEN theirs ELSE Unmerged
        changed == {p \in Paths : merged(p) # HeadFiles[p]}
    IN /\ Idle(c) /\ exists
       /\ n \in 1..Len(commits)
       /\ HeadCommit # 0
       /\ n \notin commits[HeadCommit].ancestors
       /\ mergeHead = 0
       /\ base # 0
       /\ index = HeadFiles
       /\ \A p \in changed : work[p] = index[p]
       /\ mergeHead' = n
       /\ index' = [p \in Paths |-> merged(p)]
       /\ work' = [p \in Paths |-> IF p \notin changed THEN work[p]
                                   ELSE IF merged(p) = Unmerged THEN HeadFiles[p] ELSE merged(p)]
       /\ UNCHANGED <<exists, head, branches, commits>>
       /\ Returns(c)

AbortMerge(c) ==
    /\ Idle(c)
    /\ mergeHead # 0
    /\ mergeHead' = 0
    /\ index' = HeadFiles
    /\ work' = [p \in Paths |-> IF index[p] = HeadFiles[p] THEN work[p] ELSE HeadFiles[p]]
    /\ UNCHANGED <<exists, head, branches, commits>>
    /\ Returns(c)

\* Mutant: no look at the branch.
CheckoutBranchBlind(c, b, behavior) ==
    /\ Idle(c) /\ "CheckoutBranch" \in Uses[c]
    /\ UNCHANGED gitVars
    /\ Notice(c, [NoCall EXCEPT !.op = "CheckoutBranch", !.branch = b, !.behavior = behavior])

\* Without the look at the branch, git checkout might create it.
CheckoutBranchLooks(c, b, behavior) ==
    /\ Idle(c) /\ "CheckoutBranch" \in Uses[c]
    /\ b \in DOMAIN branches
    /\ UNCHANGED gitVars
    /\ Notice(c, [NoCall EXCEPT !.op = "CheckoutBranch", !.branch = b, !.behavior = behavior])

CheckoutBranchRuns(c) ==
    LET b == call[c].branch
    IN /\ call[c].op = "CheckoutBranch"
       /\ \/ b \in DOMAIN branches /\ GitChecksOut(c, OnBranch(b), branches, call[c].behavior)
          \/ /\ b \in Remote \ DOMAIN branches
             /\ GitChecksOut(c, OnBranch(b), Put(b, 1), call[c].behavior)

CheckoutRev(c, n, behavior) ==
    /\ Idle(c)
    /\ n \in 1..Len(commits)
    /\ GitChecksOut(c, Detached(n), branches, behavior)

\* From HEAD, or from a commit.
NewBranch(c, b, startPoint, checkout, overwrite) ==
    LET n == IF startPoint = 0 THEN HeadCommit ELSE startPoint
    IN /\ Idle(c) /\ exists
       /\ n \in 0..Len(commits)
       /\ b \in DOMAIN branches => overwrite
       /\ IF checkout
          THEN GitChecksOut(c, OnBranch(b), IF n = 0 THEN branches ELSE Put(b, n), "AbortOnFileChange")
          ELSE /\ n # 0
               /\ head.on # b
               /\ branches' = Put(b, n)
               /\ UNCHANGED <<exists, head, commits, index, work, mergeHead>>
               /\ Returns(c)

\* Branches that can be deleted are, also if Git refuses others.
DeleteBranches(c, names, force) ==
    LET deleted == {b \in names \cap DOMAIN branches :
                      /\ b # head.on
                      /\ force \/ (HeadCommit # 0 /\ branches[b] \in commits[HeadCommit].ancestors)}
    IN /\ Idle(c)
       /\ deleted # {}
       /\ branches' = [b \in DOMAIN branches \ deleted |-> branches[b]]
       /\ UNCHANGED <<exists, head, commits, index, work, mergeHead>>
       /\ Returns(c)

\* Somebody changes a file.
Edit(p, content) ==
    /\ work[p] # content
    /\ work' = [work EXCEPT ![p] = content]
    /\ UNCHANGED <<exists, head, branches, commits, index, mergeHead, call>>
    /\ Counted

-----------------------------------------------------------------------------

\* No repository, or one with a commit or two.
SomeCommits ==
    LET files(x) == [p \in Paths |-> x]
        first(x) == [files |-> files(x), message |-> "first", parents |-> <<>>, ancestors |-> {1}]
        second(x) == [files |-> files(x), message |-> "second", parents |-> <<1>>, ancestors |-> {1, 2}]
    IN {<<first(x)>> : x \in Contents} \cup {<<first(x), second(y)>> : x, y \in Contents}

Init ==
    /\ commands = 0
    /\ mergeHead = 0
    /\ call = [c \in Clients |-> NoCall]
    /\ head = OnBranch(DefaultBranch)
    /\ exists \in BOOLEAN
    /\ commits \in IF exists THEN SomeCommits ELSE {<<>>}
    /\ branches = IF exists THEN [b \in {DefaultBranch} |-> Len(commits)] ELSE <<>>
    /\ index = FilesOf(Len(commits))
    /\ work = index

Behaviors == {"AbortOnFileChange", "MergeLocal", "DiscardLocal"}
SomeSpecs == {<<s>> : s \in Pathspecs}

Next ==
    \/ \E p \in Paths, content \in Contents \cup {Absent} : Edit(p, content)
    \/ \E c \in Clients :
        \/ InitLooks(c) \/ InitRuns(c) \/ linkToMain(c) \/ Stops(c)
        \/ StageTracked(c) \/ AbortMerge(c)
        \/ \E specs \in SomeSpecs : Add(c, specs)
        \/ \E specs \in SomeSpecs, modified, keepWorkingCopy \in BOOLEAN :
             RemoveFiles(c, specs, modified, keepWorkingCopy)
        \/ \E message \in Messages : Commit(c, message)
        \/ \E message \in Messages : CommitAll(c, message)
        \/ \E op \in {"CommitFiles", "Amend", "AmendAll", "AmendFiles"},
             message \in Messages \cup {NoMessage}, specs \in SomeSpecs \cup {<<>>} :
             CommitBegins(c, op, message, specs)
        \/ CommitFiles(c) \/ Amend(c) \/ AmendAll(c) \/ AmendFiles(c)
        \/ \E n \in 1..MaxCommits : Merge(c, n)
        \/ \E b \in Branches, behavior \in Behaviors : CheckoutBranchLooks(c, b, behavior)
        \/ CheckoutBranchRuns(c)
        \/ \E n \in 1..MaxCommits, behavior \in Behaviors : CheckoutRev(c, n, behavior)
        \/ \E b \in Branches, n \in 0..MaxCommits, checkout, overwrite \in BOOLEAN :
             NewBranch(c, b, n, checkout, overwrite)
        \/ \E names \in SUBSET Branches, force \in BOOLEAN : DeleteBranches(c, names, force)

Spec == Init /\ [][Next]_vars

-----------------------------------------------------------------------------

\* A call of c makes a commit.
Makes(c, ops) == call[c].op \in ops /\ call'[c] = NoCall /\ commits' # commits

(***************************************************************************)
(* CommitFiles and AmendFiles change the files their pathspecs name in the *)
(* caller's directory, wherever Git is run, and no others, whatever is     *)
(* staged, and what is staged stays so.  A commit amended without a        *)
(* message keeps its own, unless HEAD moved while the call was on.  (A     *)
(* pathspec whose only magic is glob loses it below the top.)              *)
(***************************************************************************)
CommitsAsAsked ==
    [][\A c \in Clients :
        LET asked == call[c]
            made == Last(commits')
            named == Selected(asked.specs, Dir[c])
            asGiven == \A i \in DOMAIN asked.specs : asked.specs[i].magic # {"glob"}
        IN /\ Makes(c, {"CommitFiles", "AmendFiles"}) /\ asGiven =>
                 \A p \in Paths :
                    /\ made.files[p] # HeadFiles[p] => p \in named /\ made.files[p] = work[p]
                    /\ p \in named /\ Tracked(p) => made.files[p] = work[p]
                    /\ p \notin named => index'[p] = index[p]
           /\ Makes(c, {"Amend", "AmendAll", "AmendFiles"}) =>
                 /\ made.parents = commits[HeadCommit].parents
                 /\ asked.from = HeadCommit => made.message = commits[HeadCommit].message]_vars

(***************************************************************************)
(* Init moves HEAD only of a repository that was not there when it was     *)
(* called.  CheckoutBranch ends on the branch it was asked for, and makes  *)
(* none, unless another client deleted that branch while the call was on.  *)
(***************************************************************************)
HeadMovesAsAsked ==
    [][\A c \in Clients :
        /\ call[c].op \in {"Init", "linkToMain"} /\ call'[c].op # call[c].op /\ head' # head =>
             ~call[c].existed
        /\ call[c].op = "CheckoutBranch" /\ call'[c].op # call[c].op /\ head' # head =>
             /\ head' = OnBranch(call[c].branch)
             /\ branches' = branches \/ call[c].gone]_vars
=============================================================================
