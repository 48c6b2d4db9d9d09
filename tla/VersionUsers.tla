---------------------------- MODULE VersionUsers ----------------------------
(***************************************************************************)
(* The callers of getVersion: Git.Status, which reads the output of `git    *)
(* status` in a way that depends on the version, and Git.ReadConfig with    *)
(* Config.ListRemotes, which chooses between repeated URLs by it.  The      *)
(* version is that of some earlier run of Git, or missing; the output is   *)
(* that of the Git that is installed when the command runs.                *)
(***************************************************************************)
EXTENDS VersionCache, Integers, SequencesExt

CONSTANTS
    Releases,    \* the builds of Git: [prints, major, minor]
    Unparsed,    \* printed by a build whose version parseVersion does not know
    Remote,      \* the name of the remote that is configured
    Looks,       \* of a file name that looks like an entry, what the entry would be
    Scenarios    \* what the calls are, and what there is to find

(* A call of Status, with or without DisableRenames, a call of ReadConfig, *)
(* a getVersion whose caller is not followed, and a call never made.       *)
Kinds == {"status", "noRenames", "config", "version", "absent"}

(* The codes of StatusCode.isValid, and those of a rename or a copy.       *)
FromCodes == {"R ", "RM", "RD", " R", "C ", "CM", "CD"}
Codes == FromCodes \cup {"??", "!!", " M", " D", " A", "M ", "MM", "MD", "A ", "AM", "AD", "D ",
                        "DD", "AU", "UD", "UA", "DU", "AA", "UU"}

ASSUME UsersAssumption ==
    /\ Looks \in [DOMAIN Looks -> [code : Codes, name : STRING]]
    /\ \A n, m \in DOMAIN Looks : n \in STRING \ {""} /\ (Looks[n] = Looks[m] => n = m)
    /\ \A r \in Releases :
          /\ r.major \in Nat /\ r.minor \in Nat
          /\ r.prints \in Outputs
          /\ r.prints \in {Empty, Unparsed} \/ r.prints = [major |-> r.major, minor |-> r.minor]
    /\ \A s \in Scenarios : /\ s.kind \in [Calls -> Kinds]
                            /\ s.warns \in BOOLEAN
                            /\ s.builds \in Seq(Releases) \ {<<>>}
                            /\ s.worktree \in Seq([what : STRING, from : STRING, to : STRING])
                            /\ s.config \in Seq([key : {"url", "pushurl"}, url : STRING])

VARIABLES
    kind,       \* what each call is
    builds,     \* the build of Git that is installed, and those that replace it
    worktree,   \* the changes `git status` finds: a sequence of [what, from, to]
    config,     \* the remote's settings `git config` finds: a sequence of [key, url]
    warns,      \* `git config` prints a warning to its standard error
    ranOn,      \* the build that ran the command of a call
    result      \* what the call returned

userVars == <<kind, builds, worktree, config, warns, ranOn, result>>
allVars == <<vars, userVars>>

installed == Head(builds)

UsersInit ==
    /\ Init
    /\ \E s \in Scenarios :
          /\ kind = s.kind /\ builds = s.builds
          /\ worktree = s.worktree /\ config = s.config /\ warns = s.warns
    /\ ranOn = [c \in Calls |-> Pending]
    /\ result = [c \in Calls |-> Pending]

-----------------------------------------------------------------------------

(***************************************************************************)
(* parseVersion, for an output that begins with "git version " and two     *)
(* numbers and for one, like that of a custom build, that does not.        *)
(***************************************************************************)
parses(v) == v \notin {Failed, Empty, Unparsed}
Before(v, major, minor) == v.major < major \/ (v.major = major /\ v.minor < minor)

(* Mutant: the last affected release is left out.                          *)
MissesLastAffected(v) ==
    parses(v) /\ ~Before(v, 2, 11) /\ Before(v, 2, 15)

affectedByStatusRenameBug(v) ==
    parses(v) /\ ~Before(v, 2, 11) /\ Before(v, 2, 16)

ModeOf(c) ==
    IF kind[c] = "noRenames" THEN "rewriteLocalRenames"
    ELSE IF affectedByStatusRenameBug(answer[c]) THEN "localRenameMissingName"
    ELSE "acceptRenames"

(***************************************************************************)
(* What `git status --porcelain -z` prints: strings that begin with a code *)
(* and those that are a name alone.  A string is the code it begins with,  *)
(* when one does and a space follows, and the rest of it: a name may look  *)
(* like that too ("M  foo").  A rename in the working tree has lost its    *)
(* new name in 2.11 to 2.15, and -c status.renames=false means nothing     *)
(* before 2.18.                                                            *)
(***************************************************************************)
Blank == ""
Modified == " M"
StagedRename == "R "
LocalRename == " R"
Added == " A"
Deleted == " D"

Token(code, name) == [code |-> code, name |-> name]
Name(name) == IF name \in DOMAIN Looks THEN Looks[name] ELSE Token(Blank, name)

BreaksRenames(r) == r.major = 2 /\ r.minor \in 11..15

Prints(r, k, change) ==
    IF change.what = "modified" THEN <<Token(Modified, change.to)>>
    ELSE IF change.what = "stagedRename"
         THEN <<Token(StagedRename, change.to), Name(change.from)>>
    ELSE IF Before(r, 2, 11) \/ (k = "noRenames" /\ ~Before(r, 2, 18))
         THEN <<Token(Added, change.to), Token(Deleted, change.from)>>
    ELSE IF BreaksRenames(r) THEN <<Token(LocalRename, change.from)>>
    ELSE <<Token(LocalRename, change.to), Name(change.from)>>

StatusOutput(r, k) == FlattenSeq([i \in DOMAIN worktree |-> Prints(r, k, worktree[i])])

Entry(code, name, from) == [code |-> code, name |-> name, from |-> from]
Plain(code, name) == Entry(code, name, Name(Blank))

(***************************************************************************)
(* readStatusEntry: from the i-th string on, the entries and how many      *)
(* strings they take, or an error.  A name where an entry should begin is  *)
(* an error unless it looks like one, an entry where a name should be is   *)
(* never one.                                                              *)
(***************************************************************************)

readStatusEntry(s, i, mode) ==
    LET code == s[i].code
        name == Name(s[i].name)
        entries(es, n) == [ok |-> TRUE, entries |-> es, takes |-> n]
        failure == [ok |-> FALSE, entries |-> <<>>, takes |-> 0]
    IN
    IF code = Blank THEN failure
    ELSE IF mode = "localRenameMissingName" /\ code = LocalRename
         THEN entries(<<Entry(code, Name(Blank), name)>>, 1)
    ELSE IF code \notin FromCodes THEN entries(<<Plain(code, name)>>, 1)
    ELSE IF i = Len(s) THEN failure
    ELSE IF mode = "rewriteLocalRenames" /\ code = LocalRename
         THEN entries(<<Plain(Added, name), Plain(Deleted, s[i + 1])>>, 2)
    ELSE entries(<<Entry(code, name, s[i + 1])>>, 2)

(* The loop of Status: the entries up to the first error.                  *)
StatusEntries(s, mode) ==
    LET from[i \in 1..Len(s) + 2] ==
            IF i > Len(s) THEN [ok |-> TRUE, entries |-> <<>>]
            ELSE LET e == readStatusEntry(s, i, mode) IN
                 IF ~e.ok THEN [ok |-> FALSE, entries |-> <<>>]
                 ELSE [ok |-> from[i + e.takes].ok,
                       entries |-> e.entries \o from[i + e.takes].entries]
    IN from[1]

-----------------------------------------------------------------------------

(***************************************************************************)
(* What ReadConfig has in its buffer.  Stdout and Stderr are two           *)
(* limitWriters over one buffer, so a warning ends up somewhere in the     *)
(* settings: it becomes a part of the key or the value it lands in, or,    *)
(* at the end, of a setting that does not end.                             *)
(***************************************************************************)
Damaged == [key |-> "unknown", url |-> ""]

Captured ==
    IF ~warns THEN {[ok |-> TRUE, settings |-> config]}
    ELSE {[ok |-> FALSE, settings |-> <<>>]}
         \cup {[ok |-> TRUE, settings |-> [config EXCEPT ![i] = Damaged]] : i \in DOMAIN config}

UrlsOf(settings, key) ==
    LET of == SelectSeq(settings, LAMBDA s : s.key = key)
    IN [i \in DOMAIN of |-> of[i].url]

(* Mutant: the boundary between the two ways of handling URLs is off.      *)
ImprovedAfter(v) == ~parses(v) \/ ~Before(v, 2, 47)

improvedHandling(v) == ~parses(v) \/ ~Before(v, 2, 46)

(* Config.ListRemotes for the one remote: its fetch and push URL.          *)
ListRemotes(settings, v) ==
    LET chosen(key) ==
            LET urls == UrlsOf(settings, key) IN
            IF urls = <<>> THEN "" ELSE IF improvedHandling(v) THEN urls[Len(urls)] ELSE urls[1]
        fetch == IF improvedHandling(v) /\ chosen("url") = "" THEN Remote ELSE chosen("url")
        inherits == IF improvedHandling(v) THEN chosen("pushurl") = ""
                    ELSE UrlsOf(settings, "pushurl") = <<>>
    IN [listed |-> \E i \in DOMAIN settings : settings[i] # Damaged,
        fetch |-> fetch, push |-> IF inherits THEN fetch ELSE chosen("pushurl")]

-----------------------------------------------------------------------------

(* getVersion, for the calls that make it: Git prints its own version.     *)
CacheStep ==
    /\ Next
    /\ \A c \in Calls :
          /\ kind[c] \in {"noRenames", "absent"} => pc'[c] = "idle" /\ c \notin cancelled'
          /\ out'[c] # out[c] => out'[c] \in {Failed, Empty, installed.prints}
    /\ UNCHANGED userVars

(* Git is upgraded or replaced while the program runs.                     *)
ReplaceGit ==
    /\ Len(builds) > 1
    /\ builds' = Tail(builds)
    /\ UNCHANGED <<vars, kind, worktree, config, warns, ranOn, result>>

Runs(c) ==
    /\ result[c] = Pending
    /\ ranOn' = [ranOn EXCEPT ![c] = installed]
    /\ UNCHANGED <<vars, kind, builds, worktree, config, warns>>

(* Git.Status after getVersion, or without it.                             *)
RunsStatus(c) ==
    /\ \/ kind[c] = "status" /\ pc[c] = "done"
       \/ kind[c] = "noRenames"
    /\ Runs(c)
    /\ result' = [result EXCEPT ![c] =
                    StatusEntries(StatusOutput(installed, kind[c]), ModeOf(c))]

(* Git.ReadConfig after getVersion, and ListRemotes on what it returns.    *)
RunsConfig(c) ==
    /\ kind[c] = "config" /\ pc[c] = "done"
    /\ Runs(c)
    /\ \E data \in Captured : result' = [result EXCEPT ![c] =
          IF data.ok THEN [ok |-> TRUE, remote |-> ListRemotes(data.settings, answer[c])]
          ELSE [ok |-> FALSE]]

(* The command fails, and with it the call.                                *)
CommandFails(c) ==
    /\ \/ kind[c] \in {"status", "config"} /\ pc[c] = "done"
       \/ kind[c] = "noRenames"
    /\ Runs(c)
    /\ result' = [result EXCEPT ![c] = [ok |-> FALSE]]

UsersNext ==
    \/ CacheStep
    \/ ReplaceGit
    \/ \E c \in Calls : RunsStatus(c) \/ RunsConfig(c) \/ CommandFails(c)

UsersSpec == UsersInit /\ [][UsersNext]_allVars /\ Fairness

-----------------------------------------------------------------------------

(* A change in the form a caller asks for, as far as the build that looked  *)
(* at the working tree can tell.                                           *)
Shown(r, k, change) ==
    IF change.what = "modified" THEN <<Plain(Modified, Name(change.to))>>
    ELSE IF change.what = "stagedRename"
         THEN <<Entry(StagedRename, Name(change.to), Name(change.from))>>
    ELSE IF k = "noRenames" \/ Before(r, 2, 11)
         THEN <<Plain(Added, Name(change.to)), Plain(Deleted, Name(change.from))>>
    ELSE IF BreaksRenames(r) THEN <<Entry(LocalRename, Name(Blank), Name(change.from))>>
    ELSE <<Entry(LocalRename, Name(change.to), Name(change.from))>>

StatusOf(r, k) == FlattenSeq([i \in DOMAIN worktree |-> Shown(r, k, worktree[i])])

(***************************************************************************)
(* A Status that returns no error lists every change as the Git that looked *)
(* at the working tree found it.  From a Git with the rename bug, when its *)
(* version is the one that was cached, is one parseVersion knows, and      *)
(* renames are not disabled.  From any other Git, whatever version the     *)
(* cache holds, except one with the bug when a file renamed in the working *)
(* tree had a name that looks like an entry: its old name is then taken    *)
(* for the next entry and nothing fails (status.go:117-124, 149).          *)
(***************************************************************************)
Loose(change) ==
    change.what \notin {"modified", "stagedRename"} /\ change.from \in DOMAIN Looks

StatusExact ==
    \A c \in Calls :
        /\ kind[c] \in {"status", "noRenames"}
        /\ result[c] # Pending /\ result[c].ok
        /\ IF BreaksRenames(ranOn[c])
           THEN kind[c] = "status" /\ parses(answer[c]) /\ answer[c] = ranOn[c].prints
           ELSE \/ ModeOf(c) # "localRenameMissingName"
                \/ \A i \in DOMAIN worktree : ~Loose(worktree[i])
        => result[c].entries = StatusOf(ranOn[c], kind[c])

(***************************************************************************)
(* The URLs ListRemotes returns are those the Git that printed them uses,  *)
(* as config.go describes it: the first ones before 2.46, blank ones       *)
(* included, the last since, with the remote's name for a blank one.  The  *)
(* exceptions: a Git that was replaced, or before 2.46 and of a version    *)
(* parseVersion does not know, and a warning of Git among the settings.    *)
(***************************************************************************)
UsesUrl(r, urls, default) ==
    IF urls = <<>> THEN default
    ELSE IF Before(r, 2, 46) THEN urls[1]
    ELSE IF urls[Len(urls)] = "" THEN default ELSE urls[Len(urls)]

RemotesExact ==
    \A c \in Calls :
        /\ kind[c] = "config" /\ ~warns
        /\ result[c] # Pending /\ result[c].ok
        /\ answer[c] = ranOn[c].prints
        /\ Before(ranOn[c], 2, 46) => parses(answer[c])
        => LET fetch == UsesUrl(ranOn[c], UrlsOf(config, "url"),
                                IF Before(ranOn[c], 2, 46) THEN "" ELSE Remote)
           IN result[c].remote = [listed |-> config # <<>>,
                                  fetch |-> fetch,
                                  push |-> UsesUrl(ranOn[c], UrlsOf(config, "pushurl"), fetch)]
=============================================================================
