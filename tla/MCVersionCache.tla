---------------------------- MODULE MCVersionCache ----------------------------
(***************************************************************************)
(* Concurrent calls of getVersion and what Status and ListRemotes make of  *)
(* the version.  Three calls race for it without being followed further;   *)
(* with two, each of which may be of any kind, Git's output is looked at   *)
(* too.                                                                    *)
(***************************************************************************)
EXTENDS VersionUsers

CONSTANTS c1, c2, c3

MCCalls == {c1, c2, c3}

Release(major, minor) == [prints |-> [major |-> major, minor |-> minor],
                          major |-> major, minor |-> minor]

(* A build whose `git --version` does not parse.                           *)
Custom(major, minor) == [Release(major, minor) EXCEPT !.prints = Unparsed]

V(minor) == Release(2, minor)
MCReleases == {V(n) : n \in {10, 11, 15, 17, 18, 45, 46}} \cup {Custom(2, 46)}
MCOutputs  == {Empty, Unparsed} \cup {r.prints : r \in MCReleases}

Change(what) == [what |-> what, from |-> what \o " from", to |-> what \o " to"]
Renames  == <<Change("localRename"), Change("modified")>>
Renames2 == <<Change("stagedRename"), Change("localRename")>>

(* Files named like an entry of the output, in either place of a rename.   *)
MCLooks == [n \in {"M  c", "R  c"} |->
                IF n = "M  c" THEN Token("M ", "c") ELSE Token(StagedRename, "c")]
Shaped  == <<[what |-> "localRename", from |-> "M  c", to |-> "R  c"], Change("modified")>>
Shaped2 == <<[what |-> "stagedRename", from |-> "R  c", to |-> "M  c"], Change("localRename")>>

Setting(key, url) == [key |-> key, url |-> url]
Urls  == <<Setting("url", ""), Setting("url", "a")>>
Urls2 == <<Setting("pushurl", "a"), Setting("url", "b"), Setting("pushurl", "")>>

Pair(k, l) == [c \in MCCalls |-> CASE c = c1 -> k [] c = c2 -> l [] OTHER -> "absent"]
Scenario(kinds, git, changes, settings, w) ==
    [kind |-> kinds, builds |-> git, worktree |-> changes, config |-> settings, warns |-> w]

(* Each behaviour of Git at its boundaries, before and after another.      *)
MCScenarios ==
    {Scenario([c \in MCCalls |-> "version"], <<V(17), V(18)>>, <<>>, <<>>, FALSE)}
    \cup {Scenario(Pair("status", k), git, changes, <<>>, FALSE) :
              k \in {"status", "noRenames"}, changes \in {Renames, Renames2, Shaped, Shaped2},
              git \in {<<V(15), V(17)>>, <<V(10), V(11)>>, <<V(18), V(15)>>}}
    \cup {Scenario(Pair("config", "absent"), git, <<>>, settings, w) :
              settings \in {Urls, Urls2}, w \in BOOLEAN,
              git \in {<<V(45), V(46)>>, <<V(46), Custom(2, 46), V(18)>>}}
=============================================================================
