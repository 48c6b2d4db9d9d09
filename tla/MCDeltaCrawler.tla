--------------------------- MODULE MCDeltaCrawler ---------------------------
(***************************************************************************)
(* Small packfiles for DeltaCrawler.  IDs are numbered in the order of     *)
(* their first use, so entry o encodes one of the objects 1..o; 0 is an    *)
(* object that is not in the packfile, and an offset where no entry is.    *)
(***************************************************************************)
EXTENDS DeltaCrawler

MCIds == 0..NumEntries

Rec(k, i, bo, bi, Big) ==
    [kind |-> k, id |-> i, baseOff |-> bo, baseId |-> bi, big |-> i \in Big]

Bases(o, Ids_, Big) == {Rec("base", i, 0, 0, Big) : i \in Ids_}

Deltas(o, Ids_, Big) ==
    {Rec("ofs", i, b, 0, Big) : i \in Ids_, b \in 0..o} \cup
    {Rec("ref", i, 0, b, Big) : i \in Ids_, b \in MCIds}

Any(o, Big) == Bases(o, 1..o, Big) \cup Deltas(o, 1..o, Big)

(* Every packfile of three entries: duplicate objects, deltas against an   *)
(* absent object, against themselves and each other, before their bases.   *)
AllPacks3 ==
    UNION {{<<a, b, c>> : a \in Any(1, Big), b \in Any(2, Big), c \in Any(3, Big)} :
             Big \in {{}, {1}}}

AllPacks2 ==
    UNION {{<<a, b>> : a \in Any(1, Big), b \in Any(2, Big)} : Big \in {{}, {1}}}

(* Four entries that encode four objects, one of them not deltified: every *)
(* shape of delta tree, with up to three children of one object.           *)
Trees4 ==
    LET D(o) == Deltas(o, {o}, {})
        B(o) == Bases(o, {o}, {})
    IN  {<<a, b, c, d>> : a \in B(1), b \in D(2), c \in D(3), d \in D(4)} \cup
        {<<a, b, c, d>> : a \in D(1), b \in B(2), c \in D(3), d \in D(4)}

(* The first kind with a fourth entry that has no part in it, and all the  *)
(* trees.                                                                  *)
PacksAndTrees == {Append(p, Rec("base", 4, 0, 0, {})) : p \in AllPacks3} \cup Trees4
=============================================================================
