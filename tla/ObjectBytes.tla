----------------------------- MODULE ObjectBytes -----------------------------
(***************************************************************************)
(* What the packages packfile and object do to the bytes of objects: a     *)
(* pack is written and read (Undeltify), a tree (ObjectTree) or a commit   *)
(* (ObjectCommit) is parsed and serialized.  They share nothing: a         *)
(* behaviour is one of the three.                                          *)
(***************************************************************************)
EXTENDS Undeltify, ObjectTree, ObjectCommit

VARIABLE what       \* "pack", "tree" or "commit"

bytesVars == <<what, vars, treeVars, commitVars>>

PackIdle   == Init /\ ids = CHOOSE order \in IDOrders : TRUE
TreeIdle   == tree = <<>> /\ src = <<>> /\ treeState = "idle" /\ origin = ByCaller
CommitIdle == /\ commit = NoCommit /\ lines = <<>> /\ commitState = "idle"
              /\ commitOrigin = From("caller", <<>>, NoCommit)

BytesInit ==
    \/ what = "pack" /\ Init /\ TreeIdle /\ CommitIdle
    \/ what = "tree" /\ PackIdle /\ TreeInit /\ CommitIdle
    \/ what = "commit" /\ PackIdle /\ TreeIdle /\ CommitInit

InPack   == what = "pack" /\ UNCHANGED <<what, treeVars, commitVars>>
InTree   == what = "tree" /\ UNCHANGED <<what, vars, commitVars>>
InCommit == what = "commit" /\ UNCHANGED <<what, vars, treeVars>>
InStream == InPack /\ RandomUnchanged

BytesNext ==
    \/ InStream /\ \E o \in Objects : WriteHeader(o)
    \/ InStream /\ WriteHeaderTooMany
    \/ InStream /\ \E k \in 1..MaxChunk : Write(k)
    \/ InStream /\ CloseWriter
    \/ InStream /\ \E as \in {"serial", "random"} : Arrive(as, file)
    \/ InStream /\ \E as \in {"serial", "random"}, n \in 0..MaxCut : ArriveCut(as, n)
    \/ InStream /\ \E i \in 1..MaxObjects, d \in {-1, 1} : ArriveDamaged(i, d)
    \/ InStream /\ NextRefuses
    \/ InStream /\ NextEnds
    \/ InStream /\ NextCut
    \/ InStream /\ NextObject
    \/ InStream /\ \E k \in 1..MaxChunk : Read(k)
    \/ InPack /\ \E version \in Versions : OpenIndex(version)
    \/ InPack /\ \E no \in 1..MaxObjects : UndeltifyFails(no)
    \/ InPack /\ \E no \in 1..MaxObjects : UndeltifyPlain(no)
    \/ InPack /\ \E no \in 1..MaxObjects : UndeltifyDelta(no)
    \/ InTree /\ AppendEntry
    \/ InTree /\ Sort
    \/ InTree /\ MarshalBinary
    \/ InTree /\ ParseTreeEntry
    \/ InTree /\ ParseTreeEnds
    \/ InCommit /\ CommitMarshalBinary
    \/ InCommit /\ consumeTree
    \/ InCommit /\ consumeParent
    \/ InCommit /\ consumeAuthor
    \/ InCommit /\ consumeCommitter
    \/ InCommit /\ consumeExtra
    \/ InCommit /\ consumeGPGSig
    \/ InCommit /\ consumeSignature
    \/ InCommit /\ SignatureEnds
    \/ InCommit /\ consumeMessage

BytesSpec == BytesInit /\ [][BytesNext]_bytesVars

(***************************************************************************)
(* Trees and commits are read back as they were written, and have the      *)
(* bytes, so the SHA1, of what they were read from.                        *)
(***************************************************************************)
RoundTrip ==
    /\ what = "tree" => TreeRoundTrip
    /\ what = "commit" => CommitRoundTrip
=============================================================================
