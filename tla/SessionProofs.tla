----------------------------- MODULE SessionProofs -----------------------------
(***************************************************************************)
(* Proofs about the sessions of packfile/client.                           *)
(*                                                                         *)
(* A pull, for any refs, requests, packfile and number of rounds: that an  *)
(* answer of ListRefs is complete (unless the session was taken for that   *)
(* of an empty repository), that a closed stream has nothing open, and,    *)
(* wherever a response is cut or the server fails, that Negotiate          *)
(* understands what it says and that the packfile ends with io.EOF only if *)
(* it is whole.                                                            *)
(*                                                                         *)
(* A push, for any refs, capabilities and size of packfile: that Close     *)
(* returns nil only if every command was carried out, and that it leaves   *)
(* nothing open.                                                           *)
(*                                                                         *)
(* The refs that both move: which promises MutateRefs keeps.               *)
(***************************************************************************)
EXTENDS PullSession, PushSession, FiniteSetTheorems, SequenceTheorems, TLAPS

(* Which puller speaks which version, and what a pullV1 has read.          *)
SessionKnown ==
    /\ proto \in {1, 2}
    /\ session \in {"none", "v1", "v2", "empty", "failed", "closed"}
    /\ session = "v1" => proto = 1
    /\ session = "v2" => proto = 2
    /\ session \in {"none", "closed"} => stage = "idle"
    /\ session = "none" => v1 = NoV1 /\ open = {} /\ ~pack.held /\ listing = NoListing

V1s == [known : SUBSET Refs, caps : BOOLEAN, pending : BOOLEAN, whole : BOOLEAN, err : BOOLEAN]

V1Known ==
    /\ v1 \in V1s
    /\ v1.known \subseteq Existing(advertised)
    /\ v1.pending => v1.caps
    /\ session = "v1" /\ v1.caps /\ ~v1.pending /\ ~v1.err => v1.known = Existing(advertised)
    /\ session \in {"none", "v2", "empty", "failed"} => v1.known = {}

(* A packfileReader is a record that says whether the caller holds it.     *)
IsPack(p) == "held" \in DOMAIN p /\ p = [f \in DOMAIN p |-> p[f]]

(* The response that is read, or the packfile the caller holds, is all     *)
(* that a version 2 session has open.                                      *)
OpenKnown ==
    /\ round \in Nat
    /\ IsPack(pack)
    /\ session = "closed" => 0 \notin open
    /\ proto = 2 =>
         /\ stage \notin {"shallow", "acks"}
         /\ open \subseteq {round}
         /\ stage = "idle" /\ ~pack.held => open = {}

PullInv == SessionKnown /\ V1Known /\ OpenKnown /\ ListingIsComplete

LEMMA PacksKnown ==
    /\ IsPack(NoPack) /\ ~NoPack.held
    /\ IsPack(NewPack) /\ NewPack.held
  BY DEF NoPack, NewPack, IsPack

LEMMA InitPull == Init => PullInv
  BY PacksKnown DEF NoV1, V1s, Init, PullInv, SessionKnown, V1Known, OpenKnown, ListingIsComplete,
                    TakenForEmpty, Existing, NoListing

LEMMA StartSteps == ASSUME PullInv, StartPull PROVE PullInv'
<1> USE DEF PullInv, SessionKnown, V1Known, OpenKnown, ListingIsComplete, Existing, Starts, negVars, refVars, serverVars
<1>1. CASE StartPullFails \/ StartPullEmpty
  BY <1>1 DEF StartPullFails, StartPullEmpty, NoListing, NoV1, V1s
<1>2. CASE StartPullV2
  BY <1>2 DEF StartPullV2, NoListing, NoV1, V1s
<1>3. CASE StartPullV1
  <2>1. /\ session = "none" /\ session' = "v1" /\ proto = 1 /\ advertised' = refs
        /\ UNCHANGED <<proto, listing, round, pack, stage>>
        /\ v1' \in FirstRefsV1
    BY <1>3 DEF StartPullV1
  <2>2. ~listing.ok
    BY <2>1 DEF NoListing
  <2>3. NoV1 \in V1s /\ NoV1.known = {} /\ ~NoV1.pending /\ ~NoV1.caps
    BY DEF NoV1, V1s
  <2>4. /\ v1' \in V1s
        /\ v1'.known \subseteq Existing(refs)
        /\ v1'.pending => v1'.caps
        /\ v1'.caps /\ ~v1'.pending /\ ~v1'.err => v1'.known = Existing(refs)
    <3>1. CASE Existing(refs) = {}
      BY <2>1, <2>3, <3>1 DEF FirstRefsV1, V1s
    <3>2. CASE Existing(refs) # {}
      <4>1. \/ v1' \in {NoV1, [NoV1 EXCEPT !.err = TRUE]}
            \/ v1' \in [known : {{r} : r \in Existing(refs)}, caps : {TRUE}, pending : {TRUE},
                        whole : BOOLEAN, err : {FALSE}]
        BY <2>1, <3>2 DEF FirstRefsV1
      <4>2. CASE v1' \in {NoV1, [NoV1 EXCEPT !.err = TRUE]}
        BY <2>3, <4>2 DEF V1s
      <4>3. CASE v1' \in [known : {{r} : r \in Existing(refs)}, caps : {TRUE}, pending : {TRUE},
                           whole : BOOLEAN, err : {FALSE}]
        <5>1. /\ v1'.known \in {{r} : r \in Existing(refs)} /\ v1'.caps /\ v1'.pending
              /\ v1' \in [known : SUBSET Refs, caps : BOOLEAN, pending : BOOLEAN, whole : BOOLEAN,
                          err : BOOLEAN]
          BY <4>3
        <5> QED
          BY <5>1 DEF V1s
      <4> QED
        BY <4>1, <4>2, <4>3
    <3> QED
      BY <3>1, <3>2
  <2> QED
    BY <2>1, <2>2, <2>4
<1> QED
  BY <1>1, <1>2, <1>3 DEF StartPull

LEMMA ListSteps ==
    ASSUME PullInv, NEW asked \in SUBSET Refs,
           ListRefsV1(asked) \/ ListRefsV2(asked) \/ ListRefsEmpty(asked)
    PROVE  PullInv'
<1> USE DEF PullInv, SessionKnown, V1Known, OpenKnown, ListingIsComplete, TakenForEmpty, Existing, Lists,
            Answer, negVars, refVars, serverVars
<1>1. CASE ListRefsV1(asked)
  <2>1. /\ session = "v1" /\ session' = session /\ open' = open \ {0} /\ proto' = proto
        /\ advertised' = advertised /\ pack' = pack /\ stage' = stage /\ round' = round
        /\ listing' = [ok |-> ~v1'.err, asked |-> asked, names |-> v1'.known \cap asked,
                        there |-> Existing(advertised)]
    BY <1>1 DEF ListRefsV1
  <2>2. /\ v1' \in V1s
        /\ v1'.known \subseteq Existing(advertised)
        /\ ~v1'.pending
        /\ v1'.caps /\ ~v1'.err => v1'.known = Existing(advertised)
    <3>1. CASE v1.pending
      <4>1. PICK known \in SUBSET Refs : OtherRefsV1(known)
        BY <1>1, <3>1 DEF ListRefsV1
      <4>2. /\ v1' \in V1s
            /\ v1'.known = known /\ ~v1'.pending /\ v1'.err = ~v1.whole
            /\ known \subseteq Existing(advertised)
            /\ v1.whole => known = Existing(advertised)
        BY <4>1 DEF OtherRefsV1, V1s
      <4> QED
        BY <4>2
    <3>2. CASE ~v1.pending
      BY <1>1, <3>2 DEF ListRefsV1
    <3> QED
      BY <3>1, <3>2
  <2> QED
    BY <2>1, <2>2
<1>2. CASE ListRefsV2(asked)
  BY <1>2 DEF ListRefsV2
<1>3. CASE ListRefsEmpty(asked)
  BY <1>3 DEF ListRefsEmpty
<1> QED
  BY <1>1, <1>2, <1>3

(* A step of Negotiate or of the packfile's reader: of the refs and of     *)
(* what was listed nothing changes that the invariant speaks of.           *)
LEMMA RefsKeep ==
    ASSUME PullInv, UNCHANGED <<proto, refsVars>>, listing' = listing \/ listing' = NoListing,
           OpenKnown', session \in {"none", "closed"} => stage' = "idle" /\ open' \subseteq open,
           session = "none" => ~pack'.held /\ listing' = listing
    PROVE  PullInv'
  BY DEF PullInv, SessionKnown, V1Known, ListingIsComplete, TakenForEmpty, Existing, NoListing, refsVars

LEMMA NegotiateSteps ==
    ASSUME PullInv, NegotiateFails \/ \E q \in PullRequests : NegotiateSent(q)
    PROVE  PullInv'
<1> USE DEF PullInv, SessionKnown, OpenKnown, Negotiates, refsVars, serverVars
<1>1. CASE NegotiateFails
  BY <1>1, RefsKeep, PacksKnown DEF NegotiateFails
<1>2. ASSUME NEW q \in PullRequests, NegotiateSent(q) PROVE PullInv'
  BY <1>2, RefsKeep, PacksKnown DEF NegotiateSent, UploadPack, FirstStage, HasCaps
<1> QED
  BY <1>1, <1>2

LEMMA ReadSteps ==
    ASSUME PullInv, ReadResponse
    PROVE  PullInv'
<1> USE DEF PullInv, SessionKnown, OpenKnown, Parses, refsVars, serverVars, KeepsReading, ReturnPack,
            ReturnNoPack, ReturnError, Closed
<1>1. CASE ReadShallowV1
  BY <1>1, RefsKeep DEF ReadShallowV1
<1>2. CASE ReadAckV1 \/ ReadLastAckV1 \/ ReadNakV1 \/ ReadBadAckV1
  <2>1. CASE ReadAckV1
    BY <2>1, RefsKeep DEF ReadAckV1
  <2>2. CASE ReadLastAckV1
    BY <2>2, RefsKeep, PacksKnown DEF ReadLastAckV1
  <2>3. CASE ReadNakV1
    BY <2>3, RefsKeep, PacksKnown DEF ReadNakV1
  <2>4. CASE ReadBadAckV1
    BY <2>4, RefsKeep DEF ReadBadAckV1
  <2> QED
    BY <1>2, <2>1, <2>2, <2>3, <2>4
<1>3. CASE ReadAckV2
  BY <1>3, RefsKeep DEF ReadAckV2
<1>4. CASE ReadShallowV2
  BY <1>4, RefsKeep DEF ReadShallowV2
<1>5. ASSUME NEW s \in {"first", "second", "third"}, ReadSectionV2(s) PROVE PullInv'
  <2>1. /\ session' = session /\ proto' = proto /\ round' = round /\ listing' = listing
        /\ stage \in {"first", "second", "third"} /\ UNCHANGED refsVars
    BY <1>5 DEF ReadSectionV2
  <2>2. \/ stage' \in {"acksV2", "shallowV2"} /\ pack' = pack /\ open' = open
        \/ stage' = "idle" /\ pack' = NewPack /\ open' = open
        \/ stage' = "idle" /\ pack' = pack /\ open' = open \ {round}
    BY <1>5 DEF ReadSectionV2
  <2> QED
    BY <2>1, <2>2, RefsKeep, PacksKnown
<1> QED
  BY <1>1, <1>2, <1>3, <1>4, <1>5 DEF ReadResponse

LEMMA PackSteps ==
    ASSUME PullInv, ReadPack \/ ClosePack
    PROVE  PullInv'
<1> USE DEF PullInv, SessionKnown, OpenKnown, Reads, refsVars, serverVars
<1>1. ASSUME NEW i \in DOMAIN PackData, NEW n \in 1..PackData[i], ReadCurr(n) \/ ReadChunk(n)
      PROVE  PullInv'
  <2>1. pack'.held = pack.held /\ IsPack(pack')
    <3>1. IsPack(pack)
      OBVIOUS
    <3>2. CASE ReadCurr(n)
      <4>1. pack' = [pack EXCEPT !.curr = @ - n, !.got = [pack.got EXCEPT ![pack.at] = pack.got[pack.at] + n]]
        BY <3>2 DEF ReadCurr
      <4> QED
        BY ONLY <3>1, <4>1 DEF IsPack
    <3>3. CASE ReadChunk(n)
      <4> DEFINE j == Head(wire).value
      <4>1. pack' = [pack EXCEPT !.at = j, !.curr = PackData[j] - n, !.got = [pack.got EXCEPT ![j] = pack.got[j] + n]]
        BY <3>3 DEF ReadChunk
      <4> QED
        BY ONLY <3>1, <4>1 DEF IsPack
    <3> QED
      BY <1>1, <3>2, <3>3
  <2> QED
    BY <1>1, <2>1, RefsKeep DEF ReadCurr, ReadChunk
<1>2. CASE ReadProgress
  BY <1>2, RefsKeep DEF ReadProgress
<1>3. CASE ReadEnd
  <2>1. pack'.held = pack.held /\ IsPack(pack')
    BY <1>3 DEF ReadEnd, IsPack
  <2> QED
    BY <1>3, <2>1, RefsKeep DEF ReadEnd
<1>4. CASE ClosePack
  BY <1>4, RefsKeep, PacksKnown DEF ClosePack
<1> QED
  BY <1>1, <1>2, <1>3, <1>4 DEF ReadPack

LEMMA StepPull == PullInv /\ [Next]_vars => PullInv'
<1> SUFFICES ASSUME PullInv, [Next]_vars PROVE PullInv'
  OBVIOUS
<1>1. CASE Close
  BY <1>1 DEF Close, PullInv, SessionKnown, V1Known, OpenKnown, ListingIsComplete, TakenForEmpty, NoListing, Existing,
              negVars, refVars, serverVars
<1>2. CASE RefsMove
  BY <1>2, RefsKeep DEF RefsMove, PullInv, SessionKnown, OpenKnown, negVars, refsVars, serverVars
<1>3. CASE UNCHANGED vars
  BY <1>3, RefsKeep DEF vars, PullInv, SessionKnown, OpenKnown, negVars, refsVars, serverVars
<1> QED
  BY <1>1, <1>2, <1>3, StartSteps, ListSteps, NegotiateSteps, ReadSteps, PackSteps DEF Next

(* What a pull keeps, wherever its responses are cut.                      *)
THEOREM PullInvariant == Spec => []PullInv
<1> QED
  BY InitPull, StepPull, PTL DEF Spec

(***************************************************************************)
(* PullStream.ListRefs: an answer without an error has every ref that was  *)
(* asked for and none the remote did not have, as of one moment, unless    *)
(* the session was taken for that of an empty repository (TakenForEmpty).  *)
(***************************************************************************)
THEOREM PullListingIsComplete == Spec => []ListingIsComplete
<1>1. PullInv => ListingIsComplete
  BY DEF PullInv
<1> QED
  BY <1>1, PullInvariant, PTL

(***************************************************************************)
(* PullStream.Close leaves a version 2 session nothing open but a packfile *)
(* that the caller holds, and a version 1 session not its advertisement.   *)
(***************************************************************************)
THEOREM PullNothingOpen == Spec => []NothingOpen
<1>1. PullInv => NothingOpen
  BY DEF PullInv, SessionKnown, OpenKnown, NothingOpen
<1> QED
  BY <1>1, PullInvariant, PTL

(***************************************************************************)
(* What is left of a response.                                             *)
(***************************************************************************)
Lines == {"progress", "chunk", "flush", "delim", "ERR", "nak", "ack", "lastAck", "shallow",
          "shallow-info", "packfile", "acknowledgments", "ready"}
AllPackets == [line : Lines, value : {0} \cup Haves \cup DOMAIN PackData]
AckPackets(q) == {Packet("ack", h) : h \in Shared(q)}

(* The packets w are the first of the packets t.                           *)
Begins(w, t) ==
    /\ w \in Seq(AllPackets) /\ t \in Seq(AllPackets)
    /\ Len(w) <= Len(t)
    /\ \A i \in 1..Len(w) : w[i] = t[i]

LEMMA HeadBegins ==
    ASSUME NEW w, NEW t, Begins(w, t), w # <<>>
    PROVE  /\ t # <<>> /\ Head(w) = Head(t)
           /\ Begins(Tail(w), Tail(t))
<1> USE DEF Begins
<1>1. Len(w) \in Nat /\ Len(t) \in Nat /\ Len(w) >= 1 /\ Len(t) >= 1
  OBVIOUS
<1>2. Head(w) = w[1] /\ Head(t) = t[1] /\ w[1] = t[1] /\ t # <<>>
  BY <1>1
<1>3. Tail(w) \in Seq(AllPackets) /\ Len(Tail(w)) = Len(w) - 1 /\ Tail(t) \in Seq(AllPackets) /\ Len(Tail(t)) = Len(t) - 1
  BY <1>1
<1>4. ASSUME NEW i \in 1..Len(Tail(w)) PROVE Tail(w)[i] = Tail(t)[i]
  <2>1. i + 1 \in 1..Len(w) /\ i \in 1..Len(Tail(t))
    BY <1>1, <1>3
  <2>2. Tail(w)[i] = w[i + 1] /\ Tail(t)[i] = t[i + 1]
    BY <1>1, <1>3, <2>1
  <2> QED
    BY <2>1, <2>2
<1> QED
  BY <1>1, <1>2, <1>3, <1>4

LEMMA PrefixBegins ==
    ASSUME NEW t \in Seq(AllPackets), NEW n \in 0..Len(t)
    PROVE  Begins(SubSeq(t, 1, n), t) /\ (n = Len(t) => SubSeq(t, 1, n) = t)
<1>1. Len(t) \in Nat
  OBVIOUS
<1> QED
  BY <1>1 DEF Begins

LEMMA ConcatSplits ==
    ASSUME NEW a \in Seq(AllPackets), NEW b \in Seq(AllPackets)
    PROVE  /\ a \o b \in Seq(AllPackets)
           /\ a = <<>> => a \o b = b
           /\ a # <<>> => Head(a \o b) = Head(a) /\ Tail(a \o b) = Tail(a) \o b
<1>1. Len(a) \in Nat /\ Len(b) \in Nat
  OBVIOUS
<1>2. a \o b \in Seq(AllPackets) /\ (a = <<>> => a \o b = b)
  OBVIOUS
<1>3. ASSUME a # <<>> PROVE Head(a \o b) = Head(a) /\ Tail(a \o b) = Tail(a) \o b
  <2>1. Len(a) >= 1
    BY <1>1, <1>3
  <2>2. Head(a \o b) = Head(a)
    BY <2>1
  <2>3. Tail(a) \in Seq(AllPackets) /\ Tail(a \o b) \in Seq(AllPackets) /\ Tail(a) \o b \in Seq(AllPackets)
    BY <2>1
  <2>4. Len(Tail(a \o b)) = Len(a) + Len(b) - 1 /\ Len(Tail(a) \o b) = Len(a) + Len(b) - 1
    BY <2>1
  <2>5. ASSUME NEW i \in 1..(Len(a) + Len(b) - 1) PROVE Tail(a \o b)[i] = (Tail(a) \o b)[i]
    BY <2>1
  <2> QED
    BY <2>2, <2>3, <2>4, <2>5
<1> QED
  BY <1>2, <1>3

LEMMA AcksKnown ==
    ASSUME NEW q \in PullRequests
    PROVE  /\ AcksOf(q) \in Seq(AckPackets(q))
           /\ {AcksOf(q)[i].value : i \in 1..Len(AcksOf(q))} = Shared(q)
<1> DEFINE S == AckPackets(q)
           f == AcksOf(q)
<1>1. IsFiniteSet(Shared(q))
  BY PullAssumption, FS_Subset DEF Shared
<1>2. IsFiniteSet(S)
  <2> DEFINE g == [h \in Shared(q) |-> Packet("ack", h)]
  <2>1. g \in Surjection(Shared(q), S)
    BY DEF Surjection, AckPackets
  <2> QED
    BY <1>1, <2>1, FS_Surjection
<1>3. /\ f \in [1..Cardinality(S) -> S] /\ IsInjective(f)
  <2>1. PICK g \in Bijection(1..Cardinality(S), S) : TRUE
    BY <1>2, FS_CardinalityType DEF ExistsBijection
  <2>2. g \in [1..Cardinality(S) -> S] /\ IsInjective(g)
    BY <2>1 DEF Bijection, Injection
  <2> QED
    BY <2>2 DEF AcksOf, SetToSeq, AckPackets
<1>4. Cardinality(S) \in Nat
  BY <1>2, FS_CardinalityType
<1>5. f \in Seq(S) /\ Len(f) = Cardinality(S)
  BY <1>3, <1>4
<1>6. f \in Surjection(1..Cardinality(S), S)
  <2>1. IsFiniteSet(1..Cardinality(S)) /\ Cardinality(1..Cardinality(S)) = Cardinality(S)
    BY <1>4, FS_Interval
  <2>2. f \in Injection(1..Cardinality(S), S)
    BY <1>3 DEF Injection
  <2> QED
    BY <1>2, <2>1, <2>2, FS_Injection
<1>7. \A p \in S : \E i \in 1..Len(f) : f[i] = p
  BY <1>5, <1>6 DEF Surjection
<1>8. \A i \in 1..Len(f) : f[i] \in S
  BY <1>3, <1>5
<1>9. {f[i].value : i \in 1..Len(f)} = Shared(q)
  <2>1. ASSUME NEW i \in 1..Len(f) PROVE f[i].value \in Shared(q)
    <3>1. PICK h \in Shared(q) : f[i] = [line |-> "ack", value |-> h]
      BY <1>8 DEF AckPackets, Packet
    <3> QED
      BY <3>1
  <2>2. ASSUME NEW h \in Shared(q) PROVE \E i \in 1..Len(f) : f[i].value = h
    <3>1. PICK i \in 1..Len(f) : f[i] = [line |-> "ack", value |-> h]
      BY <1>7 DEF AckPackets, Packet
    <3> QED
      BY <3>1
  <2> HIDE DEF f
  <2> QED
    BY <2>1, <2>2
<1> QED
  BY <1>5, <1>9

LEMMA OneThen ==
    ASSUME NEW x \in AllPackets, NEW u \in Seq(AllPackets)
    PROVE  /\ <<x>> \o u \in Seq(AllPackets) /\ <<x>> \o u # <<>>
           /\ Head(<<x>> \o u) = x /\ Tail(<<x>> \o u) = u
<1>1. <<x>> \in Seq(AllPackets) /\ <<x>> # <<>> /\ Head(<<x>>) = x /\ Tail(<<x>>) = <<>>
  OBVIOUS
<1>2. <<>> \o u = u /\ Len(<<x>> \o u) = 1 + Len(u) /\ Len(u) \in Nat
  OBVIOUS
<1> QED
  BY <1>1, <1>2, ConcatSplits

LEMMA TwoThen ==
    ASSUME NEW x \in AllPackets, NEW y \in AllPackets, NEW u \in Seq(AllPackets)
    PROVE  /\ <<x, y>> \o u = <<x>> \o (<<y>> \o u)
           /\ <<x, y>> \o u \in Seq(AllPackets) /\ <<x, y>> \o u # <<>>
           /\ Head(<<x, y>> \o u) = x /\ Tail(<<x, y>> \o u) = <<y>> \o u
<1>1. <<x, y>> = <<x>> \o <<y>>
  <2>1. <<x>> \in Seq(AllPackets) /\ <<y>> \in Seq(AllPackets) /\ <<x, y>> \in Seq(AllPackets)
    OBVIOUS
  <2>2. /\ <<x>> \o <<y>> \in Seq(AllPackets) /\ Len(<<x>> \o <<y>>) = 2
        /\ (<<x>> \o <<y>>)[1] = x /\ (<<x>> \o <<y>>)[2] = y
    BY <2>1
  <2>3. Len(<<x, y>>) = 2 /\ <<x, y>>[1] = x /\ <<x, y>>[2] = y
    OBVIOUS
  <2>4. \A i \in 1..2 : <<x, y>>[i] = (<<x>> \o <<y>>)[i]
    BY <2>2, <2>3
  <2> QED
    BY <2>1, <2>2, <2>3, <2>4, SeqEqual
<1>2. <<x, y>> \o u = <<x>> \o (<<y>> \o u)
  BY <1>1
<1> QED
  BY <1>2, OneThen

PackSection == <<Line("packfile")>> \o PackPackets

EndsV1(q) ==
    IF q.more THEN {<<Line("nak")>>}
    ELSE {<<Line("nak")>> \o PackPackets}
         \cup {<<Packet("lastAck", h)>> \o PackPackets : h \in Shared(q)}

EndsV2(q) ==
    {<<Flush>>, <<Line("nak")>> \o <<Flush>>}
    \cup IF Shared(q) = {} THEN {}
         ELSE {<<Line("ready")>> \o (<<Delim>> \o PackSectionsV2(q)), <<Delim>> \o PackSectionsV2(q)}

(* A packfile may follow the acknowledgements got.                         *)
Based(q, got) == q.more /\ q.have # {} => got # {}

(* The rest t of a response to q acknowledges what was not in got and then *)
(* has one of the ends.                                                    *)
Acked(t, q, got, ends) ==
    \E a \in Seq(AckPackets(q)), end \in ends :
        /\ t = a \o end
        /\ got \cup {a[i].value : i \in 1..Len(a)} = Shared(q)

(* What is left to be read of the whole response to q in a stage.          *)
Left(s, t, q, got) ==
    /\ s = "shallow" =>
         \E u : /\ Acked(u, q, got, EndsV1(q))
                /\ t = <<Flush>> \o u \/ t = <<Line("shallow")>> \o (<<Flush>> \o u)
    /\ s = "acks" => Acked(t, q, got, EndsV1(q))
    /\ s = "first" =>
         \/ t = PackSectionsV2(q) /\ Based(q, got)
         \/ q.more /\ \E u : Acked(u, q, got, EndsV2(q)) /\ t = <<Line("acknowledgments")>> \o u
    /\ s = "acksV2" => q.more /\ Acked(t, q, got, EndsV2(q))
    /\ s = "second" => t = PackSectionsV2(q) /\ Based(q, got)
    /\ s = "shallowV2" =>
         /\ Based(q, got)
         /\ t = <<Delim>> \o PackSection \/ t = <<Line("shallow")>> \o (<<Delim>> \o PackSection)
    /\ s = "third" => t = PackSection /\ Based(q, got)

(* What is left of a pack after k packets.                                 *)
Rest(k) == SubSeq(PackPackets, k + 1, Len(PackPackets))

LEMMA PackPacketsKnown ==
    /\ PackPackets \in Seq(AllPackets) /\ Len(PackPackets) = Len(PackData) + 1
    /\ \A i \in DOMAIN PackData :
         PackPackets[i] = IF PackData[i] = 0 THEN Line("progress") ELSE Packet("chunk", i)
    /\ PackPackets[Len(PackData) + 1] = Flush
<1> DEFINE m == [i \in DOMAIN PackData |->
                    IF PackData[i] = 0 THEN Line("progress") ELSE Packet("chunk", i)]
<1>1. DOMAIN PackData = 1..Len(PackData) /\ Len(PackData) \in Nat
  BY PullAssumption
<1>2. \A i \in DOMAIN PackData : m[i] \in AllPackets
  BY DEF Line, Packet, AllPackets, Lines
<1>3. m \in Seq(AllPackets) /\ Len(m) = Len(PackData)
  <2>1. m \in [1..Len(PackData) -> AllPackets]
    BY <1>1, <1>2
  <2> HIDE DEF m
  <2> QED
    BY <1>1, <2>1
<1>4. Flush \in AllPackets
  BY DEF Flush, Line, Packet, AllPackets, Lines
<1>5. PackPackets = Append(m, Flush)
  BY DEF PackPackets
<1>6. \A i \in DOMAIN PackData : m[i] = IF PackData[i] = 0 THEN Line("progress") ELSE Packet("chunk", i)
  OBVIOUS
<1> HIDE DEF m
<1> QED
  BY <1>1, <1>3, <1>4, <1>5, <1>6

LEMMA RestNext ==
    ASSUME NEW k \in 0..Len(PackData)
    PROVE  /\ Rest(k) \in Seq(AllPackets) /\ Rest(k) # <<>> /\ Rest(0) = PackPackets
           /\ \/ /\ k + 1 \in DOMAIN PackData /\ Tail(Rest(k)) = Rest(k + 1)
                 /\ IF PackData[k + 1] = 0 THEN Head(Rest(k)).line = "progress"
                    ELSE Head(Rest(k)).line = "chunk" /\ Head(Rest(k)).value = k + 1
              \/ k = Len(PackData) /\ Head(Rest(k)).line = "flush"
<1> DEFINE P == PackPackets
           L == Len(PackData)
<1>1. /\ P \in Seq(AllPackets) /\ Len(P) = L + 1 /\ L \in Nat /\ k \in Nat
      /\ DOMAIN PackData = 1..L
  BY PackPacketsKnown, PullAssumption
<1>2. \A j \in 0..L : Rest(j) = SubSeq(P, j + 1, L + 1)
  BY <1>1 DEF Rest
<1>3. P[k + 1] = IF k = L THEN Flush
                 ELSE IF PackData[k + 1] = 0 THEN Line("progress") ELSE Packet("chunk", k + 1)
  <2>1. CASE k = L
    BY <2>1, PackPacketsKnown
  <2>2. CASE k # L
    <3>1. k + 1 \in DOMAIN PackData
      <4>1. Len(PackData) \in Nat /\ k \in 0..Len(PackData) /\ k # Len(PackData)
            /\ DOMAIN PackData = 1..Len(PackData)
        BY <1>1, <2>2
      <4> HIDE DEF L
      <4> DEFINE M == Len(PackData)
                 D == DOMAIN PackData
      <4>2. M \in Nat /\ k \in 0..M /\ k # M /\ D = 1..M
        BY <4>1
      <4> HIDE DEF M, D
      <4>3. k + 1 \in D
        BY ONLY <4>2
      <4> QED
        BY <4>3 DEF D
    <3> QED
      BY <2>2, <3>1, PackPacketsKnown
  <2> QED
    BY <2>1, <2>2
<1> HIDE DEF P, L
<1>4. ASSUME NEW j \in 0..L
      PROVE  /\ Rest(j) \in Seq(AllPackets) /\ Len(Rest(j)) = L + 1 - j
             /\ \A i \in 1 .. L + 1 - j : Rest(j)[i] = P[j + i]
  <2>1. Rest(j) = SubSeq(P, j + 1, L + 1)
    BY <1>2 DEF L
  <2> QED
    BY ONLY <1>1, <2>1, <1>4
<1>5. Rest(0) = P
  <2>1. Rest(0) = SubSeq(P, 1, L + 1)
    BY <1>1, <1>2
  <2> QED
    BY ONLY <1>1, <2>1
<1>6. k \in 0..L
  BY DEF L
<1>7. Rest(k) \in Seq(AllPackets) /\ Rest(k) # <<>> /\ Head(Rest(k)) = P[k + 1]
  BY <1>1, <1>4, <1>6
<1>8. CASE k = L
  BY <1>3, <1>4, <1>5, <1>7, <1>8 DEF P, L, Flush, Line, Packet
<1>9. CASE k # L
  <2>1. Tail(Rest(k)) = Rest(k + 1)
    <3>1. k + 1 \in 0..L
      BY <1>1, <1>6, <1>9
    <3>2. /\ Rest(k + 1) \in Seq(AllPackets) /\ Len(Rest(k + 1)) = L - k
          /\ \A i \in 1 .. L - k : Rest(k + 1)[i] = P[k + 1 + i]
      <4>1. /\ Rest(k + 1) \in Seq(AllPackets) /\ Len(Rest(k + 1)) = L + 1 - (k + 1)
            /\ \A i \in 1 .. L + 1 - (k + 1) : Rest(k + 1)[i] = P[(k + 1) + i]
        BY ONLY <1>4, <3>1
      <4>2. L + 1 - (k + 1) = L - k
        BY ONLY <1>1
      <4> QED
        BY <4>1, <4>2
    <3>3. /\ Tail(Rest(k)) \in Seq(AllPackets) /\ Len(Tail(Rest(k))) = L - k
          /\ \A i \in 1 .. L - k : Tail(Rest(k))[i] = Rest(k)[i + 1]
      BY ONLY <1>1, <1>4, <1>6, <1>7
    <3>4. \A i \in 1 .. L - k : Tail(Rest(k))[i] = Rest(k + 1)[i]
      BY ONLY <1>1, <1>4, <1>6, <3>2, <3>3
    <3> QED
      BY ONLY <3>2, <3>3, <3>4, SeqEqual
  <2>2. k + 1 \in DOMAIN PackData
    BY <1>1, <1>6, <1>9
  <2>3. P[k + 1] = IF PackData[k + 1] = 0 THEN Line("progress") ELSE Packet("chunk", k + 1)
    BY <1>3, <1>9
  <2>4. Line("progress").line = "progress" /\ Packet("chunk", k + 1).line = "chunk"
        /\ Packet("chunk", k + 1).value = k + 1
    BY DEF Line, Packet
  <2>5. IF PackData[k + 1] = 0 THEN Head(Rest(k)).line = "progress"
        ELSE Head(Rest(k)).line = "chunk" /\ Head(Rest(k)).value = k + 1
    BY <1>7, <2>3, <2>4
  <2> QED
    BY <1>5, <1>7, <2>1, <2>2, <2>5 DEF P
<1> QED
  BY <1>8, <1>9

LEMMA PacketsKnown ==
    /\ \A l \in Lines : Line(l) \in AllPackets /\ Line(l).line = l
    /\ \A l \in Lines, h \in Haves :
         Packet(l, h) \in AllPackets /\ Packet(l, h).line = l /\ Packet(l, h).value = h
    /\ Flush = Line("flush") /\ Delim = Line("delim")
    /\ PackPackets \in Seq(AllPackets)
    /\ PackSection \in Seq(AllPackets)
    /\ \A q \in PullRequests : Shared(q) \subseteq Haves /\ AckPackets(q) \subseteq AllPackets
<1>1. \A l \in Lines : Line(l) \in AllPackets /\ Line(l).line = l
  BY DEF Line, Packet, AllPackets, Lines
<1>2. \A l \in Lines, h \in Haves :
         Packet(l, h) \in AllPackets /\ Packet(l, h).line = l /\ Packet(l, h).value = h
  BY DEF Packet, AllPackets, Lines
<1>3. Flush = Line("flush") /\ Delim = Line("delim")
  BY DEF Flush, Delim
<1>4. Line("packfile") \in AllPackets
  BY DEF Line, Packet, AllPackets, Lines
<1>5. PackPackets \in Seq(AllPackets)
  BY PackPacketsKnown
<1>6. PackSection \in Seq(AllPackets)
  BY <1>4, <1>5, OneThen DEF PackSection
<1>7. ASSUME NEW q \in PullRequests PROVE Shared(q) \subseteq Haves /\ AckPackets(q) \subseteq AllPackets
  <2>1. Shared(q) \subseteq Haves
    BY DEF Shared, PullRequests
  <2>2. \A h \in Shared(q) : Packet("ack", h) \in AllPackets
    BY <2>1 DEF Packet, AllPackets, Lines
  <2> QED
    BY <2>1, <2>2 DEF AckPackets
<1> QED
  BY <1>1, <1>2, <1>3, <1>5, <1>6, <1>7

LEMMA SectionsKnown ==
    ASSUME NEW q \in PullRequests
    PROVE  /\ PackSectionsV2(q) \in Seq(AllPackets)
           /\ \/ PackSectionsV2(q) = PackSection
              \/ PackSectionsV2(q) =
                   <<Line("shallow-info")>> \o (<<Line("shallow")>> \o (<<Delim>> \o PackSection))
<1>1. CASE q.deepen = "no"
  BY <1>1, PacketsKnown DEF PackSectionsV2, PackSection
<1>2. CASE q.deepen # "no"
  <2> DEFINE i == Line("shallow-info")
             s == Line("shallow")
  <2>1. i \in AllPackets /\ s \in AllPackets /\ Delim \in AllPackets /\ PackSection \in Seq(AllPackets)
    BY PacketsKnown DEF Line, Packet, AllPackets, Delim, Lines
  <2>2. PackSectionsV2(q) = ((<<i>> \o <<s>>) \o <<Delim>>) \o PackSection
    BY <1>2, PacketsKnown DEF PackSectionsV2, ShallowLines, PackSection
  <2> HIDE DEF i, s
  <2>3. PackSectionsV2(q) = <<i>> \o (<<s>> \o (<<Delim>> \o PackSection))
    BY <2>1, <2>2
  <2>4. PackSectionsV2(q) \in Seq(AllPackets)
    BY <2>1, <2>3
  <2> QED
    BY <2>3, <2>4 DEF i, s
<1> QED
  BY <1>1, <1>2

LEMMA EndsKnown ==
    ASSUME NEW q \in PullRequests
    PROVE  /\ \A end \in EndsV1(q) : end \in Seq(AllPackets) /\ end # <<>>
           /\ \A end \in EndsV2(q) : end \in Seq(AllPackets) /\ end # <<>>
<1> USE DEF Lines
<1>1. /\ Line("nak") \in AllPackets /\ Flush \in AllPackets /\ Delim \in AllPackets
      /\ Line("ready") \in AllPackets /\ PackPackets \in Seq(AllPackets)
      /\ PackSectionsV2(q) \in Seq(AllPackets)
      /\ \A h \in Shared(q) : Packet("lastAck", h) \in AllPackets
  BY PacketsKnown, SectionsKnown DEF Line, Packet, AllPackets, Flush, Delim
<1>2. <<Line("nak")>> \in Seq(AllPackets) /\ <<Flush>> \in Seq(AllPackets)
      /\ <<Line("nak")>> # <<>> /\ <<Flush>> # <<>>
  BY <1>1
<1>3. \A end \in EndsV1(q) : end \in Seq(AllPackets) /\ end # <<>>
  <2>1. \A h \in Shared(q) : LET end == <<Packet("lastAck", h)>> \o PackPackets
                             IN  end \in Seq(AllPackets) /\ end # <<>>
    BY <1>1, OneThen
  <2>2. <<Line("nak")>> \o PackPackets \in Seq(AllPackets) /\ <<Line("nak")>> \o PackPackets # <<>>
    BY <1>1, OneThen
  <2> QED
    BY <1>2, <2>1, <2>2 DEF EndsV1
<1>4. <<Delim>> \o PackSectionsV2(q) \in Seq(AllPackets) /\ <<Delim>> \o PackSectionsV2(q) # <<>>
  BY <1>1, OneThen
<1>5. \A end \in EndsV2(q) : end \in Seq(AllPackets) /\ end # <<>>
  BY <1>1, <1>2, <1>4, OneThen DEF EndsV2
<1> QED
  BY <1>3, <1>5

LEMMA AckNext ==
    ASSUME NEW q \in PullRequests, NEW got, NEW ends, NEW t, Acked(t, q, got, ends),
           got \subseteq Shared(q),
           \A end \in ends : end \in Seq(AllPackets) /\ end # <<>>
    PROVE  /\ t \in Seq(AllPackets) /\ t # <<>>
           /\ \/ /\ \E h \in Shared(q) : Head(t) = Packet("ack", h)
                 /\ Acked(Tail(t), q, got \cup {Head(t).value}, ends)
              \/ t \in ends /\ got = Shared(q)
<1>1. PICK a \in Seq(AckPackets(q)), end \in ends :
        t = a \o end /\ got \cup {a[i].value : i \in 1..Len(a)} = Shared(q)
  BY DEF Acked
<1>2. a \in Seq(AllPackets) /\ end \in Seq(AllPackets) /\ end # <<>>
  BY PacketsKnown, SeqMonotonic
<1>3. t \in Seq(AllPackets) /\ t # <<>>
  BY <1>1, <1>2, ConcatProperties, EmptySeq
<1>4. CASE a = <<>>
  <2>1. t = end
    BY <1>1, <1>2, <1>4, ConcatSplits
  <2>2. {a[i].value : i \in 1..Len(a)} = {}
    BY <1>4
  <2> QED
    BY <1>1, <1>3, <2>1, <2>2
<1>5. CASE a # <<>>
  <2>1. Head(t) = Head(a) /\ Tail(t) = Tail(a) \o end
    BY <1>1, <1>2, <1>5, ConcatSplits
  <2>2. Len(a) \in Nat \ {0} /\ Head(a) = a[1] /\ a[1] \in AckPackets(q)
    BY <1>5, EmptySeq
  <2>3. PICK h \in Shared(q) : Head(t) = Packet("ack", h)
    BY <2>1, <2>2 DEF AckPackets
  <2>4. Tail(a) \in Seq(AckPackets(q)) /\ Len(Tail(a)) = Len(a) - 1
        /\ \A i \in 1..Len(Tail(a)) : Tail(a)[i] = a[i + 1]
    BY <1>5, HeadTailProperties
  <2>5. ASSUME NEW i \in 1..Len(a) PROVE i = 1 \/ a[i].value \in {Tail(a)[j].value : j \in 1..Len(Tail(a))}
    <3>1. CASE i # 1
      <4>1. i - 1 \in 1..Len(Tail(a)) /\ (i - 1) + 1 = i
        BY <2>2, <2>4, <3>1
      <4> QED
        BY <2>4, <4>1
    <3> QED
      BY <3>1
  <2>6. ASSUME NEW j \in 1..Len(Tail(a)) PROVE Tail(a)[j].value \in {a[i].value : i \in 1..Len(a)}
    <3>1. j + 1 \in 1..Len(a)
      BY <2>2, <2>4
    <3> QED
      BY <2>4, <3>1
  <2>7. {a[i].value : i \in 1..Len(a)} = {a[1].value} \cup {Tail(a)[j].value : j \in 1..Len(Tail(a))}
    <3>1. 1 \in 1..Len(a)
      BY <2>2
    <3> QED
      BY <2>5, <2>6, <3>1
  <2>8. (got \cup {Head(t).value}) \cup {Tail(a)[j].value : j \in 1..Len(Tail(a))} = Shared(q)
    BY <1>1, <2>1, <2>2, <2>7
  <2>9. Acked(Tail(t), q, got \cup {Head(t).value}, ends)
    BY <2>1, <2>4, <2>8 DEF Acked
  <2> QED
    BY <1>3, <2>3, <2>9
<1> QED
  BY <1>4, <1>5

LEMMA SectionNext ==
    ASSUME NEW q \in PullRequests, NEW got, got \subseteq Shared(q), NEW t,
           NEW s \in {"first", "second", "third"}, Left(s, t, q, got)
    PROVE  /\ t \in Seq(AllPackets) /\ t # <<>>
           /\ \/ s = "first" /\ Head(t) = Line("acknowledgments") /\ Left("acksV2", Tail(t), q, got)
              \/ s # "third" /\ Head(t) = Line("shallow-info") /\ Left("shallowV2", Tail(t), q, got)
              \/ Head(t) = Line("packfile") /\ Tail(t) = PackPackets /\ Based(q, got)
<1> USE DEF Lines
<1>1. /\ Line("acknowledgments") \in AllPackets /\ Line("shallow-info") \in AllPackets
      /\ Line("packfile") \in AllPackets /\ Line("shallow") \in AllPackets /\ Delim \in AllPackets
      /\ PackPackets \in Seq(AllPackets) /\ PackSection \in Seq(AllPackets)
  BY PacketsKnown DEF Line, Packet, AllPackets, Delim
<1>2. CASE t = PackSection /\ Based(q, got)
  BY <1>1, <1>2, OneThen DEF PackSection
<1>3. CASE /\ s # "third" /\ Based(q, got)
           /\ t = <<Line("shallow-info")>> \o (<<Line("shallow")>> \o (<<Delim>> \o PackSection))
  <2> DEFINE u == <<Line("shallow")>> \o (<<Delim>> \o PackSection)
  <2>1. u \in Seq(AllPackets)
    BY <1>1, OneThen
  <2>2. Left("shallowV2", u, q, got)
    BY <1>3 DEF Left
  <2>3. t = <<Line("shallow-info")>> \o u
    BY <1>3
  <2> HIDE DEF u
  <2>4. t \in Seq(AllPackets) /\ t # <<>> /\ Head(t) = Line("shallow-info") /\ Tail(t) = u
    BY <1>1, <2>1, <2>3, OneThen
  <2> QED
    BY <1>3, <2>2, <2>4
<1>4. ASSUME s = "first", q.more, NEW u, Acked(u, q, got, EndsV2(q)), t = <<Line("acknowledgments")>> \o u
      PROVE  /\ t \in Seq(AllPackets) /\ t # <<>>
             /\ Head(t) = Line("acknowledgments") /\ Left("acksV2", Tail(t), q, got)
  <2>1. u \in Seq(AllPackets)
    BY <1>4, EndsKnown, AckNext
  <2>2. Left("acksV2", u, q, got)
    BY <1>4 DEF Left
  <2> QED
    BY <1>1, <1>4, <2>1, <2>2, OneThen
<1>5. CASE s = "first"
  <2>1. \/ t = PackSectionsV2(q) /\ Based(q, got)
        \/ q.more /\ \E u : Acked(u, q, got, EndsV2(q)) /\ t = <<Line("acknowledgments")>> \o u
    BY <1>5 DEF Left
  <2> QED
    BY <1>2, <1>3, <1>4, <1>5, <2>1, SectionsKnown
<1>6. CASE s = "second"
  <2>1. t = PackSectionsV2(q) /\ Based(q, got)
    BY <1>6 DEF Left
  <2> QED
    BY <1>2, <1>3, <1>6, <2>1, SectionsKnown
<1>7. CASE s = "third"
  BY <1>2, <1>7 DEF Left
<1> QED
  BY <1>5, <1>6, <1>7

LEMMA ResponseKnown ==
    ASSUME NEW q \in PullRequests, NEW full \in Responses(q), ~ServerRefuses(q),
           (session = "v1" /\ proto = 1) \/ (session = "v2" /\ proto = 2)
    PROVE  full \in Seq(AllPackets) /\ Left(FirstStage(q), full, q, {})
<1> USE DEF Lines
<1> DEFINE A == AcksOf(q)
<1>1. A \in Seq(AckPackets(q)) /\ A \in Seq(AllPackets)
      /\ {A[i].value : i \in 1..Len(A)} = Shared(q)
  BY AcksKnown, PacketsKnown, SeqMonotonic
<1>2. /\ Line("nak") \in AllPackets /\ Flush \in AllPackets /\ Delim \in AllPackets
      /\ Line("shallow") \in AllPackets /\ Line("acknowledgments") \in AllPackets
      /\ Line("ready") \in AllPackets /\ PackPackets \in Seq(AllPackets)
      /\ PackSectionsV2(q) \in Seq(AllPackets)
  BY PacketsKnown, SectionsKnown DEF Line, Packet, AllPackets, Flush, Delim
<1>3. ASSUME NEW end, NEW ends, end \in ends PROVE Acked(A \o end, q, {}, ends)
  BY <1>1, <1>3 DEF Acked
<1> HIDE DEF A
<1>4. CASE session = "v1" /\ proto = 1
  <2> DEFINE B == IF q.more THEN <<Line("nak")>>
                  ELSE (IF Shared(q) = {} THEN <<Line("nak")>>
                        ELSE <<Packet("lastAck", CHOOSE h \in Shared(q) : TRUE)>>) \o PackPackets
  <2>1. B \in EndsV1(q)
    <3>1. Shared(q) # {} => (CHOOSE h \in Shared(q) : TRUE) \in Shared(q)
      OBVIOUS
    <3> QED
      BY <3>1 DEF EndsV1
  <2>2. B \in Seq(AllPackets)
    BY <2>1, EndsKnown
  <2>3. A \o B \in Seq(AllPackets) /\ Acked(A \o B, q, {}, EndsV1(q))
    BY <1>1, <1>3, <2>1, <2>2, ConcatProperties
  <2>4. full = (IF q.deepen = "no" THEN <<>> ELSE ShallowLines(q) \o <<Flush>>) \o A \o B
    BY <1>4 DEF Responses, ResponseV1, A
  <2> HIDE DEF B
  <2>5. CASE q.deepen = "no"
    <3>1. full = A \o B
      BY <1>1, <2>4, <2>5, ConcatEmptySeq
    <3>2. FirstStage(q) = "acks"
      BY <1>4, <2>5 DEF FirstStage
    <3> QED
      BY <2>3, <3>1, <3>2 DEF Left
  <2>6. CASE q.deepen # "no"
    <3>1. full = ((<<Line("shallow")>> \o <<Flush>>) \o A) \o B
      BY <2>4, <2>6 DEF ShallowLines
    <3>2. <<Line("shallow")>> \in Seq(AllPackets) /\ <<Flush>> \in Seq(AllPackets)
      BY <1>2
    <3>3. full = <<Line("shallow")>> \o (<<Flush>> \o (A \o B))
      BY <1>1, <2>2, <3>1, <3>2, ConcatAssociative, ConcatProperties
    <3>4. full \in Seq(AllPackets)
      BY <1>2, <2>3, <3>3, OneThen
    <3>5. FirstStage(q) = "shallow"
      BY <1>4, <2>6 DEF FirstStage
    <3> QED
      BY <2>3, <3>3, <3>4, <3>5 DEF Left
  <2> QED
    BY <2>5, <2>6
<1>5. CASE session = "v2" /\ proto = 2
  <2>1. FirstStage(q) = "first"
    BY <1>5 DEF FirstStage
  <2>2. PICK ready \in {FALSE, Shared(q) # {}} : full = ResponseV2(q, ready)
    <3>1. proto # 1
      BY <1>5
    <3>2. Responses(q) = {ResponseV2(q, ready) : ready \in {FALSE, Shared(q) # {}}}
      BY <3>1, Zenon DEF Responses
    <3> QED
      BY <3>2, Zenon
  <2>3. CASE ~q.more \/ q.have = {}
    <3>1. full = PackSectionsV2(q)
      BY <2>2, <2>3 DEF ResponseV2
    <3> QED
      BY <1>2, <2>1, <2>3, <3>1 DEF Left, Based
  <2>4. CASE q.more /\ q.have # {}
    <3> DEFINE k == <<Line("acknowledgments")>>
               N == Nak(q)
               E == IF ready THEN <<Line("ready"), Delim>> \o PackSectionsV2(q) ELSE <<Flush>>
    <3>1. full = ((k \o A) \o N) \o E
      BY <2>2, <2>4 DEF ResponseV2, A
    <3>2. k \in Seq(AllPackets) /\ N \in Seq(AllPackets)
      BY <1>2 DEF Nak
    <3>3. E = (IF ready THEN <<Line("ready")>> \o (<<Delim>> \o PackSectionsV2(q)) ELSE <<Flush>>)
      BY <1>2, TwoThen
    <3>4. E \in EndsV2(q) /\ E \in Seq(AllPackets)
      BY <2>2, <3>3, EndsKnown DEF EndsV2
    <3>5. N \o E \in EndsV2(q)
      <4>1. CASE Shared(q) = {}
        BY <2>2, <4>1 DEF Nak, EndsV2
      <4>2. CASE Shared(q) # {}
        <5>1. N = <<>>
          BY <4>2 DEF Nak
        <5> QED
          BY <3>4, <5>1, ConcatEmptySeq
      <4> QED
        BY <4>1, <4>2
    <3> HIDE DEF k, N, E
    <3>6. full = k \o (A \o (N \o E))
      <4>1. ASSUME NEW a \in Seq(AllPackets), NEW b \in Seq(AllPackets),
                   NEW c \in Seq(AllPackets), NEW d \in Seq(AllPackets),
                   a = k, b = A, c = N, d = E
            PROVE  full = k \o (A \o (N \o E))
        <5>1. full = ((a \o b) \o c) \o d
          BY <3>1, <4>1
        <5>2. ((a \o b) \o c) \o d = (a \o b) \o (c \o d)
          OBVIOUS
        <5>3. (a \o b) \o (c \o d) = a \o (b \o (c \o d))
          OBVIOUS
        <5>4. full = a \o (b \o (c \o d))
          BY <5>1, <5>2, <5>3
        <5> QED
          BY <4>1, <5>4
      <4> QED
        BY <1>1, <3>2, <3>4, <4>1
    <3>7. full \in Seq(AllPackets)
      BY <1>1, <3>2, <3>4, <3>6, ConcatProperties
    <3>8. Acked(A \o (N \o E), q, {}, EndsV2(q))
      BY <1>3, <3>5
    <3> QED
      BY <2>1, <2>4, <3>6, <3>7, <3>8 DEF Left, k
  <2> QED
    BY <2>3, <2>4
<1> QED
  BY <1>4, <1>5

(* The packets not yet read begin t, and are all of t if nothing is cut; a  *)
(* server that fails says so after them.                                   *)
Follows(t) ==
    \/ fault # "failed" /\ Begins(wire, t) /\ (fault = "none" => wire = t)
    \/ fault = "failed" /\ \E w : Begins(w, t) /\ wire = Append(w, Line("fatal"))

(* While Negotiate reads, the response is the server's error, or what is   *)
(* left of it begins something that completes it.                          *)
WireKnown ==
    stage # "idle" =>
        /\ req \in PullRequests /\ result = "none" /\ ~pack.held
        /\ \/ /\ fault = "refused" /\ stage \in {"shallow", "acks", "first"}
              /\ wire # <<>> => Head(wire) = Line("ERR")
           \/ /\ fault \in {"none", "cut", "failed"} /\ acks \subseteq Shared(req)
              /\ \E t : Left(stage, t, req, acks) /\ Follows(t)

Packs == [held : BOOLEAN, at : 0..Len(PackData), curr : Nat, got : [DOMAIN PackData -> Nat],
          err : {"none", "EOF", "error"}]
PackTypes == pack \in Packs

(* Of the first k packets all data is read or waits in the reader, of the  *)
(* later ones none.                                                        *)
ReadOf(p, k) ==
    /\ p.curr > 0 => p.at \in 1..k
    /\ \A i \in DOMAIN PackData :
         p.got[i] + (IF i = p.at THEN p.curr ELSE 0) = IF i <= k THEN PackData[i] ELSE 0

PackKnown ==
    /\ PackTypes
    /\ ~pack.held => pack.err = "none"
    /\ pack.held /\ pack.err = "none" =>
         /\ stage = "idle" /\ fault # "refused"
         /\ \E k \in 0..Len(PackData) : Follows(Rest(k)) /\ ReadOf(pack, k)
    /\ pack.held => stage = "idle"

ReadInv ==
    WireKnown /\ PackKnown /\ EOFMeansWholePack /\ AnswerIsSound /\ ResponseUnderstood

LEMMA AppendSplits ==
    ASSUME NEW w \in Seq(AllPackets), NEW x
    PROVE  /\ Append(w, x) # <<>>
           /\ w = <<>> => Head(Append(w, x)) = x
           /\ w # <<>> => /\ Head(Append(w, x)) = Head(w)
                          /\ Tail(Append(w, x)) = Append(Tail(w), x)
<1> DEFINE S == AllPackets \cup {x}
<1>1. w \in Seq(S) /\ x \in S
  BY SeqMonotonic
<1> HIDE DEF S
<1> QED
  BY ONLY <1>1, HeadTailProperties, AppendProperties, SeqEqual

(* What the packet reader shows of a response that can be completed.       *)
LEMMA NextKnown ==
    ASSUME NEW t \in Seq(AllPackets), Follows(t), t # <<>>, fault' = fault
    PROVE  /\ NextLine \in {"lost", "fatal"} \/ NextLine = Head(t).line
           /\ fault = "none" => NextLine = Head(t).line
           /\ NextLine \notin {"lost", "fatal"} => Head(wire) = Head(t)
           /\ NextLine \notin {"lost", "fatal"} /\ Takes => Follows(Tail(t))'
<1>1. CASE wire = <<>>
  <2>1. fault # "failed"
    <3>1. ASSUME NEW w, Begins(w, t), wire = Append(w, Line("fatal")) PROVE FALSE
      BY <1>1, <3>1, AppendSplits DEF Begins
    <3> QED
      BY <3>1 DEF Follows
  <2> QED
    BY <1>1, <2>1 DEF NextLine, Follows
<1>2. CASE wire # <<>> /\ fault # "failed"
  <2>1. Head(wire) = Head(t) /\ Begins(Tail(wire), Tail(t)) /\ NextLine = Head(wire).line
    BY <1>2, HeadBegins DEF Follows, NextLine
  <2>2. ASSUME Takes PROVE Follows(Tail(t))'
    <3>1. wire' = Tail(wire)
      BY <2>2 DEF Takes
    <3>2. fault' = "none" => wire' = Tail(t)
      BY <1>2, <3>1 DEF Follows
    <3>3. Begins(wire', Tail(t))
      BY <2>1, <3>1
    <3> QED
      BY <1>2, <3>2, <3>3 DEF Follows
  <2> QED
    BY <2>1, <2>2
<1>3. CASE fault = "failed"
  <2>1. PICK w : Begins(w, t) /\ wire = Append(w, Line("fatal"))
    BY <1>3 DEF Follows
  <2>2. w \in Seq(AllPackets) /\ wire # <<>> /\ NextLine = Head(wire).line
    BY <2>1, AppendSplits DEF Begins, NextLine
  <2>3. CASE w = <<>>
    <3>1. Head(wire) = Line("fatal")
      BY <2>1, <2>2, <2>3, AppendSplits
    <3>2. NextLine = "fatal"
      BY <2>2, <3>1 DEF Line, Packet
    <3> QED
      BY <1>3, <3>2
  <2>4. CASE w # <<>>
    <3>1. Head(wire) = Head(w) /\ Tail(wire) = Append(Tail(w), Line("fatal"))
      BY <2>1, <2>2, <2>4, AppendSplits
    <3>2. Head(w) = Head(t) /\ Begins(Tail(w), Tail(t))
      BY <2>1, <2>4, HeadBegins
    <3>3. ASSUME Takes PROVE Follows(Tail(t))'
      <4>1. wire' = Append(Tail(w), Line("fatal")) /\ fault' = "failed"
        BY <1>3, <3>1, <3>3 DEF Takes
      <4> QED
        BY <3>2, <4>1 DEF Follows
    <3> QED
      BY <1>3, <2>2, <3>1, <3>2, <3>3
  <2> QED
    BY <2>3, <2>4
<1> QED
  BY <1>1, <1>2, <1>3

(* The four ways a step of Negotiate ends.                                 *)
LEMMA FailsWell ==
    ASSUME ReadInv, stage # "idle", stage' = "idle", result' = "error", pack' = pack,
           fault' = fault, fault # "none"
    PROVE  ReadInv'
  BY DEF ReadInv, WireKnown, PackKnown, PackTypes, EOFMeansWholePack, AnswerIsSound, ResponseUnderstood

LEMMA EndsWell ==
    ASSUME ReadInv, stage # "idle", stage' = "idle", result' = "no pack", pack' = pack,
           req' = req, req.more, acks' = Shared(req)
    PROVE  ReadInv'
  BY DEF ReadInv, WireKnown, PackKnown, PackTypes, EOFMeansWholePack, AnswerIsSound, ResponseUnderstood,
         Shared

(* A packfileReader before its first Read.                                 *)
LEMMA PacksTyped ==
    /\ NoPack \in Packs /\ ~NoPack.held /\ NoPack.err = "none"
    /\ NewPack \in Packs /\ NewPack.held /\ NewPack.err = "none"
    /\ ReadOf(NewPack, 0)
<1> DEFINE Z == [i \in DOMAIN PackData |-> 0]
<1>1. Z \in [DOMAIN PackData -> Nat] /\ \A i \in DOMAIN PackData : Z[i] = 0
  OBVIOUS
<1>2. Len(PackData) \in Nat /\ DOMAIN PackData = 1..Len(PackData)
  BY PullAssumption
<1> HIDE DEF Z
<1>3. NoPack \in Packs /\ ~NoPack.held /\ NoPack.err = "none" /\ NoPack.got = Z /\ NoPack.curr = 0
  BY <1>1, <1>2 DEF NoPack, Packs, Z
<1>4. ASSUME NEW p \in Packs PROVE LET x == [p EXCEPT !.held = TRUE]
                                   IN  /\ x \in Packs /\ x.held
                                       /\ x.err = p.err /\ x.got = p.got /\ x.curr = p.curr
  BY DEF Packs
<1>5. /\ NewPack \in Packs /\ NewPack.held /\ NewPack.err = "none"
      /\ NewPack.got = Z /\ NewPack.curr = 0
  BY <1>3, <1>4 DEF NewPack
<1>6. ReadOf(NewPack, 0)
  BY <1>1, <1>2, <1>5 DEF ReadOf
<1> QED
  BY <1>3, <1>5, <1>6

LEMMA PacksWell ==
    ASSUME ReadInv, stage # "idle", stage' = "idle", result' = "pack", pack' = NewPack,
           req' = req, acks' \subseteq Shared(req), Based(req, acks'), fault' # "refused",
           Follows(PackPackets)'
    PROVE  ReadInv'
<1>1. /\ PackTypes' /\ pack'.held /\ pack'.err = "none"
  BY PacksTyped DEF PackTypes
<1>2. 0 \in 0..Len(PackData) /\ Rest(0) = PackPackets
  <2>1. Len(PackData) \in Nat
    BY PullAssumption
  <2>2. 0 \in 0..Len(PackData)
    BY <2>1
  <2> QED
    BY <2>2, RestNext
<1>3. Follows(Rest(0))' /\ ReadOf(pack', 0)
  <2>1. Follows(Rest(0))'
    BY <1>2
  <2> QED
    BY <2>1, PacksTyped
<1>4. PackKnown'
  BY <1>1, <1>2, <1>3 DEF PackKnown
<1> QED
  BY <1>1, <1>4 DEF ReadInv, WireKnown, EOFMeansWholePack, AnswerIsSound, ResponseUnderstood, Shared, Based

LEMMA GoesOn ==
    ASSUME ReadInv, stage # "idle", stage' # "idle", result' = result, pack' = pack, req' = req,
           acks' \subseteq Shared(req), fault' = fault, fault \in {"none", "cut", "failed"},
           NEW t, Left(stage', t, req, acks'), Follows(t)'
    PROVE  ReadInv'
<1>1. WireKnown'
  BY DEF ReadInv, WireKnown
<1> QED
  BY <1>1 DEF ReadInv, WireKnown, PackKnown, PackTypes, EOFMeansWholePack, AnswerIsSound, ResponseUnderstood

(* A server that refuses the request answers with its error alone.         *)
LEMMA RefusedReads ==
    ASSUME ReadInv, ReadResponse, fault = "refused"
    PROVE  ReadInv'
<1>1. /\ stage \in {"idle", "shallow", "acks", "first"}
      /\ stage # "idle" => NextLine \in {"ERR", "lost"}
  BY PacketsKnown DEF ReadInv, WireKnown, NextLine, Lines
<1>2. /\ stage # "idle" /\ stage' = "idle" /\ result' = "error" /\ pack' = pack /\ fault' = fault
  <2> USE <1>1 DEF Parses, NextIs, ReturnError, Unexpected
  <2>1. CASE ReadShallowV1
    BY <2>1 DEF ReadShallowV1
  <2>2. CASE ReadAckV1 \/ ReadLastAckV1 \/ ReadNakV1
    BY <2>2 DEF ReadAckV1, ReadLastAckV1, ReadNakV1
  <2>3. CASE ReadBadAckV1
    BY <2>3 DEF ReadBadAckV1
  <2>4. CASE ReadAckV2 \/ ReadShallowV2
    BY <2>4 DEF ReadAckV2, ReadShallowV2
  <2>5. ASSUME NEW s \in {"first", "second", "third"}, ReadSectionV2(s)
        PROVE  stage # "idle" /\ stage' = "idle" /\ result' = "error" /\ pack' = pack /\ fault' = fault
    BY <2>5 DEF ReadSectionV2
  <2> QED
    BY <2>1, <2>2, <2>3, <2>4, <2>5 DEF ReadResponse
<1> QED
  BY <1>2, FailsWell

LEMMA ReadsShallowV1 ==
    ASSUME ReadInv, ReadShallowV1, fault # "refused"
    PROVE  ReadInv'
<1> USE DEF Lines
<1>1. /\ stage = "shallow" /\ req \in PullRequests /\ fault \in {"none", "cut", "failed"}
      /\ acks \subseteq Shared(req) /\ UNCHANGED <<req, fault>>
  BY DEF ReadInv, WireKnown, ReadShallowV1, Parses
<1>2. PICK t : Left("shallow", t, req, acks) /\ Follows(t)
  BY <1>1 DEF ReadInv, WireKnown
<1>3. PICK u : /\ Acked(u, req, acks, EndsV1(req))
               /\ t = <<Flush>> \o u \/ t = <<Line("shallow")>> \o (<<Flush>> \o u)
  BY <1>2 DEF Left
<1>4. u \in Seq(AllPackets)
  BY <1>1, <1>3, EndsKnown, AckNext
<1>5. Flush \in AllPackets /\ Line("shallow") \in AllPackets /\ <<Flush>> \o u \in Seq(AllPackets)
      /\ Flush.line = "flush" /\ Line("shallow").line = "shallow"
  BY <1>4, PacketsKnown, OneThen
<1>6. /\ t \in Seq(AllPackets) /\ t # <<>>
      /\ \/ Head(t).line = "flush" /\ Left("acks", Tail(t), req, acks)
         \/ Head(t).line = "shallow" /\ Left("shallow", Tail(t), req, acks)
  <2>1. CASE t = <<Flush>> \o u
    BY <1>3, <1>4, <1>5, <2>1, OneThen DEF Left
  <2>2. CASE t = <<Line("shallow")>> \o (<<Flush>> \o u)
    <3>1. t \in Seq(AllPackets) /\ t # <<>> /\ Head(t) = Line("shallow") /\ Tail(t) = <<Flush>> \o u
      BY <1>5, <2>2, OneThen
    <3> QED
      BY <1>3, <1>5, <3>1 DEF Left
  <2> QED
    BY <1>3, <2>1, <2>2
<1>7. /\ NextLine \in {"lost", "fatal"} \/ NextLine = Head(t).line
      /\ fault = "none" => NextLine = Head(t).line
      /\ NextLine \notin {"lost", "fatal"} /\ Takes => Follows(Tail(t))'
  BY <1>1, <1>2, <1>6, NextKnown
<1>8. CASE NextIs("shallow") /\ Takes /\ KeepsReading /\ UNCHANGED stage
  BY <1>1, <1>6, <1>7, <1>8, GoesOn DEF NextIs, KeepsReading
<1>9. CASE NextIs("flush") /\ Takes /\ KeepsReading /\ stage' = "acks"
  BY <1>1, <1>6, <1>7, <1>9, GoesOn DEF NextIs, KeepsReading
<1>10. CASE Unexpected({"shallow", "flush"}) /\ ReturnError(open)
  BY <1>1, <1>6, <1>7, <1>10, FailsWell DEF Unexpected, ReturnError
<1> QED
  BY <1>8, <1>9, <1>10 DEF ReadShallowV1

LEMMA ReadsAcksV1 ==
    ASSUME ReadInv, ReadAckV1 \/ ReadLastAckV1 \/ ReadNakV1 \/ ReadBadAckV1, fault # "refused"
    PROVE  ReadInv'
<1> USE DEF Lines
<1>1. /\ stage = "acks" /\ req \in PullRequests /\ fault \in {"none", "cut", "failed"}
      /\ acks \subseteq Shared(req) /\ UNCHANGED <<req, fault>>
  BY DEF ReadInv, WireKnown, ReadAckV1, ReadLastAckV1, ReadNakV1, ReadBadAckV1, Parses
<1>2. PICK t : Left("acks", t, req, acks) /\ Follows(t)
  BY <1>1 DEF ReadInv, WireKnown
<1>3. Acked(t, req, acks, EndsV1(req))
  BY <1>2 DEF Left
<1>4. /\ t \in Seq(AllPackets) /\ t # <<>>
      /\ \/ /\ \E h \in Shared(req) : Head(t) = Packet("ack", h)
            /\ Acked(Tail(t), req, acks \cup {Head(t).value}, EndsV1(req))
         \/ t \in EndsV1(req) /\ acks = Shared(req)
  BY <1>1, <1>3, EndsKnown, AckNext
<1>5. /\ \A h \in Shared(req) : Packet("ack", h).line = "ack" /\ Packet("ack", h).value = h
      /\ \A h \in Shared(req) : /\ Packet("lastAck", h).line = "lastAck"
                                /\ Packet("lastAck", h).value = h
                                /\ Packet("lastAck", h) \in AllPackets
      /\ Line("nak") \in AllPackets /\ Line("nak").line = "nak"
      /\ PackPackets \in Seq(AllPackets)
  BY <1>1, PacketsKnown
<1>6. ASSUME t \in EndsV1(req)
      PROVE  \/ Head(t).line = "nak" /\ (~req.more => Tail(t) = PackPackets)
             \/ /\ ~req.more /\ Head(t).line = "lastAck" /\ Head(t).value \in Shared(req)
                /\ Tail(t) = PackPackets
  <2>1. CASE req.more
    <3>1. t = <<Line("nak")>>
      BY <1>6, <2>1 DEF EndsV1
    <3>2. Head(t) = Line("nak")
      BY <3>1
    <3> QED
      BY <1>5, <2>1, <3>2
  <2>2. CASE t = <<Line("nak")>> \o PackPackets
    BY <1>5, <2>2, OneThen
  <2>3. CASE ~req.more /\ \E h \in Shared(req) : t = <<Packet("lastAck", h)>> \o PackPackets
    BY <1>5, <2>3, OneThen
  <2> QED
    BY <1>6, <2>1, <2>2, <2>3 DEF EndsV1
<1>7. /\ NextLine \in {"lost", "fatal"} \/ NextLine = Head(t).line
      /\ fault = "none" => NextLine = Head(t).line
      /\ NextLine \notin {"lost", "fatal"} => Head(wire) = Head(t)
      /\ NextLine \notin {"lost", "fatal"} /\ Takes => Follows(Tail(t))'
  BY <1>1, <1>2, <1>4, NextKnown
<1>8. CASE ReadAckV1
  <2>1. /\ NextLine = "ack" /\ Takes /\ acks' = acks \cup {Head(wire).value}
        /\ UNCHANGED <<stage, result, pack>>
    BY <1>8 DEF ReadAckV1, NextIs
  <2>2. Head(t).line = "ack" /\ acks' = acks \cup {Head(t).value} /\ Follows(Tail(t))'
    BY <1>7, <2>1
  <2>3. Acked(Tail(t), req, acks', EndsV1(req)) /\ acks' \subseteq Shared(req)
    BY <1>1, <1>4, <1>5, <1>6, <2>2
  <2>4. Left(stage', Tail(t), req, acks')
    BY <1>1, <2>1, <2>3 DEF Left
  <2> QED
    BY <1>1, <2>1, <2>2, <2>3, <2>4, GoesOn
<1>9. CASE ReadLastAckV1
  <2>1. /\ NextLine = "lastAck" /\ Takes /\ acks' = acks \cup {Head(wire).value}
        /\ stage' = "idle" /\ result' = "pack" /\ pack' = NewPack
    BY <1>9 DEF ReadLastAckV1, NextIs
  <2>2. /\ Head(t).line = "lastAck" /\ acks' = acks \cup {Head(t).value} /\ Follows(Tail(t))'
    BY <1>7, <2>1
  <2>3. Tail(t) = PackPackets /\ acks' \subseteq Shared(req) /\ Based(req, acks')
    BY <1>1, <1>4, <1>5, <1>6, <2>2 DEF Based
  <2>4. Follows(PackPackets)'
    BY <2>2, <2>3
  <2> QED
    BY <1>1, <2>1, <2>3, <2>4, PacksWell
<1>10. CASE ReadNakV1
  <2>1. NextLine = "nak" /\ Takes /\ (IF req.more THEN ReturnNoPack(open) ELSE ReturnPack)
    BY <1>10 DEF ReadNakV1, NextIs
  <2>2. Head(t).line = "nak" /\ Follows(Tail(t))'
    BY <1>7, <2>1
  <2>3. t \in EndsV1(req) /\ acks = Shared(req)
    BY <1>4, <1>5, <2>2
  <2>4. CASE req.more
    BY <1>1, <2>1, <2>3, <2>4, EndsWell DEF ReturnNoPack
  <2>5. CASE ~req.more
    <3>1. Tail(t) = PackPackets
      BY <1>6, <2>2, <2>3, <2>5
    <3>2. Follows(PackPackets)'
      BY <2>2, <3>1
    <3> QED
      BY <1>1, <2>1, <2>5, <3>2, PacksWell DEF ReturnPack, Based
  <2> QED
    BY <2>4, <2>5
<1>11. CASE ReadBadAckV1
  <2>1. NextLine \notin {"ack", "lastAck", "nak"} /\ stage' = "idle" /\ result' = "error" /\ pack' = pack
    BY <1>11 DEF ReadBadAckV1, Unexpected, ReturnError
  <2>2. Head(t).line \in {"ack", "lastAck", "nak"}
    BY <1>4, <1>5, <1>6
  <2> QED
    BY <1>1, <1>7, <2>1, <2>2, FailsWell
<1> QED
  BY <1>8, <1>9, <1>10, <1>11

LEMMA ReadsSectionV2 ==
    ASSUME ReadInv, NEW s \in {"first", "second", "third"}, ReadSectionV2(s), fault # "refused"
    PROVE  ReadInv'
<1> USE DEF Lines
<1>1. /\ stage = s /\ stage # "idle" /\ req \in PullRequests /\ fault \in {"none", "cut", "failed"}
      /\ acks \subseteq Shared(req) /\ UNCHANGED <<req, fault>>
  BY DEF ReadInv, WireKnown, ReadSectionV2, Parses
<1>2. PICK t : Left(s, t, req, acks) /\ Follows(t)
  BY <1>1 DEF ReadInv, WireKnown
<1>3. /\ t \in Seq(AllPackets) /\ t # <<>>
      /\ \/ s = "first" /\ Head(t) = Line("acknowledgments") /\ Left("acksV2", Tail(t), req, acks)
         \/ s # "third" /\ Head(t) = Line("shallow-info") /\ Left("shallowV2", Tail(t), req, acks)
         \/ Head(t) = Line("packfile") /\ Tail(t) = PackPackets /\ Based(req, acks)
  BY <1>1, <1>2, SectionNext
<1>4. /\ Line("acknowledgments").line = "acknowledgments" /\ Line("packfile").line = "packfile"
      /\ Line("shallow-info").line = "shallow-info"
  BY PacketsKnown
<1>5. /\ NextLine \in {"lost", "fatal"} \/ NextLine = Head(t).line
      /\ fault = "none" => NextLine = Head(t).line
      /\ NextLine \notin {"lost", "fatal"} /\ Takes => Follows(Tail(t))'
  BY <1>1, <1>2, <1>3, NextKnown
<1>6. CASE s = "first" /\ NextIs("acknowledgments") /\ Takes /\ KeepsReading /\ stage' = "acksV2"
  <2>1. Left(stage', Tail(t), req, acks) /\ Follows(Tail(t))'
    BY <1>3, <1>4, <1>5, <1>6 DEF NextIs
  <2> QED
    BY <1>1, <1>6, <2>1, GoesOn DEF KeepsReading
<1>7. CASE s # "third" /\ NextIs("shallow-info") /\ Takes /\ KeepsReading /\ stage' = "shallowV2"
  <2>1. Left(stage', Tail(t), req, acks) /\ Follows(Tail(t))'
    BY <1>3, <1>4, <1>5, <1>7 DEF NextIs
  <2> QED
    BY <1>1, <1>7, <2>1, GoesOn DEF KeepsReading
<1>8. CASE NextIs("packfile") /\ Takes /\ ReturnPack
  <2>1. Follows(Tail(t))' /\ Tail(t) = PackPackets /\ Based(req, acks)
    BY <1>3, <1>4, <1>5, <1>8 DEF NextIs
  <2>2. Follows(PackPackets)'
    BY <2>1
  <2> QED
    BY <1>1, <1>8, <2>1, <2>2, PacksWell DEF ReturnPack
<1>9. CASE /\ Unexpected({"packfile"} \cup (IF s = "first" THEN {"acknowledgments"} ELSE {})
                         \cup (IF s # "third" THEN {"shallow-info"} ELSE {}))
           /\ ReturnError(Closed)
  <2>1. fault # "none"
    BY <1>3, <1>4, <1>5, <1>9 DEF Unexpected
  <2> QED
    BY <1>1, <1>9, <2>1, FailsWell DEF ReturnError
<1> QED
  BY <1>6, <1>7, <1>8, <1>9 DEF ReadSectionV2

LEMMA ReadsAcksV2 ==
    ASSUME ReadInv, ReadAckV2, fault # "refused"
    PROVE  ReadInv'
<1> USE DEF Lines
<1>1. /\ stage = "acksV2" /\ req \in PullRequests /\ fault \in {"none", "cut", "failed"}
      /\ acks \subseteq Shared(req) /\ UNCHANGED <<req, fault>>
  BY DEF ReadInv, WireKnown, ReadAckV2, Parses
<1>2. PICK t : Left("acksV2", t, req, acks) /\ Follows(t)
  BY <1>1 DEF ReadInv, WireKnown
<1>3. req.more /\ Acked(t, req, acks, EndsV2(req))
  BY <1>2 DEF Left
<1>4. /\ t \in Seq(AllPackets) /\ t # <<>>
      /\ \/ /\ \E h \in Shared(req) : Head(t) = Packet("ack", h)
            /\ Acked(Tail(t), req, acks \cup {Head(t).value}, EndsV2(req))
         \/ t \in EndsV2(req) /\ acks = Shared(req)
  BY <1>1, <1>3, EndsKnown, AckNext
<1>5. /\ \A h \in Shared(req) : Packet("ack", h).line = "ack" /\ Packet("ack", h).value = h
      /\ Line("nak") \in AllPackets /\ Line("nak").line = "nak"
      /\ Flush \in AllPackets /\ Flush.line = "flush"
      /\ Delim \in AllPackets /\ Delim.line = "delim"
      /\ Line("ready") \in AllPackets /\ Line("ready").line = "ready"
      /\ PackSectionsV2(req) \in Seq(AllPackets)
      /\ <<Flush>> \in Seq(AllPackets)
  BY <1>1, PacketsKnown, SectionsKnown
<1>6. ASSUME t \in EndsV2(req)
      PROVE  \/ Head(t).line = "flush"
             \/ Head(t).line \in {"nak", "ready"} /\ Tail(t) \in EndsV2(req)
             \/ Head(t).line = "delim" /\ Tail(t) = PackSectionsV2(req) /\ Shared(req) # {}
  <2> DEFINE d == <<Delim>> \o PackSectionsV2(req)
  <2>1. <<Flush>> \in EndsV2(req) /\ (Shared(req) # {} => d \in EndsV2(req))
    BY DEF EndsV2
  <2>2. d \in Seq(AllPackets) /\ Head(d) = Delim /\ Tail(d) = PackSectionsV2(req)
    BY <1>5, OneThen
  <2>3. \/ t = <<Flush>> \/ t = <<Line("nak")>> \o <<Flush>>
        \/ Shared(req) # {} /\ (t = <<Line("ready")>> \o d \/ t = d)
    BY <1>6 DEF EndsV2
  <2> HIDE DEF d
  <2>4. CASE t = <<Flush>>
    BY <1>5, <2>4
  <2>5. CASE t = <<Line("nak")>> \o <<Flush>>
    <3>1. Head(t) = Line("nak") /\ Tail(t) = <<Flush>>
      BY <1>5, <2>5, OneThen
    <3> QED
      BY <1>5, <2>1, <3>1
  <2>6. CASE Shared(req) # {} /\ t = <<Line("ready")>> \o d
    <3>1. Head(t) = Line("ready") /\ Tail(t) = d
      BY <1>5, <2>2, <2>6, OneThen
    <3> QED
      BY <1>5, <2>1, <2>6, <3>1
  <2>7. CASE Shared(req) # {} /\ t = d
    BY <1>5, <2>2, <2>7
  <2> QED
    BY <2>3, <2>4, <2>5, <2>6, <2>7
<1>7. /\ NextLine \in {"lost", "fatal"} \/ NextLine = Head(t).line
      /\ fault = "none" => NextLine = Head(t).line
      /\ NextLine \notin {"lost", "fatal"} => Head(wire) = Head(t)
      /\ NextLine \notin {"lost", "fatal"} /\ Takes => Follows(Tail(t))'
  BY <1>1, <1>2, <1>4, NextKnown
<1>8. ASSUME NextIs("ack"), Takes, acks' = acks \cup {Head(wire).value},
             UNCHANGED <<stage, result, pack, open>>
      PROVE  ReadInv'
  <2>1. Head(t).line = "ack" /\ acks' = acks \cup {Head(t).value} /\ Follows(Tail(t))'
    BY <1>7, <1>8 DEF NextIs
  <2>2. Acked(Tail(t), req, acks', EndsV2(req)) /\ acks' \subseteq Shared(req)
    BY <1>1, <1>4, <1>5, <1>6, <2>1
  <2>3. Left(stage', Tail(t), req, acks')
    BY <1>1, <1>3, <1>8, <2>2 DEF Left
  <2> QED
    BY <1>1, <1>8, <2>1, <2>2, <2>3, GoesOn
<1>9. ASSUME NextIs("nak") \/ NextIs("ready"), Takes, KeepsReading, UNCHANGED stage PROVE ReadInv'
  <2>1. Head(t).line \in {"nak", "ready"} /\ Follows(Tail(t))'
    BY <1>7, <1>9 DEF NextIs
  <2>2. Tail(t) \in EndsV2(req) /\ acks = Shared(req)
    BY <1>4, <1>5, <1>6, <2>1
  <2>3. Acked(Tail(t), req, acks, EndsV2(req))
    <3>1. Tail(t) = <<>> \o Tail(t)
      BY <1>1, <2>2, EndsKnown, ConcatSplits, EmptySeq
    <3>2. <<>> \in Seq(AckPackets(req)) /\ {<<>>[i].value : i \in 1..Len(<<>>)} = {}
      BY EmptySeq
    <3>3. acks \cup {<<>>[i].value : i \in 1..Len(<<>>)} = Shared(req)
      BY <2>2, <3>2
    <3> QED
      BY <2>2, <3>1, <3>2, <3>3, Zenon DEF Acked
  <2>4. Left(stage', Tail(t), req, acks)
    BY <1>1, <1>3, <1>9, <2>3 DEF Left
  <2> QED
    BY <1>1, <1>9, <2>1, <2>4, GoesOn DEF KeepsReading
<1>10. ASSUME NextIs("flush"), Takes, ReturnNoPack(Closed) PROVE ReadInv'
  <2>1. Head(t).line = "flush"
    BY <1>7, <1>10 DEF NextIs
  <2>2. acks = Shared(req)
    BY <1>4, <1>5, <2>1
  <2> QED
    BY <1>1, <1>3, <1>10, <2>2, EndsWell DEF ReturnNoPack
<1>11. ASSUME NextIs("delim"), Takes, KeepsReading, stage' = "second" PROVE ReadInv'
  <2>1. Head(t).line = "delim" /\ Follows(Tail(t))'
    BY <1>7, <1>11 DEF NextIs
  <2>2. Tail(t) = PackSectionsV2(req) /\ acks = Shared(req) /\ Shared(req) # {}
    BY <1>4, <1>5, <1>6, <2>1
  <2>3. Left(stage', Tail(t), req, acks)
    BY <1>11, <2>2 DEF Left, Based
  <2> QED
    BY <1>1, <1>11, <2>1, <2>3, GoesOn DEF KeepsReading
<1>12. ASSUME Unexpected({"ack", "nak", "ready", "flush", "delim"}), ReturnError(Closed) PROVE ReadInv'
  <2>1. Head(t).line \in {"ack", "nak", "ready", "flush", "delim"}
    BY <1>4, <1>5, <1>6
  <2>2. fault # "none"
    BY <1>7, <1>12, <2>1 DEF Unexpected
  <2> QED
    BY <1>1, <1>12, <2>2, FailsWell DEF ReturnError
<1> QED
  BY <1>8, <1>9, <1>10, <1>11, <1>12 DEF ReadAckV2

LEMMA ReadsShallowV2 ==
    ASSUME ReadInv, ReadShallowV2, fault # "refused"
    PROVE  ReadInv'
<1> USE DEF Lines
<1>1. /\ stage = "shallowV2" /\ req \in PullRequests /\ fault \in {"none", "cut", "failed"}
      /\ acks \subseteq Shared(req) /\ UNCHANGED <<req, fault>>
  BY DEF ReadInv, WireKnown, ReadShallowV2, Parses
<1>2. PICK t : Left("shallowV2", t, req, acks) /\ Follows(t)
  BY <1>1 DEF ReadInv, WireKnown
<1>3. /\ Line("shallow") \in AllPackets /\ Line("shallow").line = "shallow"
      /\ Delim \in AllPackets /\ Delim.line = "delim" /\ PackSection \in Seq(AllPackets)
  BY PacketsKnown
<1> DEFINE d == <<Delim>> \o PackSection
<1>4. d \in Seq(AllPackets) /\ d # <<>> /\ Head(d) = Delim /\ Tail(d) = PackSection
  BY <1>3, OneThen
<1>5. (t = d \/ t = <<Line("shallow")>> \o d) /\ Based(req, acks)
  BY <1>2 DEF Left
<1>6. Left("shallowV2", d, req, acks) /\ Left("third", PackSection, req, acks)
  BY <1>5 DEF Left
<1> HIDE DEF d
<1>7. /\ t \in Seq(AllPackets) /\ t # <<>>
      /\ \/ Head(t).line = "delim" /\ Tail(t) = PackSection
         \/ Head(t).line = "shallow" /\ Tail(t) = d
  <2>1. CASE t = d
    BY <1>3, <1>4, <2>1
  <2>2. CASE t = <<Line("shallow")>> \o d
    <3>1. t \in Seq(AllPackets) /\ t # <<>> /\ Head(t) = Line("shallow") /\ Tail(t) = d
      BY <1>3, <1>4, <2>2, OneThen
    <3> QED
      BY <1>3, <3>1
  <2> QED
    BY <1>5, <2>1, <2>2
<1>8. /\ NextLine \in {"lost", "fatal"} \/ NextLine = Head(t).line
      /\ fault = "none" => NextLine = Head(t).line
      /\ NextLine \notin {"lost", "fatal"} /\ Takes => Follows(Tail(t))'
  BY <1>1, <1>2, <1>7, NextKnown
<1>9. ASSUME NextIs("shallow"), Takes, KeepsReading, UNCHANGED stage PROVE ReadInv'
  <2>1. Follows(Tail(t))' /\ Left(stage', Tail(t), req, acks)
    BY <1>1, <1>6, <1>7, <1>8, <1>9 DEF NextIs
  <2> QED
    BY <1>1, <1>9, <2>1, GoesOn DEF KeepsReading
<1>10. ASSUME NextIs("delim"), Takes, KeepsReading, stage' = "third" PROVE ReadInv'
  <2>1. Follows(Tail(t))' /\ Left(stage', Tail(t), req, acks)
    BY <1>6, <1>7, <1>8, <1>10 DEF NextIs
  <2> QED
    BY <1>1, <1>10, <2>1, GoesOn DEF KeepsReading
<1>11. ASSUME Unexpected({"shallow", "delim"}), ReturnError(Closed) PROVE ReadInv'
  <2>1. fault # "none"
    BY <1>7, <1>8, <1>11 DEF Unexpected
  <2> QED
    BY <1>1, <1>11, <2>1, FailsWell DEF ReturnError
<1> QED
  BY <1>9, <1>10, <1>11 DEF ReadShallowV2

LEMMA ResponsesKeep ==
    ASSUME ReadInv, ReadResponse
    PROVE  ReadInv'
  BY RefusedReads, ReadsShallowV1, ReadsAcksV1, ReadsSectionV2, ReadsAcksV2, ReadsShallowV2
     DEF ReadResponse

(* uploadPack: what arrives is the error, or begins a whole response.      *)
LEMMA SendsRequest ==
    ASSUME PullInv, ReadInv, NEW q \in PullRequests, NegotiateSent(q)
    PROVE  ReadInv'
<1> USE DEF Lines
<1>1. /\ req' = q /\ stage' = FirstStage(q) /\ acks' = {} /\ result' = "none" /\ pack' = NoPack
      /\ \/ session = "v1" /\ proto = 1
         \/ session = "v2" /\ proto = 2
  BY DEF NegotiateSent, HasCaps, PullInv, SessionKnown
<1>2. FirstStage(q) \in {"shallow", "acks", "first"}
  BY DEF FirstStage
<1>3. PICK full \in Responses(q) : \E n \in 0..Len(full) :
        \/ /\ wire' = SubSeq(full, 1, n)
           /\ fault' = IF ServerRefuses(q) THEN "refused" ELSE IF n < Len(full) THEN "cut" ELSE "none"
        \/ /\ ~ServerRefuses(q) /\ fault' = "failed"
           /\ wire' = Append(SubSeq(full, 1, n), Line("fatal"))
  BY DEF NegotiateSent, UploadPack
<1>4. PICK n \in 0..Len(full) :
        \/ /\ wire' = SubSeq(full, 1, n)
           /\ fault' = IF ServerRefuses(q) THEN "refused" ELSE IF n < Len(full) THEN "cut" ELSE "none"
        \/ /\ ~ServerRefuses(q) /\ fault' = "failed"
           /\ wire' = Append(SubSeq(full, 1, n), Line("fatal"))
  BY <1>3
<1>5. \/ fault' = "refused" /\ (wire' # <<>> => Head(wire') = Line("ERR"))
      \/ /\ fault' \in {"none", "cut", "failed"}
         /\ \E t : Left(stage', t, req', acks') /\ Follows(t)'
  <2>1. CASE ServerRefuses(q)
    <3>1. full = <<Line("ERR")>>
      BY <2>1 DEF Responses
    <3>2. wire' = <<>> \/ Head(wire') = Line("ERR")
      <4>1. full \in Seq(AllPackets) /\ Len(full) = 1 /\ Head(full) = Line("ERR")
        BY <3>1, PacketsKnown
      <4>2. Begins(wire', full)
        BY <1>4, <2>1, <4>1, PrefixBegins
      <4> QED
        BY <4>1, <4>2, HeadBegins
    <3> QED
      BY <1>4, <2>1, <3>2
  <2>2. CASE ~ServerRefuses(q)
    <3>1. full \in Seq(AllPackets) /\ Left(FirstStage(q), full, q, {})
      BY <1>1, <2>2, ResponseKnown
    <3>2. Begins(SubSeq(full, 1, n), full) /\ (n = Len(full) => SubSeq(full, 1, n) = full)
      BY <3>1, PrefixBegins
    <3>3. Len(full) \in Nat /\ n \in 0..Len(full)
      BY <3>1
    <3>4. fault' \in {"none", "cut", "failed"} /\ Follows(full)'
      <4>1. CASE fault' = "failed"
        <5>1. wire' = Append(SubSeq(full, 1, n), Line("fatal"))
          BY <1>4, <2>2, <4>1
        <5> QED
          BY <3>2, <4>1, <5>1 DEF Follows
      <4>2. CASE fault' # "failed"
        <5>1. /\ wire' = SubSeq(full, 1, n)
              /\ fault' = IF n < Len(full) THEN "cut" ELSE "none"
          BY <1>4, <2>2, <4>2
        <5>2. fault' = "none" => n = Len(full)
          BY <3>3, <5>1
        <5> QED
          BY <3>2, <4>2, <5>1, <5>2 DEF Follows
      <4> QED
        BY <4>1, <4>2
    <3> QED
      BY <1>1, <3>1, <3>4
  <2> QED
    BY <2>1, <2>2
<1>6. ~pack'.held /\ pack'.err = "none" /\ PackTypes'
  BY <1>1, PacksTyped DEF PackTypes
<1>7. WireKnown'
  BY <1>1, <1>2, <1>5, <1>6 DEF WireKnown
<1>8. PackKnown'
  BY <1>6 DEF PackKnown
<1> QED
  BY <1>1, <1>6, <1>7, <1>8 DEF ReadInv, EOFMeansWholePack, AnswerIsSound, ResponseUnderstood

(* A step after which the caller holds no packfile and Negotiate does not  *)
(* run.                                                                    *)
LEMMA Resets ==
    ASSUME ReadInv, pack' = NoPack, stage' = "idle", result' \in {"none", "refused"}
    PROVE  ReadInv'
<1>1. ~pack'.held /\ pack'.err = "none" /\ PackTypes'
  BY PacksTyped DEF PackTypes
<1> QED
  BY <1>1 DEF ReadInv, WireKnown, PackKnown, EOFMeansWholePack, AnswerIsSound, ResponseUnderstood

LEMMA ReadKeeps ==
    ASSUME ReadInv, UNCHANGED <<negVars, pack>>
    PROVE  ReadInv'
  BY DEF ReadInv, WireKnown, PackKnown, PackTypes, EOFMeansWholePack, AnswerIsSound, ResponseUnderstood,
         negVars, Follows

(* The reader once it took g units of packet i and has c left of it.       *)
Moved(p, i, g, c) == [p EXCEPT !.at = i, !.curr = c, !.got[i] = g]

LEMMA PackMoves ==
    ASSUME NEW i \in DOMAIN PackData, NEW g \in Nat, NEW c \in Nat,
           pack \in Packs, pack' = Moved(pack, i, g, c)
    PROVE  /\ pack' \in Packs /\ pack'.held = pack.held /\ pack'.err = pack.err
           /\ pack'.at = i /\ pack'.curr = c
           /\ \A j \in DOMAIN PackData : pack'.got[j] = IF j = i THEN g ELSE pack.got[j]
<1> DEFINE h == [pack.got EXCEPT ![i] = g]
<1>1. /\ pack.got \in [DOMAIN PackData -> Nat]
      /\ DOMAIN PackData = 1..Len(PackData) /\ Len(PackData) \in Nat
  BY PullAssumption DEF Packs
<1>2. /\ h \in [DOMAIN PackData -> Nat]
      /\ \A j \in DOMAIN PackData : h[j] = IF j = i THEN g ELSE pack.got[j]
  BY <1>1
<1>3. i \in 0..Len(PackData)
  BY <1>1
<1>4. pack' = [pack EXCEPT !.at = i, !.curr = c, !.got = h]
  BY DEF Moved
<1> HIDE DEF h
<1>5. /\ pack' \in Packs /\ pack'.held = pack.held /\ pack'.err = pack.err
      /\ pack'.at = i /\ pack'.curr = c /\ pack'.got = h
  BY <1>2, <1>3, <1>4 DEF Packs
<1> QED
  BY <1>2, <1>5

(* packfileReader.Read: all data is read, waits or is still to come.       *)
LEMMA ReadsPack ==
    ASSUME ReadInv, ReadPack
    PROVE  ReadInv'
<1>1. /\ pack.held /\ pack.err = "none" /\ pack \in Packs /\ stage = "idle" /\ fault # "refused"
      /\ UNCHANGED <<stage, req, acks, result, fault>>
  BY DEF ReadInv, PackKnown, PackTypes, ReadPack, ReadCurr, ReadChunk, ReadProgress, ReadEnd, Reads
<1>2. PICK k \in 0..Len(PackData) : Follows(Rest(k)) /\ ReadOf(pack, k)
  BY <1>1 DEF ReadInv, PackKnown
<1> DEFINE t == Rest(k)
<1>3. /\ t \in Seq(AllPackets) /\ t # <<>>
      /\ \/ /\ k + 1 \in DOMAIN PackData /\ Tail(t) = Rest(k + 1)
            /\ IF PackData[k + 1] = 0 THEN Head(t).line = "progress"
               ELSE Head(t).line = "chunk" /\ Head(t).value = k + 1
         \/ k = Len(PackData) /\ Head(t).line = "flush"
  BY RestNext
<1>4. /\ NextLine \in {"lost", "fatal"} \/ NextLine = Head(t).line
      /\ fault = "none" => NextLine = Head(t).line
      /\ NextLine \notin {"lost", "fatal"} => Head(wire) = Head(t)
      /\ NextLine \notin {"lost", "fatal"} /\ Takes => Follows(Tail(t))'
  BY <1>1, <1>2, <1>3, NextKnown
<1>5. Len(PackData) \in Nat /\ DOMAIN PackData = 1..Len(PackData) /\ k \in Nat
      /\ (\A i \in DOMAIN PackData : PackData[i] \in Nat)
  BY PullAssumption
<1>6. pack.curr \in Nat /\ \A i \in DOMAIN PackData : pack.got[i] \in Nat
  BY <1>1 DEF Packs
<1> HIDE DEF t
<1>7. ASSUME pack' \in Packs, pack'.held, pack'.err = "none",
             NEW l \in 0..Len(PackData), Follows(Rest(l))', ReadOf(pack', l)
      PROVE  ReadInv'
  <2>1. PackKnown'
    BY <1>1, <1>7 DEF PackKnown, PackTypes
  <2> QED
    BY <1>1, <1>7, <2>1 DEF ReadInv, WireKnown, EOFMeansWholePack, AnswerIsSound, ResponseUnderstood
<1>8. ASSUME NEW n \in Nat \ {0}, ReadCurr(n) PROVE ReadInv'
  <2> DEFINE a == pack.at
             c == pack.curr - n
             g == pack.got[a] + n
  <2>1. /\ n <= pack.curr /\ wire' = wire
        /\ pack' = [pack EXCEPT !.curr = @ - n, !.got[pack.at] = @ + n]
    BY <1>8 DEF ReadCurr
  <2>2. n \in Nat /\ n > 0
    OBVIOUS
  <2>3. a \in 1..k /\ a \in DOMAIN PackData /\ c \in Nat
    BY <1>2, <1>5, <1>6, <2>1, <2>2 DEF ReadOf
  <2>4. pack' = Moved(pack, a, g, c)
    <3>1. pack = [f \in DOMAIN pack |-> pack[f]] /\ "at" \in DOMAIN pack
      BY <1>1 DEF Packs
    <3>2. [pack EXCEPT !.at = a] = pack
      BY <3>1
    <3> QED
      BY <2>1, <3>2 DEF Moved
  <2> HIDE DEF a, c, g
  <2>5. /\ pack' \in Packs /\ pack'.held /\ pack'.err = "none" /\ pack'.at = a /\ pack'.curr = c
        /\ \A j \in DOMAIN PackData : pack'.got[j] = IF j = a THEN g ELSE pack.got[j]
    <3>1. /\ pack \in Packs /\ a \in DOMAIN PackData /\ g \in Nat /\ c \in Nat
          /\ pack' = Moved(pack, a, g, c)
      BY <1>1, <1>6, <2>2, <2>3, <2>4 DEF g
    <3>2. pack' \in Packs /\ pack'.held = pack.held /\ pack'.err = pack.err
      BY ONLY <3>1, PackMoves
    <3>3. pack'.at = a /\ pack'.curr = c
      BY ONLY <3>1, PackMoves
    <3>4. \A j \in DOMAIN PackData : pack'.got[j] = IF j = a THEN g ELSE pack.got[j]
      BY ONLY <3>1, PackMoves
    <3> QED
      BY <1>1, <3>2, <3>3, <3>4
  <2>6. ReadOf(pack', k)
    BY <1>2, <1>5, <1>6, <2>1, <2>2, <2>3, <2>5 DEF ReadOf, a, c, g
  <2>7. Follows(Rest(k))'
    BY <1>1, <1>2, <2>1 DEF Follows
  <2> QED
    BY <1>7, <2>5, <2>6, <2>7
<1>9. ASSUME NEW n \in Nat \ {0}, ReadChunk(n) PROVE ReadInv'
  <2> DEFINE b == k + 1
             c == PackData[b] - n
             g == pack.got[b] + n
  <2>1. pack.curr = 0 /\ NextLine = "chunk" /\ Takes
    BY <1>9 DEF ReadChunk, NextIs
  <2>2. Head(wire).value = b /\ b \in DOMAIN PackData /\ Follows(Rest(b))'
    BY <1>3, <1>4, <2>1
  <2>3. /\ n <= PackData[b]
        /\ pack' = Moved(pack, b, g, c)
    BY <1>9, <2>2 DEF ReadChunk, Moved
  <2>4. n \in Nat /\ c \in Nat /\ b \in 0..Len(PackData)
    BY <1>5, <2>2, <2>3
  <2> HIDE DEF b, c, g
  <2>5. /\ pack' \in Packs /\ pack'.held /\ pack'.err = "none" /\ pack'.at = b /\ pack'.curr = c
        /\ \A j \in DOMAIN PackData : pack'.got[j] = IF j = b THEN g ELSE pack.got[j]
    <3>1. /\ pack \in Packs /\ b \in DOMAIN PackData /\ g \in Nat /\ c \in Nat
          /\ pack' = Moved(pack, b, g, c)
      BY <1>1, <1>6, <2>2, <2>4, <2>3 DEF g
    <3>2. pack' \in Packs /\ pack'.held = pack.held /\ pack'.err = pack.err
      BY ONLY <3>1, PackMoves
    <3>3. pack'.at = b /\ pack'.curr = c
      BY ONLY <3>1, PackMoves
    <3>4. \A j \in DOMAIN PackData : pack'.got[j] = IF j = b THEN g ELSE pack.got[j]
      BY ONLY <3>1, PackMoves
    <3> QED
      BY <1>1, <3>2, <3>3, <3>4
  <2>6. ReadOf(pack', b)
    <3>1. b = k + 1 /\ c = PackData[b] - n /\ g = pack.got[b] + n
      BY DEF b, c, g
    <3>2. \A j \in DOMAIN PackData : pack.got[j] = IF j <= k THEN PackData[j] ELSE 0
      BY <1>2, <1>5, <1>6, <2>1 DEF ReadOf
    <3>3. \A j \in DOMAIN PackData :
            pack'.got[j] + (IF j = b THEN c ELSE 0) = IF j <= b THEN PackData[j] ELSE 0
      <4>1. pack.got[b] = 0 /\ k < b /\ (\A j \in DOMAIN PackData : j <= b <=> j <= k \/ j = b)
        BY <1>5, <2>2, <3>1, <3>2
      <4>2. g = n /\ n + c = PackData[b]
        BY <1>5, <2>2, <2>4, <3>1, <4>1
      <4> QED
        BY <1>5, <2>4, <2>5, <3>2, <4>1, <4>2
    <3> QED
      BY <1>5, <2>2, <2>5, <3>1, <3>3 DEF ReadOf
  <2> QED
    BY <1>7, <2>2, <2>4, <2>5, <2>6
<1>10. CASE ReadProgress
  <2>1. pack.curr = 0 /\ NextLine = "progress" /\ Takes /\ pack' = pack
    BY <1>10 DEF ReadProgress, NextIs
  <2>2. PackData[k + 1] = 0 /\ k + 1 \in DOMAIN PackData /\ Follows(Rest(k + 1))'
    BY <1>3, <1>4, <2>1
  <2>3. ReadOf(pack', k + 1) /\ k + 1 \in 0..Len(PackData)
    BY <1>2, <1>5, <1>6, <2>1, <2>2 DEF ReadOf
  <2> QED
    BY <1>1, <1>7, <2>1, <2>2, <2>3
<1>11. CASE ReadEnd
  <2>1. /\ pack.curr = 0 /\ NextLine \notin {"chunk", "progress"}
        /\ pack' = [pack EXCEPT !.err = IF NextLine \in {"flush", "delim"} THEN "EOF" ELSE "error"]
    BY <1>11 DEF ReadEnd, Unexpected
  <2>2. /\ pack' \in Packs /\ pack'.held /\ pack'.got = pack.got
        /\ pack'.err = IF NextLine \in {"flush", "delim"} THEN "EOF" ELSE "error"
    BY <1>1, <2>1 DEF Packs
  <2>3. pack'.err # "none" /\ PackKnown'
    BY <1>1, <2>2 DEF PackKnown, PackTypes
  <2>4. pack'.err = "EOF" => pack'.got = PackData
    <3>1. SUFFICES ASSUME pack'.err = "EOF" PROVE pack.got = PackData
      BY <2>2
    <3>2. k = Len(PackData)
      BY <1>3, <1>4, <2>2, <3>1
    <3>3. \A j \in DOMAIN PackData : pack.got[j] = PackData[j]
      BY <1>2, <1>5, <1>6, <2>1, <3>2 DEF ReadOf
    <3>4. pack.got \in [DOMAIN PackData -> Nat] /\ PackData \in [DOMAIN PackData -> Nat]
      BY <1>1, PullAssumption DEF Packs
    <3> QED
      BY <3>3, <3>4
  <2>5. pack'.err = "error" => fault' # "none"
    BY <1>1, <1>3, <1>4, <2>1, <2>2
  <2> QED
    BY <1>1, <2>3, <2>4, <2>5 DEF ReadInv, WireKnown, EOFMeansWholePack, AnswerIsSound, ResponseUnderstood
<1>12. ASSUME NEW i \in DOMAIN PackData, NEW n \in 1..PackData[i] PROVE n \in Nat \ {0}
  BY <1>5
<1> QED
  BY <1>8, <1>9, <1>10, <1>11, <1>12 DEF ReadPack

LEMMA InitRead == Init => ReadInv
<1> SUFFICES ASSUME Init PROVE ReadInv
  OBVIOUS
<1>1. ~pack.held /\ pack.err = "none" /\ PackTypes
  BY PacksTyped DEF Init, PackTypes
<1> QED
  BY <1>1 DEF Init, ReadInv, WireKnown, PackKnown, EOFMeansWholePack, AnswerIsSound, ResponseUnderstood

LEMMA StepRead == PullInv /\ ReadInv /\ [Next]_vars => ReadInv'
<1> SUFFICES ASSUME PullInv, ReadInv, [Next]_vars PROVE ReadInv'
  OBVIOUS
<1>1. CASE StartPull \/ RefsMove \/ Close \/ UNCHANGED vars
  <2>1. UNCHANGED <<negVars, pack>>
    BY <1>1 DEF StartPull, StartPullFails, StartPullEmpty, StartPullV1, StartPullV2, Starts, RefsMove,
                Close, vars
  <2> QED
    BY <2>1, ReadKeeps
<1>2. ASSUME NEW asked \in SUBSET Refs, ListRefsV1(asked) \/ ListRefsV2(asked) \/ ListRefsEmpty(asked)
      PROVE  ReadInv'
  BY <1>2, ReadKeeps DEF ListRefsV1, ListRefsV2, ListRefsEmpty, Lists
<1>3. CASE NegotiateFails
  BY <1>3, Resets DEF NegotiateFails, Negotiates
<1>4. CASE ClosePack
  BY <1>4, Resets DEF ClosePack, ReadInv, PackKnown
<1> QED
  BY <1>1, <1>2, <1>3, <1>4, SendsRequest, ResponsesKeep, ReadsPack DEF Next

(* What is left of a response to read, in every stage of Negotiate and of  *)
(* the packfile, wherever the response is cut.                             *)
THEOREM PullReadInvariant == Spec => []ReadInv
<1> QED
  BY InitRead, StepRead, PullInvariant, PTL DEF Spec

(***************************************************************************)
(* packfileReader.Read returns io.EOF only after the whole pack, whatever  *)
(* its packets (PackData), however the caller's reads divide it, and       *)
(* wherever the response is cut or the server's error takes the place of   *)
(* the rest of the pack; an error only in these cases.                     *)
(***************************************************************************)
THEOREM PullEOFMeansWholePack == Spec => []EOFMeansWholePack
<1>1. ReadInv => EOFMeansWholePack
  BY DEF ReadInv
<1> QED
  BY <1>1, PullReadInvariant, PTL

(***************************************************************************)
(* PullStream.Negotiate: without a packfile the request had HaveMore set    *)
(* and the acknowledgements are all the Haves that the server shares; with *)
(* one they are among these, and one at least if the request had HaveMore  *)
(* set and any Have.                                                       *)
(***************************************************************************)
THEOREM PullAnswerIsSound == Spec => []AnswerIsSound
<1>1. ReadInv => AnswerIsSound
  BY DEF ReadInv
<1> QED
  BY <1>1, PullReadInvariant, PTL

(***************************************************************************)
(* A whole response, of either version and with any of its sections, is    *)
(* never an error of Negotiate.                                            *)
(***************************************************************************)
THEOREM PullResponseUnderstood == Spec => []ResponseUnderstood
<1>1. ReadInv => ResponseUnderstood
  BY DEF ReadInv
<1> QED
  BY <1>1, PullReadInvariant, PTL

-----------------------------------------------------------------------------
(* Pushes.                                                                 *)

Ended == stream \in {"closing", "closed"}
ServerEnded == server \in {"done", "dead"}

(* readStatus ran and found nothing wrong: the server is done, and nothing *)
(* it updated changes any more.                                            *)
StatusTrue ==
    Ended /\ status = "ok" /\ wrote /\ "report-status" \in caps =>
        server = "done" /\ updated = DOMAIN commands

NilAfterOk ==
    /\ status \in {"ok", "error"}
    /\ closeResult = "nil" => stream = "closed" /\ status = "ok"

(* Only an HTTP connection that was written to has a goroutine.            *)
PostKnown == post # "none" => used /\ transport = "http"

(* What has been given back by when.                                       *)
GivenBack ==
    /\ stream = "status" \/ Ended => ~writeOpen
    /\ Ended => ~refsBody
    /\ stream = "closed" =>
         /\ ~respBody
         /\ post # "running"
         /\ transport = "local" => ServerEnded

PushInv == StatusTrue /\ NilAfterOk /\ PostKnown /\ GivenBack

LEMMA InitPush == PushInit => PushInv
  BY DEF PushInit, PushInv, StatusTrue, NilAfterOk, PostKnown, GivenBack, Ended, ServerEnded

(* The peer reads, updates and ends; the stream and the connection's state *)
(* at this end stay as they are.                                           *)
LEMMA ServerKeeps ==
    ASSUME PushInv, ServerStep,
           server = "done" => server' = "done" /\ updated' = updated,
           ServerEnded => ServerEnded'
    PROVE  PushInv'
  BY DEF PushInv, StatusTrue, NilAfterOk, PostKnown, GivenBack, Ended, ServerEnded, ServerStep,
         fixed, streamVars

LEMMA StepPush == PushInv /\ [PushNext]_pushVars => PushInv'
<1> SUFFICES ASSUME PushInv, [PushNext]_pushVars PROVE PushInv'
  OBVIOUS
<1> USE DEF PushInv, StatusTrue, NilAfterOk, PostKnown, GivenBack, Ended, ServerEnded
<1>1. CASE StartPush \/ StartPushLost
  BY <1>1 DEF StartPush, StartPushLost, Opens, fixed
<1>2. CASE StartPushFails
  BY <1>2 DEF StartPushFails, fixed, connVars, receiverVars
<1>3. ASSUME NEW new \in NewValues, WriteCommands(new) PROVE PushInv'
  BY <1>3 DEF WriteCommands, CommandsCalled, fixed
<1>4. ASSUME NEW new \in NewValues, WriteCommandsFails(new) PROVE PushInv'
  BY <1>4 DEF WriteCommandsFails, CommandsCalled, fixed
<1>5. CASE Write
  BY <1>5 DEF Write, fixed, streamVars, receiverVars
<1>6. CASE CloseCalled
  BY <1>6 DEF CloseCalled, fixed, receiverVars
<1>7. CASE ReadStatus
  BY <1>7 DEF ReadStatus, GoodReport, fixed, receiverVars
<1>8. CASE CloseReturn
  BY <1>8 DEF CloseReturn, ConnDone, fixed, receiverVars
<1>9. CASE ServerNext
  BY <1>9, ServerKeeps
  DEF ServerNext, ServerReadsFlush, ServerReadsCommands, ServerReadsChunk, ServerUpdates,
      ServerCannotUnpack, ServerDone
<1>10. CASE ServerDies
  BY <1>10, ServerKeeps DEF ServerDies
<1>11. CASE PostAnswered
  BY <1>11 DEF PostAnswered, PostReturns, fixed, streamVars
<1>12. CASE PostFails
  BY <1>12 DEF PostFails, PostReturns, fixed, streamVars
<1>13. CASE Cancel
  BY <1>13 DEF Cancel, fixed, streamVars, connVars, receiverVars
<1>14. CASE RefsChange
  BY <1>14 DEF RefsChange, fixed, streamVars, connVars, receiverVars
<1>15. CASE UNCHANGED pushVars
  BY <1>15 DEF pushVars, fixed, streamVars, connVars, receiverVars
<1> QED
  BY <1>1, <1>2, <1>3, <1>4, <1>5, <1>6, <1>7, <1>8, <1>9, <1>10, <1>11, <1>12, <1>13,
     <1>14, <1>15 DEF PushNext

(* What a push keeps, whoever fails: the relations above.                 *)
THEOREM PushInvariant == PushSpec => []PushInv
<1> QED
  BY InitPush, StepPush, PTL DEF PushSpec

(***************************************************************************)
(* PushStream.Close: where the server can report it, nil means that every  *)
(* command was carried out.                                                *)
(***************************************************************************)
THEOREM PushNilMeansUpdated == PushSpec => []NilMeansUpdated
<1>1. PushInv => NilMeansUpdated
  BY DEF PushInv, StatusTrue, NilAfterOk, Ended, NilMeansUpdated
<1> QED
  BY <1>1, PushInvariant, PTL

(***************************************************************************)
(* PushStream.Close leaves no body, no goroutine and no subprocess.        *)
(***************************************************************************)
THEOREM PushNothingLeft == PushSpec => []NothingLeft
<1>1. PushInv => NothingLeft
  BY DEF PushInv, GivenBack, Ended, ServerEnded, NothingLeft
<1> QED
  BY <1>1, PushInvariant, PTL

-----------------------------------------------------------------------------
(* Refs.  What MutateRefs replaces is what the constructors' docs promise, *)
(* for all but SetRefIfMatches.                                            *)
OthersKept == unkept \subseteq {"SetRefIfMatches"}

RefKept ==
    /\ refs \in [Refs -> Values]
    /\ seen \in [Clients -> [Refs -> Values]]
    /\ OthersKept

LEMMA RequestForms ==
    ASSUME NEW s, NEW q \in Requests(s)
    PROVE  \/ q.by \in {"Noop", "DeleteRef"}
           \/ q.by = "DeleteRefIfMatches" /\ q.old = s
           \/ q.by \in {"SetRef", "CreateRef", "SetRefIfMatches"} /\ q.new \in Values
  BY DEF Requests, Request

(* The value a client read, as an argument of a mutation that passes the   *)
(* checks of update-ref, is the value that is replaced.                    *)
LEMMA VerifiedIsKept ==
    ASSUME NEW s \in Values, NEW q \in Requests(s), NEW value \in Values,
           MutationOf(q).command \notin {"updateerror", "createerror", "deleteerror"},
           Verifies(MutationOf(q), value), q.by # "SetRefIfMatches"
    PROVE  Promise(q, value)
<1>0. s # Unset
  BY IdsAssumption DEF Values, Zero, Unset
<1>1. CASE q.by = "DeleteRefIfMatches"
  <2>1. q.old = s
    BY <1>1, RequestForms
  <2>2. MutationOf(q) = DeleteRefIfMatches(s)
    BY <1>1, <2>1 DEF MutationOf
  <2>3. value = s
    BY <1>0, <2>2 DEF DeleteRefIfMatches, Mutation, Verifies
  <2> QED
    BY <1>1, <2>1, <2>3 DEF Promise
<1>2. CASE q.by = "CreateRef"
  <2>1. MutationOf(q) = CreateRef(q.new)
    BY <1>2 DEF MutationOf
  <2>2. MutationOf(q).command = "create"
    BY <2>1 DEF CreateRef, Mutation
  <2> QED
    BY <1>2, <2>2 DEF Verifies, Promise
<1>3. CASE q.by \notin {"DeleteRefIfMatches", "CreateRef"}
  BY <1>3 DEF Promise
<1> QED
  BY <1>1, <1>2, <1>3

LEMMA MutationValues ==
    ASSUME NEW s \in Values, NEW q \in Requests(s), q.by # "Noop",
           MutationOf(q).command \notin {"updateerror", "createerror", "deleteerror"}
    PROVE  ValueAfter(MutationOf(q)) \in Values
<1>1. CASE q.by \in {"DeleteRef", "DeleteRefIfMatches"}
  BY <1>1 DEF MutationOf, DeleteRef, DeleteRefIfMatches, Mutation, ValueAfter, Values
<1>2. CASE q.by \in {"SetRef", "SetRefIfMatches", "CreateRef"}
  <2>1. q.new \in Values
    BY <1>2, RequestForms
  <2> QED
    BY <1>2, <2>1 DEF MutationOf, SetRef, SetRefIfMatches, CreateRef, Mutation, ValueAfter
<1> QED
  BY <1>1, <1>2, RequestForms

LEMMA MutationsKeep ==
    ASSUME RefKept, NEW c \in Clients, NEW D \in SUBSET Refs,
           NEW q \in [D -> UNION {Requests(v) : v \in Values}],
           \A r \in D : q[r] \in Requests(seen[c][r]),
           MutateRefs(q) \/ MutateRefsKilledLate(q)
    PROVE  RefKept'
<1>1. /\ Given(q) \subseteq D /\ Given(q) \subseteq Refs
      /\ \A r \in Given(q) :
           /\ seen[c][r] \in Values /\ refs[r] \in Values
           /\ q[r] \in Requests(seen[c][r]) /\ q[r].by # "Noop"
           /\ InputFor(q)[r] = MutationOf(q[r])
  BY DEF Given, InputFor, RefKept
<1>2. \A r \in Given(q) :
        /\ MutationOf(q[r]).command \notin {"updateerror", "createerror", "deleteerror"}
        /\ Verifies(MutationOf(q[r]), refs[r])
  BY <1>1 DEF MutateRefs, MutateRefsKilledLate, MutateCalled
<1>3. refs' \in [Refs -> Values]
  <2>1. \A r \in Given(q) : ValueAfter(InputFor(q)[r]) \in Values
    BY <1>1, <1>2, MutationValues
  <2> QED
    BY <2>1 DEF MutateRefs, MutateRefsKilledLate, UpdateRefs, RefKept
<1>4. \A r \in Given(q) : ~ Promise(q[r], refs[r]) => q[r].by = "SetRefIfMatches"
  BY <1>1, <1>2, VerifiedIsKept
<1>5. OthersKept'
  <2>1. CASE MutateRefs(q)
    BY <2>1, <1>4 DEF MutateRefs, OthersKept, RefKept
  <2>2. CASE MutateRefsKilledLate(q)
    BY <2>2 DEF MutateRefsKilledLate, OthersKept, RefKept
  <2> QED
    BY <2>1, <2>2
<1> QED
  BY <1>3, <1>5 DEF MutateRefs, MutateRefsKilledLate, RefKept

(* A call of MutateRefs that succeeds kept what the docs of CreateRef and  *)
(* DeleteRefIfMatches say of the value that is replaced, whatever others   *)
(* do between the caller's look at a ref and its call.                     *)
THEOREM RefOthersKept == RefSpec => []OthersKept
<1>1. RefInit => RefKept
  BY DEF RefInit, RefKept, OthersKept, Values
<1>2. RefKept /\ [RefNext]_refVars => RefKept'
  <2> SUFFICES ASSUME RefKept, [RefNext]_refVars PROVE RefKept'
    OBVIOUS
  <2>1. ASSUME NEW c \in Clients, NEW r \in Refs, ParseRev(c, r) PROVE RefKept'
    BY <2>1 DEF ParseRev, RefKept, OthersKept
  <2>2. CASE UNCHANGED refVars
    BY <2>2 DEF refVars, RefKept, OthersKept
  <2> QED
    BY <2>1, <2>2, MutationsKeep DEF RefNext
<1>3. RefKept => OthersKept
  BY DEF RefKept
<1> QED
  BY <1>1, <1>2, <1>3, PTL DEF RefSpec
=============================================================================
