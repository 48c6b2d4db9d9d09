----------------------------- MODULE PullSession -----------------------------
(***************************************************************************)
(* A git-upload-pack session of packfile/client: Remote.StartPull, then     *)
(* ListRefs, Negotiate and the reader of the packfile on the PullStream, in *)
(* any order the caller likes, until Close.  The server speaks version 1 or *)
(* 2 of the protocol; every request is answered from the refs it has then,  *)
(* while others change them (RefMutation), and any answer can be cut short. *)
(***************************************************************************)
EXTENDS RefMutation, SequencesExt

CONSTANTS
    Haves,      \* commits the client may say it has
    Common,     \* those of them the server has too
    FeaturesV1, \* sets of deepenings that version 1 servers support
    PackData,   \* the units of data in each packet of the pack, 0 for a progress message
    MaxRounds   \* bound on the requests of Negotiate

(* What a request can deepen by, and what the server may support.          *)
Deepenings == {"depth", "since", "not"}

ASSUME PullAssumption ==
    /\ MaxRounds \in Nat \ {0}
    /\ IsFiniteSet(Haves) /\ Common \subseteq Haves
    /\ FeaturesV1 \subseteq SUBSET Deepenings
    /\ PackData \in Seq(Nat) \ {<<>>}

VARIABLES
    proto,       \* the version the server speaks
    features,    \* deepenings the server supports
    session,     \* which puller PullStream.impl is
    advertised,  \* the refs of the server when it sent its advertisement
    v1,          \* what a pullV1 has read of the advertisement, and what is left of it
    listing,     \* the answer of ListRefs, if that was the last call
    stage,       \* where a call to Negotiate is in the response
    req,         \* its PullRequest
    wire,        \* the packets of the response not yet read
    acks,        \* acknowledgements read
    result,      \* the result of the last Negotiate, until its pack is closed
    fault,       \* why the response may be incomplete
    pack,        \* the packfileReader the caller holds
    round,       \* calls to Negotiate that sent a request
    open         \* response bodies that are not closed

serverVars == <<proto, features>>
refsVars == <<session, advertised, v1>>
negVars == <<stage, req, wire, acks, result, fault, round>>
vars == <<refVars, serverVars, refsVars, listing, negVars, pack, open>>

-----------------------------------------------------------------------------
(* Packets.                                                                *)

Packet(line, value) == [line |-> line, value |-> value]
Line(line) == Packet(line, 0)
Flush == Line("flush")
Delim == Line("delim")
IsData(p) == p \notin {Flush, Delim}

(* The pack as the server sends it; a packet of data names its place in    *)
(* PackData.                                                               *)
PackPackets ==
    Append([i \in DOMAIN PackData |->
               IF PackData[i] = 0 THEN Line("progress") ELSE Packet("chunk", i)], Flush)

(* A packfileReader: what is left of its current packet, that is the last  *)
(* curr units of packet at, and the units read of each packet.             *)
NoPack == [held |-> FALSE, at |-> 0, curr |-> 0, got |-> [i \in DOMAIN PackData |-> 0],
           err |-> "none"]
NewPack == [NoPack EXCEPT !.held = TRUE]

NoRequest == [want |-> Zero, have |-> {}, more |-> FALSE, deepen |-> "no"]
PullRequests ==
    [want : Ids, have : SUBSET Haves, more : BOOLEAN, deepen : {"no"} \cup Deepenings]

NoListing == [ok |-> FALSE, asked |-> {}, names |-> {}, there |-> {}]
NoV1 == [known |-> {}, caps |-> FALSE, pending |-> FALSE, whole |-> TRUE, err |-> FALSE]

Existing(f) == {r \in Refs : f[r] # Zero}

TypeOK ==
    /\ RefTypeOK
    /\ proto \in {1, 2} /\ features \subseteq Deepenings
    /\ session \in {"none", "v1", "v2", "empty", "failed", "closed"}
    /\ advertised \in [Refs -> Values]
    /\ v1 \in [known : SUBSET Refs, caps : BOOLEAN, pending : BOOLEAN, whole : BOOLEAN, err : BOOLEAN]
    /\ listing \in [ok : BOOLEAN, asked : SUBSET Refs, names : SUBSET Refs, there : SUBSET Refs]
    /\ stage \in {"idle", "shallow", "acks", "first", "acksV2", "second", "shallowV2", "third"}
    /\ req \in PullRequests \cup {NoRequest}
    /\ acks \subseteq Haves
    /\ result \in {"none", "pack", "no pack", "error", "refused"}
    /\ fault \in {"none", "cut", "failed", "refused"}
    /\ pack \in [held : BOOLEAN, at : 0..Len(PackData), curr : Nat, got : [DOMAIN PackData -> Nat],
                 err : {"none", "EOF", "error"}]
    /\ round \in 0..MaxRounds
    /\ open \subseteq 0..MaxRounds

(* Body 0 is the advertisement, body n the response to the n-th request.   *)
Init ==
    /\ RefInit
    /\ proto \in {1, 2}
    /\ features \in IF proto = 2 THEN {{}, Deepenings} ELSE FeaturesV1
    /\ session = "none"
    /\ advertised = [r \in Refs |-> Zero]
    /\ v1 = NoV1
    /\ listing = NoListing
    /\ stage = "idle" /\ req = NoRequest /\ wire = <<>>
    /\ acks = {} /\ result = "none" /\ fault = "none" /\ round = 0
    /\ pack = NoPack
    /\ open = {}

-----------------------------------------------------------------------------
(* StartPull.                                                              *)

(* The transport's advertiseRefs: a body with the refs the server has now. *)
Starts ==
    /\ session = "none"
    /\ advertised' = refs
    /\ UNCHANGED <<refVars, serverVars, listing, negVars, pack>>

(* The advertisement cannot be had, or a version 2 one is cut.             *)
StartPullFails ==
    /\ Starts
    /\ session' = "failed"
    /\ UNCHANGED <<v1, open>>

(* The first packet is a flush: an old server without refs.  A reader that  *)
(* has failed has the type of a flush packet too.                          *)
FirstPacketIsFlush(lost) == lost \/ (proto = 1 /\ Existing(refs) = {})

StartPullEmpty ==
    /\ Starts
    /\ \E lost \in BOOLEAN : FirstPacketIsFlush(lost)
    /\ session' = "empty"
    /\ UNCHANGED <<v1, open>>

(* The whole version 2 advertisement is read and its body closed.          *)
StartPullV2 ==
    /\ Starts
    /\ proto = 2
    /\ session' = "v2"
    /\ UNCHANGED <<v1, open>>

(* readFirstRefV1, after the optional "version 1": nothing, from an old     *)
(* server without refs or because the connection is lost, which has the    *)
(* type of a flush; an error that is kept for ListRefs, for the server's   *)
(* own and for capabilities without refs that no flush follows; the        *)
(* capabilities alone; or the first ref with them, the rest of the         *)
(* advertisement waiting for ListRefs, if it arrives.                      *)
FirstRefsV1 ==
    {NoV1, [NoV1 EXCEPT !.err = TRUE]}
    \cup IF Existing(refs) = {} THEN {[NoV1 EXCEPT !.caps = TRUE]}
         ELSE [known : {{r} : r \in Existing(refs)}, caps : {TRUE}, pending : {TRUE},
               whole : BOOLEAN, err : {FALSE}]

(* newPullV1 keeps the body open for the refs that are left.               *)
StartPullV1 ==
    /\ Starts
    /\ proto = 1
    /\ session' = "v1"
    /\ v1' \in FirstRefsV1
    /\ open' = IF v1'.pending THEN {0} ELSE open

-----------------------------------------------------------------------------
(* ListRefs.  asked are the refs that match the prefixes.                  *)

Lists ==
    /\ session \in {"v1", "v2", "empty"} /\ stage = "idle"
    /\ UNCHANGED <<refVars, serverVars, session, advertised, negVars, pack>>

Answer(ok, asked, names, there) ==
    listing' = [ok |-> ok, asked |-> asked, names |-> names, there |-> there]

(* Mutant: the error of the packet reader is not looked at.                *)
OtherRefsV1Unchecked(known) ==
    /\ known \subseteq Existing(advertised) /\ v1.known \subseteq known
    /\ v1.whole => known = Existing(advertised)
    /\ v1' = [v1 EXCEPT !.known = known, !.pending = FALSE]

(* readOtherRefsV1: what is left of the advertisement, or the part of it   *)
(* that arrives.                                                           *)
OtherRefsV1(known) ==
    /\ known \subseteq Existing(advertised) /\ v1.known \subseteq known
    /\ v1.whole => known = Existing(advertised)
    /\ v1' = [v1 EXCEPT !.known = known, !.pending = FALSE, !.err = ~v1.whole]

ListRefsV1(asked) ==
    /\ Lists /\ session = "v1"
    /\ IF v1.pending THEN \E known \in SUBSET Refs : OtherRefsV1(known) ELSE UNCHANGED v1
    /\ open' = open \ {0}
    /\ Answer(~v1'.err, asked, v1'.known \cap asked, Existing(advertised))

(* A version 2 server may send refs that were not asked for.               *)
ListRefsV2(asked) ==
    /\ Lists /\ session = "v2"
    /\ \/ \E names \in SUBSET Existing(refs) :
            /\ Existing(refs) \cap asked \subseteq names
            /\ Answer(TRUE, asked, names, Existing(refs))
       \/ Answer(FALSE, asked, {}, Existing(refs))
    /\ UNCHANGED <<v1, open>>

ListRefsEmpty(asked) ==
    /\ Lists /\ session = "empty"
    /\ Answer(TRUE, asked, {}, {})
    /\ UNCHANGED <<v1, open>>

-----------------------------------------------------------------------------
(* What the server answers to a request for a pack.                        *)

Wanted(q) == \E r \in Refs : refs[r] = q.want

ServerRefuses(q) == ~Wanted(q) \/ (q.deepen # "no" /\ q.deepen \notin features)

Shared(q) == q.have \cap Common
AcksOf(q) == SetToSeq({Packet("ack", h) : h \in Shared(q)})
Nak(q) == IF Shared(q) = {} THEN <<Line("nak")>> ELSE <<>>
ShallowLines(q) == IF q.deepen = "no" THEN <<>> ELSE <<Line("shallow")>>

(* Version 1: the shallow update, an acknowledgement for every commit the  *)
(* server has, and the pack only after "done".                             *)
ResponseV1(q) ==
    (IF q.deepen = "no" THEN <<>> ELSE ShallowLines(q) \o <<Flush>>)
    \o AcksOf(q)
    \o (IF q.more THEN <<Line("nak")>>
        ELSE (IF Shared(q) = {} THEN <<Line("nak")>>
              ELSE <<Packet("lastAck", CHOOSE h \in Shared(q) : TRUE)>>)
             \o PackPackets)

PackSectionsV2(q) ==
    (IF q.deepen = "no" THEN <<>>
     ELSE <<Line("shallow-info")>> \o ShallowLines(q) \o <<Delim>>)
    \o <<Line("packfile")>> \o PackPackets

(* Version 2: the acknowledgements only without "done"; the server decides *)
(* whether what is shared is enough (ready).                               *)
ResponseV2(q, ready) ==
    IF ~q.more \/ q.have = {} THEN PackSectionsV2(q)
    ELSE <<Line("acknowledgments")>> \o AcksOf(q) \o Nak(q)
         \o (IF ready THEN <<Line("ready"), Delim>> \o PackSectionsV2(q) ELSE <<Flush>>)

Responses(q) ==
    IF ServerRefuses(q) THEN {<<Line("ERR")>>}
    ELSE IF proto = 1 THEN {ResponseV1(q)}
    ELSE {ResponseV2(q, ready) : ready \in {FALSE, Shared(q) # {}}}

-----------------------------------------------------------------------------
(* Negotiate.  The test for Since is the wrong way round in the code: a    *)
(* request without it is refused by a remote that cannot do it.            *)

HasCaps == session = "v2" \/ (session = "v1" /\ v1.caps)
Caps == IF HasCaps THEN features ELSE {}

Refused(q) ==
    \/ q.deepen = "depth" /\ "depth" \notin Caps
    \/ q.deepen # "since" /\ "since" \notin Caps
    \/ q.deepen = "not" /\ "not" \notin Caps

Negotiates ==
    /\ session \in {"v1", "v2", "empty"}
    /\ stage = "idle" /\ ~pack.held /\ round < MaxRounds
    /\ listing' = NoListing
    /\ UNCHANGED <<refVars, serverVars, session, advertised, v1>>

(* The request is refused, or it is not answered: by an emptyPuller, a     *)
(* pullV1 that has no capabilities, or because it cannot be sent.          *)
NegotiateFails ==
    /\ Negotiates
    /\ result' = "refused" /\ req' = NoRequest /\ acks' = {} /\ fault' = "none"
    /\ pack' = NoPack
    /\ UNCHANGED <<stage, wire, round, open>>

(* Mutant: a shallow update is only expected for a depth.                  *)
FirstStageDepthOnly(q) ==
    IF session = "v2" THEN "first"
    ELSE IF q.deepen = "depth" THEN "shallow" ELSE "acks"

(* What is read of the response first.                                     *)
FirstStage(q) ==
    IF session = "v2" THEN "first"
    ELSE IF q.deepen # "no" THEN "shallow" ELSE "acks"

(* What is left of the response after n packets is the end of a pack.      *)
InPack(full, n) ==
    IsSuffix(PackPackets, full) /\ n \in Len(full) - Len(PackPackets) .. Len(full) - 1

(* uploadPack: the response is what the server sends, up to where it is    *)
(* cut, or to where the server fails while it sends the pack and says so;  *)
(* its body is open.                                                       *)
UploadPack(q) ==
    /\ \E full \in Responses(q) : \E n \in 0..Len(full) :
         \/ /\ wire' = SubSeq(full, 1, n)
            /\ fault' = IF ServerRefuses(q) THEN "refused"
                        ELSE IF n < Len(full) THEN "cut" ELSE "none"
         \/ /\ ~ServerRefuses(q) /\ InPack(full, n)
            /\ wire' = Append(SubSeq(full, 1, n), Line("fatal"))
            /\ fault' = "failed"
    /\ round' = round + 1
    /\ open' = open \cup {round'}

NegotiateSent(q) ==
    /\ Negotiates /\ HasCaps
    /\ ~Refused(q)
    /\ UploadPack(q)
    /\ req' = q
    /\ stage' = FirstStage(q)
    /\ acks' = {} /\ result' = "none" /\ pack' = NoPack

Parses(s) ==
    /\ stage = s
    /\ UNCHANGED <<refVars, serverVars, refsVars, listing, req, fault, round>>

(* Next, Type and Text of the packet reader.                               *)
NextLine == IF wire = <<>> THEN "lost" ELSE Head(wire).line
NextIs(line) == NextLine = line
Unexpected(lines) == NextLine \notin lines
Takes == wire' = Tail(wire)

KeepsReading == UNCHANGED <<acks, result, pack, open>>

(* Mutant: only the response of a failed call is closed.                   *)
ClosedUnlessEmpty == IF NextLine = "flush" THEN open ELSE open \ {round}

(* What is open once the response is closed; closing the output of a local *)
(* git-upload-pack always succeeds.                                        *)
Closed == open \ {round}

(* The call returns: with the packfile, with neither, or with an error.    *)
ReturnPack ==
    /\ stage' = "idle" /\ result' = "pack" /\ pack' = NewPack
    /\ UNCHANGED <<acks, open>>

ReturnNoPack(stillOpen) ==
    /\ stage' = "idle" /\ result' = IF req.more THEN "no pack" ELSE "error"
    /\ open' = stillOpen
    /\ UNCHANGED <<acks, pack>>

ReturnError(stillOpen) ==
    /\ stage' = "idle" /\ result' = "error"
    /\ wire' = <<>> /\ acks' = {}
    /\ open' = stillOpen
    /\ UNCHANGED pack

(* readShallowUpdateV1.  Its error is not the err the deferred Close tests. *)
ReadShallowV1 ==
    /\ Parses("shallow")
    /\ \/ NextIs("shallow") /\ Takes /\ KeepsReading /\ UNCHANGED stage
       \/ NextIs("flush") /\ Takes /\ KeepsReading /\ stage' = "acks"
       \/ Unexpected({"shallow", "flush"}) /\ ReturnError(open)

(* Mutant: an acknowledgement that goes on is not recorded.                *)
ReadAckV1Drops ==
    /\ Parses("acks")
    /\ NextIs("ack") /\ Takes
    /\ UNCHANGED <<stage, acks, result, pack, open>>

(* readServerResponseV1.                                                   *)
ReadAckV1 ==
    /\ Parses("acks")
    /\ NextIs("ack") /\ Takes
    /\ acks' = acks \cup {Head(wire).value}
    /\ UNCHANGED <<stage, result, pack, open>>

ReadLastAckV1 ==
    /\ Parses("acks")
    /\ NextIs("lastAck") /\ Takes
    /\ acks' = acks \cup {Head(wire).value}
    /\ stage' = "idle" /\ result' = "pack" /\ pack' = NewPack
    /\ UNCHANGED open

(* Without a packfile nobody closes the response.                          *)
ReadNakV1 ==
    /\ Parses("acks")
    /\ NextIs("nak") /\ Takes
    /\ IF req.more THEN ReturnNoPack(open) ELSE ReturnPack

ReadBadAckV1 ==
    /\ Parses("acks")
    /\ Unexpected({"ack", "lastAck", "nak"})
    /\ ReturnError(Closed)

(* readFetchOutputV2.                                                      *)
ReadSectionV2(s) ==
    /\ Parses(s)
    /\ \/ s = "first" /\ NextIs("acknowledgments") /\ Takes /\ KeepsReading /\ stage' = "acksV2"
       \/ s # "third" /\ NextIs("shallow-info") /\ Takes /\ KeepsReading /\ stage' = "shallowV2"
       \/ NextIs("packfile") /\ Takes /\ ReturnPack
       \/ /\ Unexpected({"packfile"} \cup (IF s = "first" THEN {"acknowledgments"} ELSE {})
                        \cup (IF s # "third" THEN {"shallow-info"} ELSE {}))
          /\ ReturnError(Closed)

ReadAckV2 ==
    /\ Parses("acksV2")
    /\ \/ /\ NextIs("ack") /\ Takes
          /\ acks' = acks \cup {Head(wire).value}
          /\ UNCHANGED <<stage, result, pack, open>>
       \/ NextIs("nak") /\ Takes /\ KeepsReading /\ UNCHANGED stage
       \/ NextIs("ready") /\ Takes /\ KeepsReading /\ UNCHANGED stage
       \/ NextIs("flush") /\ Takes /\ ReturnNoPack(Closed)
       \/ NextIs("delim") /\ Takes /\ KeepsReading /\ stage' = "second"
       \/ Unexpected({"ack", "nak", "ready", "flush", "delim"}) /\ ReturnError(Closed)

ReadShallowV2 ==
    /\ Parses("shallowV2")
    /\ \/ NextIs("shallow") /\ Takes /\ KeepsReading /\ UNCHANGED stage
       \/ NextIs("delim") /\ Takes /\ KeepsReading /\ stage' = "third"
       \/ Unexpected({"shallow", "delim"}) /\ ReturnError(Closed)

-----------------------------------------------------------------------------
(* packfileReader.Read with room for n units, and what the caller closes.  *)

Reads ==
    /\ pack.held /\ pack.err = "none"
    /\ listing' = NoListing
    /\ UNCHANGED <<refVars, serverVars, refsVars, stage, req, acks, result, fault, round, open>>

(* From the packet read before.                                            *)
ReadCurr(n) ==
    /\ Reads
    /\ n <= pack.curr
    /\ pack' = [pack EXCEPT !.curr = @ - n, !.got[pack.at] = @ + n]
    /\ UNCHANGED wire

ReadChunk(n) ==
    /\ Reads
    /\ pack.curr = 0
    /\ NextIs("chunk") /\ Takes
    /\ LET i == Head(wire).value
       IN  /\ n <= PackData[i]
           /\ pack' = [pack EXCEPT !.at = i, !.curr = PackData[i] - n, !.got[i] = @ + n]

ReadProgress ==
    /\ Reads
    /\ pack.curr = 0
    /\ NextIs("progress") /\ Takes
    /\ UNCHANGED pack

(* Mutant: the server's error ends the pack.                               *)
ReadEndAtError ==
    /\ Reads
    /\ pack.curr = 0
    /\ Unexpected({"chunk", "progress"})
    /\ pack' = [pack EXCEPT !.err = IF NextLine \in {"flush", "delim", "fatal"} THEN "EOF" ELSE "error"]
    /\ UNCHANGED wire

(* A packet without data ends the pack; the server's error and a cut are   *)
(* kept as the error of every later Read.                                  *)
ReadEnd ==
    /\ Reads
    /\ pack.curr = 0
    /\ Unexpected({"chunk", "progress"})
    /\ pack' = [pack EXCEPT !.err = IF NextLine \in {"flush", "delim"} THEN "EOF" ELSE "error"]
    /\ UNCHANGED wire

ClosePack ==
    /\ pack.held
    /\ pack' = NoPack
    /\ wire' = <<>>
    /\ listing' = NoListing
    /\ req' = NoRequest /\ acks' = {} /\ result' = "none" /\ fault' = "none"
    /\ open' = open \ {round}
    /\ UNCHANGED <<refVars, serverVars, refsVars, stage, round>>

(* PullStream.Close: only a pullV1 whose refs were not listed has something *)
(* to close.                                                               *)
Close ==
    /\ session \in {"v1", "v2", "empty"} /\ stage = "idle"
    /\ session' = "closed"
    /\ open' = open \ {0}
    /\ listing' = NoListing
    /\ UNCHANGED <<refVars, serverVars, advertised, v1, negVars, pack>>

(* Somebody else changes the refs of the remote.                           *)
RefsMove ==
    /\ \E r \in Refs, q \in {Request("SetRef", Unset, v) : v \in Values}
                            \cup {Request("DeleteRef", Unset, Unset)} :
         MutateRefs([s \in {r} |-> q])
    /\ listing' = NoListing
    /\ UNCHANGED <<serverVars, refsVars, negVars, pack, open>>

StartPull == StartPullFails \/ StartPullEmpty \/ StartPullV1 \/ StartPullV2

ReadResponse ==
    \/ ReadShallowV1 \/ ReadAckV1 \/ ReadLastAckV1 \/ ReadNakV1 \/ ReadBadAckV1
    \/ ReadAckV2 \/ ReadShallowV2
    \/ \E s \in {"first", "second", "third"} : ReadSectionV2(s)

ReadPack ==
    \/ \E i \in DOMAIN PackData : \E n \in 1..PackData[i] : ReadCurr(n) \/ ReadChunk(n)
    \/ ReadProgress \/ ReadEnd

Next ==
    \/ StartPull
    \/ \E asked \in SUBSET Refs :
         ListRefsV1(asked) \/ ListRefsV2(asked) \/ ListRefsEmpty(asked)
    \/ NegotiateFails \/ \E q \in PullRequests : NegotiateSent(q)
    \/ ReadResponse \/ ReadPack \/ ClosePack \/ Close
    \/ RefsMove

Spec == Init /\ [][Next]_vars

-----------------------------------------------------------------------------
(* The sessions that stand for a repository without refs: an emptyPuller,  *)
(* and a pullV1 that has read nothing.                                     *)
TakenForEmpty == session = "empty" \/ (session = "v1" /\ ~v1.caps /\ ~v1.err)

(* ListRefs: an answer without error is the whole list of the refs that    *)
(* were asked for, all as they were at one moment (a version 1 session's   *)
(* are those of its start, however late they are read), and names no ref   *)
(* the remote did not have.  The exception is a session taken for that of  *)
(* an empty repository, which a connection lost early is too: see          *)
(* EmptyMeansEmpty.                                                        *)
ListingIsComplete ==
    listing.ok /\ ~TakenForEmpty =>
        /\ listing.there \cap listing.asked \subseteq listing.names
        /\ listing.names \subseteq listing.there
        /\ v1.known # {} => listing.there = Existing(advertised)

(* packfileReader.Read: io.EOF is only returned after every byte of the    *)
(* pack; a response that is cut, or that ends with the server's error      *)
(* after part of the pack, ends with another error.                        *)
EOFMeansWholePack ==
    /\ pack.err = "EOF" => pack.got = PackData
    /\ pack.err = "error" => fault # "none"

(* Negotiate: "it may be nil if the request set HaveMore and the remote    *)
(* didn't find a suitable base", and Acks are Have objects the remote      *)
(* shares: all of them if there is no packfile, and one at least if there  *)
(* is one although the request had more to offer.                          *)
AnswerIsSound ==
    /\ result = "no pack" => req.more /\ acks = req.have \cap Common
    /\ result = "pack" => /\ acks \subseteq req.have \cap Common
                          /\ req.more /\ req.have # {} => acks # {}

(* A response that a server sends in full to a request it can serve is     *)
(* understood, in both versions, with and without every section.           *)
ResponseUnderstood == result = "error" => fault # "none"

(* PullStream.Close "releases any resources used by the stream".  Of a     *)
(* version 2 session nothing stays open but the packfile that the caller   *)
(* holds; of a version 1 session its advertisement does not.               *)
NothingOpen ==
    session = "closed" /\ ~pack.held =>
        IF proto = 2 THEN open = {} ELSE 0 \notin open

(* "Old versions of Git (~2.17) will only send a flush packet on an empty  *)
(* repository" (pull.go): a session is only taken for that of an empty     *)
(* repository if the remote has no refs.                                   *)
EmptyMeansEmpty == TakenForEmpty => Existing(advertised) = {}
=============================================================================
