------------------------------ MODULE Undeltify ------------------------------
(***************************************************************************)
(* Random access to the packfile of PackStream: packfile.Undeltifier reads *)
(* an object at an offset and applies the deltas it is stored as           *)
(* (packfile/delta.go).  The base of a reference delta is found in the     *)
(* pack's index, which went through an index file.  One Undeltifier serves *)
(* all calls, and its buffers live on from one to the next.                *)
(***************************************************************************)
EXTENDS PackStream, IndexFile

CONSTANTS
    Versions,           \* index file versions in use, 0 for no index
    CopyAll,            \* the size a copy instruction without a size has
    MaxDeltaObjectSize, \* the largest base of a delta read into memory
    MaxCalls,           \* calls of Undeltify
    MaxCut              \* tokens that may arrive of a pack cut short

\* A unit has a name and two numbers.
IsUnit(unit) == unit = <<unit[1], unit[2], unit[3]>> /\ unit[2] \in Nat /\ unit[3] \in Nat

ASSUME UndeltifyAssumption ==
    /\ Versions \subseteq {0, 1, 2}
    /\ CopyAll \in Nat \ {0}
    /\ MaxDeltaObjectSize \in Nat
    /\ MaxCalls \in Nat
    /\ MaxCut \in Nat
    /\ \A order \in IDOrders : \A i \in 1..MaxObjects : order[i] \in DOMAIN FirstByte
    /\ \A o \in Objects : o.baseID \in Nat /\ \A n \in 1..Len(o.data) : IsUnit(o.data[n])

VARIABLES
    index,              \* opts.Index, nil until one is read
    u,                  \* Undeltifier: baseBuf and targetBuf
    calls,              \* calls so far
    call                \* the last one: the offset, and what came of it

vars == <<streamVars, index, u, calls, call>>

NoCall == [no |-> 0, result |-> "none", prefix |-> <<>>, data |-> <<>>]

-----------------------------------------------------------------------------
(* DeltaReader: a delta is its two sizes and instructions to copy from the *)
(* base and to add a byte.                                                 *)

CopySize(instruction) == IF instruction[3] = 0 THEN CopyAll ELSE instruction[3]

\* readInstruction and Read, until io.EOF or an error.
Instruct(base, r, i) ==
    CASE ~ r.ok -> r
      [] r.ok /\ i[1] = "copy" ->
           [ok  |-> i[2] + CopySize(i) <= Len(base),
            out |-> r.out \o SubSeq(base, i[2] + 1, Min({i[2] + CopySize(i), Len(base)}))]
      [] r.ok /\ i[1] = "add" ->
           [ok |-> TRUE, out |-> Append(r.out, <<"byte", i[2], 0>>)]
      [] OTHER -> [ok |-> FALSE, out |-> r.out]

\* The sizes must be there; what they say is not looked at.
ReadDelta(base, delta) ==
    LET read[n \in 1..Len(delta)] ==
          IF n = 1 THEN [ok |-> TRUE, out |-> <<>>]
                   ELSE Instruct(base, read[n - 1], delta[n])
    IN  IF delta = <<>> \/ delta[1][1] # "sizes"
          THEN [ok |-> FALSE, out |-> <<>>]
          ELSE read[Len(delta)]

DeltaObjectSize(delta) ==
    LET size[n \in 1..Len(delta)] ==
          IF n = 1 THEN 0
          ELSE size[n - 1] + (IF delta[n][1] = "copy" THEN CopySize(delta[n]) ELSE 1)
    IN  size[Len(delta)]

-----------------------------------------------------------------------------
(* walkDeltaChain: from header to header down to a plain object, keeping   *)
(* the places of the deltas.                                               *)

Deeper(w) ==
    LET hdr   == readObjectHeader(w.at)
        place == FindID(index, hdr.base)
        next  == [w EXCEPT !.stack = Append(@, w.at + 1)]
    IN  CASE w.state # "walking" -> w
          [] w.state = "walking" /\ ~ HasHeader(w.at) ->
               \* the error names the header that could not be read
               [w EXCEPT !.state = IF w.stack = <<>> THEN "error" ELSE "nil dereference"]
          [] w.state = "walking" /\ HasHeader(w.at) /\ NonDelta(hdr.type) ->
               [w EXCEPT !.state = "found"]
          [] w.state = "walking" /\ HasHeader(w.at) /\ hdr.type = "OffsetDelta" ->
               [next EXCEPT !.at = hdr.base]
          [] OTHER ->
               IF place = -1
                 THEN [w EXCEPT !.state = "error"]
                 ELSE [next EXCEPT !.at = index.Offsets[place]]

walkDeltaChain(offset) ==
    LET walk[n \in 0..(MaxObjects + 1)] ==
          IF n = 0 THEN [at |-> offset, stack |-> <<>>, state |-> "walking"]
                   ELSE Deeper(walk[n - 1])
    IN  walk[MaxObjects + 1]

-----------------------------------------------------------------------------
(* Undeltify.                                                              *)

\* A slip: without the Reset.
RefillNoReset(buffer, data) == buffer \o data

\* Reset and write: the buffer holds nothing of an earlier use.
Refill(buffer, data) == data

\* One delta of the stack, on what is in baseBuf; the buffers change places.
ApplyOne(r, at) ==
    LET d == ReadDelta(r.base, Inflate(at))
    IN  IF ~ r.ok THEN r
        ELSE IF d.ok /\ Inflates(at)
          THEN [ok |-> TRUE, base |-> Refill(r.target, d.out), target |-> r.base]
          ELSE [ok |-> FALSE, base |-> r.base, target |-> Refill(r.target, d.out)]

\* The stack from its top.
ApplyAll(base, stack) ==
    LET applied[n \in 0..Len(stack)] ==
          IF n = 0 THEN [ok |-> TRUE, base |-> base, target |-> u.target]
                   ELSE ApplyOne(applied[n - 1], stack[Len(stack) - n + 1])
    IN  applied[Len(stack)]

\* Undeltify is called at the offset of object no.
Calling(no) ==
    /\ phase = "random"
    /\ no \in DOMAIN meant
    /\ calls < MaxCalls
    /\ call.result # "nil dereference"          \* which ends the program
    /\ calls' = calls + 1
    /\ UNCHANGED <<streamVars, index>>

Walk(no) == walkDeltaChain(meant[no].hdr.offset)

ResolveType(no) == readObjectHeader(Walk(no).at).type

\* The base of the chain is there, with at least the start of its stream.
BaseFound(w) == w.state = "found" /\ w.at + 1 < Len(file)

Returns(no, result, prefix, data) ==
    call' = [no |-> no, result |-> result, prefix |-> prefix, data |-> data]

UndeltifyFails(no) ==
    LET w == Walk(no)
    IN  /\ Calling(no)
        /\ ~ BaseFound(w)
        /\ UNCHANGED u
        /\ Returns(no, IF w.state = "found" THEN "error" ELSE w.state, <<>>, <<>>)

\* A plain object is returned as the zlib stream of the file, which the
\* caller reads; the size is the header's.
UndeltifyPlain(no) ==
    LET w   == Walk(no)
        hdr == readObjectHeader(w.at)
    IN  /\ Calling(no)
        /\ BaseFound(w)
        /\ w.stack = <<>>
        /\ UNCHANGED u
        /\ Returns(no, IF Inflates(w.at + 1) THEN "read" ELSE "cut",
                   <<hdr.type, hdr.size>>, Inflate(w.at + 1))

\* A deltified object is put together in the buffers.
UndeltifyDelta(no) ==
    LET w    == Walk(no)
        hdr  == readObjectHeader(w.at)
        base == Refill(u.base, Inflate(w.at + 1))
        r    == ApplyAll(base, w.stack)
    IN  /\ Calling(no)
        /\ BaseFound(w)
        /\ w.stack # <<>>
        /\ CASE hdr.size > MaxDeltaObjectSize ->
                  UNCHANGED u /\ Returns(no, "error", <<>>, <<>>)
             [] hdr.size <= MaxDeltaObjectSize /\ ~ Inflates(w.at + 1) ->
                  /\ u' = [u EXCEPT !.base = base]
                  /\ Returns(no, "error", <<>>, <<>>)
             [] OTHER ->
                  /\ u' = [base |-> r.base, target |-> r.target]
                  /\ IF r.ok
                       THEN Returns(no, "read", <<hdr.type, Len(r.base)>>, r.base)
                       ELSE Returns(no, "error", <<>>, <<>>)

-----------------------------------------------------------------------------
(* The index: of the whole pack, written to a file and read back.          *)

Rows == {[id |-> ids[i], offset |-> meant[i].hdr.offset] : i \in DOMAIN meant}

\* A caller keeps to what the format of version 1 can hold: no packfile
\* larger than 4 GiB.
OpenIndex(version) ==
    LET written == IF version = 1 THEN EncodeV1(SortedIndex(Rows))
                                  ELSE EncodeV2(SortedIndex(Rows))
    IN  /\ phase = "random"
        /\ calls = 0 /\ index = NilIndex
        /\ version = 1 => Len(sent) <= 2 * Large
        /\ ReadIndex(written) # Failed
        /\ index' = ReadIndex(written)
        /\ UNCHANGED <<streamVars, u, calls, call>>

-----------------------------------------------------------------------------

Init ==
    /\ StreamInit
    /\ index = NilIndex
    /\ u = [base |-> <<>>, target |-> <<>>]
    /\ calls = 0
    /\ call = NoCall

RandomUnchanged == UNCHANGED <<index, u, calls, call>>

Next ==
    \/ \E o \in Objects : WriteHeader(o) /\ RandomUnchanged
    \/ WriteHeaderTooMany /\ RandomUnchanged
    \/ \E k \in 1..MaxChunk : Write(k) /\ RandomUnchanged
    \/ CloseWriter /\ RandomUnchanged
    \/ \E as \in {"serial", "random"} : Arrive(as, file) /\ RandomUnchanged
    \/ \E as \in {"serial", "random"}, n \in 0..MaxCut :
         ArriveCut(as, n) /\ RandomUnchanged
    \/ \E i \in 1..MaxObjects, d \in {-1, 1} : ArriveDamaged(i, d) /\ RandomUnchanged
    \/ NextRefuses /\ RandomUnchanged
    \/ NextEnds /\ RandomUnchanged
    \/ NextCut /\ RandomUnchanged
    \/ NextObject /\ RandomUnchanged
    \/ \E k \in 1..MaxChunk : Read(k) /\ RandomUnchanged
    \/ \E version \in Versions : OpenIndex(version)
    \/ \E no \in 1..MaxObjects : UndeltifyFails(no)
    \/ \E no \in 1..MaxObjects : UndeltifyPlain(no)
    \/ \E no \in 1..MaxObjects : UndeltifyDelta(no)

Spec == Init /\ [][Next]_vars

-----------------------------------------------------------------------------
(* What an object is, told from what the writer's caller meant.            *)

BaseNumber(i) ==
    IF meant[i].hdr.type = "OffsetDelta"
      THEN {j \in DOMAIN meant : meant[j].hdr.offset = meant[i].hdr.base}
      ELSE {j \in DOMAIN meant : index # NilIndex /\ ids[j] = meant[i].hdr.base}

Pieces(base, delta) ==
    [n \in 1..(Len(delta) - 1) |->
       IF delta[n + 1][1] = "add"
         THEN <<<<"byte", delta[n + 1][2], 0>>>>
         ELSE SubSeq(base, delta[n + 1][2] + 1,
                     delta[n + 1][2] + CopySize(delta[n + 1]))]

\* A delta is its sizes and instructions, and every copy is within the base.
Applies(base, delta) ==
    /\ delta # <<>> /\ delta[1][1] = "sizes"
    /\ \A n \in 2..Len(delta) :
         \/ delta[n][1] = "add"
         \/ delta[n][1] = "copy" /\ delta[n][2] + CopySize(delta[n]) <= Len(base)

NoContent == [ok |-> FALSE, type |-> "none", data |-> <<>>]

Content[i \in 1..MaxObjects] ==
    LET type == meant[i].hdr.type
        data == meant[i].data
    IN  IF NonDelta(type)
          THEN [ok |-> TRUE, type |-> type, data |-> data]
        ELSE IF BaseNumber(i) = {} THEN NoContent
        ELSE LET j == CHOOSE j \in BaseNumber(i) : TRUE
                 b == Content[j]
             IN  IF \/ ~ b.ok
                    \/ NonDelta(meant[j].hdr.type) /\ Len(b.data) > MaxDeltaObjectSize
                    \/ ~ Applies(b.data, data)
                   THEN NoContent
                   ELSE [ok |-> TRUE, type |-> b.type,
                         data |-> FlattenSeq(Pieces(b.data, data))]

-----------------------------------------------------------------------------
(* Properties.                                                             *)

\* What Writer.Close accepted reads back through Reader: the headers, in
\* their order, the data, however it was written and is read, no error, and
\* after the last object a trailer over everything before it and nothing
\* else.  A caller that asked for an object too many had an error to heed.
ReadsBack ==
    (phase = "serial" /\ file = sent /\ ~ writer.extra) =>
      /\ said \notin {"error", "bad object"}
      /\ Len(seen) <= Len(meant)
      /\ \A i \in DOMAIN seen :
           /\ seen[i].hdr = meant[i].hdr
           /\ IsPrefix(seen[i].data, meant[i].data)
           /\ seen[i].ended => seen[i].data = meant[i].data
      /\ said = "EOF" =>
           /\ Len(seen) = Len(meant)
           /\ reader.at = Len(file)
           /\ file[reader.at] = SumToken(SubSeq(file, 1, reader.at - 1))

\* A pack cut short, or with an object that has not the size its header says,
\* never reads to io.EOF, neither from Next nor, for that object, from Read.
\* (After one header too many the trailer of the pack is not where Next looks
\* for it, and the pack is not sound to begin with.)
EOFMeansWhole ==
    /\ said = "EOF" /\ ~ writer.extra => file = sent
    /\ \A i \in DOMAIN seen :
         /\ IsPrefix(seen[i].data, meant[i].data)
         /\ seen[i].ended => /\ seen[i].data = meant[i].data
                             /\ seen[i].hdr = meant[i].hdr

\* Undeltify returns an object with the type of the root of its chain of
\* deltas, its content and the content's size, whatever an earlier call left
\* in the Undeltifier; of a whole pack it returns every object whose bases
\* are known, and ResolveType its type and DeltaObjectSize its size.  A pack
\* cut short never gives anything but a part of an object, with an error.
UndeltifyExact ==
    call.result # "none" =>
      LET c == Content[call.no]
      IN  /\ file = sent => (call.result = "read" <=> c.ok)
          /\ call.result = "read" =>
               /\ call.data = c.data
               /\ call.prefix = <<c.type, Len(c.data)>>
               /\ ResolveType(call.no) = c.type
               /\ ~ NonDelta(meant[call.no].hdr.type) =>
                    DeltaObjectSize(meant[call.no].data) = Len(c.data)
          /\ call.result = "cut" => IsPrefix(call.data, c.data)
          /\ call.result = "nil dereference" => file # sent

=============================================================================
