------------------------------ MODULE PackStream ------------------------------
(***************************************************************************)
(* A packfile written by packfile.Writer, carried to somebody else, who    *)
(* gets it whole, cut short or with a wrong size in a header, and read     *)
(* serially there by packfile.Reader.                                      *)
(*                                                                         *)
(* A file is a sequence of tokens, each of which stands for one byte of    *)
(* the offsets: the file header, an object header, one unit of an object's *)
(* data inside its zlib stream, the end of that stream (its Adler-32), and *)
(* the trailing checksum.  A unit of data is a triple: a byte of a plain   *)
(* object, or in a delta its two sizes or an instruction.                  *)
(*                                                                         *)
(* A caller that got an error from Next stops; a destination that fails is *)
(* a pack cut short.                                                       *)
(***************************************************************************)
EXTENDS PackCodec

CONSTANTS
    Objects,            \* what a caller may write: [type, data, baseNo, baseID]
    IDOrders,           \* for each number of an object, its object ID
    MaxSize,            \* units of an object's data
    MaxObjects,         \* objects in a pack
    MaxChunk            \* units in one call of Write or Read

NonDelta(type) == type \notin {"OffsetDelta", "RefDelta"}

\* What is no delta has no base.
IsObject(o) ==
    /\ Len(o.data) \in 0..MaxSize
    /\ o.data = [n \in 1..Len(o.data) |-> o.data[n]]
    /\ NonDelta(o.type) => o.baseID = 0

\* No object is farther into a pack.
LongestPack == 1 + (MaxObjects * (MaxSize + 2))

\* The code reads offsets of 8 bytes, which is farther than a file goes.
ASSUME StreamAssumption ==
    /\ MaxSize \in Nat
    /\ MaxObjects \in Nat
    /\ MaxChunk \in Nat \ {0}
    /\ \A o \in Objects : IsObject(o)
    /\ \A distance \in 1..LongestPack : Len(appendOffset(distance)) <= MaxOffsetBytes
    /\ \A ids \in IDOrders : \A i, j \in 1..MaxObjects :
         i # j => ids[i] # ids[j]

VARIABLES
    ids,                \* the object IDs of the objects, in the order written
    file,               \* the tokens
    writer,             \* packfile.Writer
    meant,              \* the objects WriteHeader accepted
    phase,              \* "writing", then "serial" or "random"
    sent,               \* the file as it was when it was sent
    reader,             \* packfile.Reader
    seen,               \* what its caller got: a header and data for each object
    said                \* what its last call returned

streamVars == <<ids, file, writer, meant, phase, sent, reader, seen, said>>

-----------------------------------------------------------------------------
(* The format.                                                             *)

HeadToken(n)   == [kind |-> "head", count |-> n]
DataToken(u)   == [kind |-> "data", unit |-> u]
EndToken       == [kind |-> "end"]
SumToken(of)   == [kind |-> "sum", of |-> of]
Data(units)    == [i \in DOMAIN units |-> DataToken(units[i])]

\* hdr.base is the offset of the base, its object ID, or of no meaning.
ObjectToken(offset, hdr) ==
    [kind |-> "object", type |-> hdr.type, size |-> appendLengthType(hdr.size),
     base |-> IF hdr.type = "OffsetDelta" THEN appendOffset(offset - hdr.base)
              ELSE IF hdr.type = "RefDelta" THEN <<hdr.base>>
              ELSE <<>>]

\* There is an object's header after the first `offset` tokens.
HasHeader(offset) ==
    offset \in 0..(Len(file) - 1) /\ file[offset + 1].kind = "object"

readObjectHeader(offset) ==
    LET t == file[offset + 1]
    IN  [offset |-> offset, type |-> t.type, size |-> readLengthType(t.size),
         base   |-> IF t.type = "OffsetDelta" THEN offset - readOffset(t.base)
                    ELSE IF t.type = "RefDelta" THEN Head(t.base)
                    ELSE 0]

\* zlib on the tokens after the first `at`: where its data ends, whether the
\* stream ends there as it must, and the data.
DataEnd(at) ==
    CHOOSE e \in at..Len(file) :
        /\ \A i \in (at + 1)..e : file[i].kind = "data"
        /\ e < Len(file) => file[e + 1].kind # "data"

Inflates(at) == DataEnd(at) < Len(file) /\ file[DataEnd(at) + 1].kind = "end"

Inflate(at) == [i \in 1..(DataEnd(at) - at) |-> file[at + i].unit]

-----------------------------------------------------------------------------
(* The writer.                                                             *)

Writing == phase = "writing" /\ ~ writer.closed

\* Writer.init: the file header goes before anything else, once.
WithFileHeader == IF file = <<>> THEN <<HeadToken(writer.left)>> ELSE file

\* The zlib stream of the previous object, if there is one, is ended.
PreviousEnded(f) == IF writer.open THEN Append(f, EndToken) ELSE f

BaseOf(o) == IF o.type = "OffsetDelta" THEN meant[o.baseNo].hdr.offset ELSE o.baseID

\* The header a caller may ask for: its base is an object written before, or
\* any other whose content does not rest on this one (a content cannot hold
\* its own hash).
CanMean(o) ==
    LET id == ids[Len(meant) + 1]
    IN  /\ o.type = "OffsetDelta" => o.baseNo \in DOMAIN meant
        /\ o.type = "RefDelta" => o.baseID # id
        /\ (\E i \in DOMAIN meant : /\ meant[i].hdr.type = "RefDelta"
                                    /\ meant[i].hdr.base = id)
             => NonDelta(o.type)

WriteHeader(o) ==
    LET start == PreviousEnded(WithFileHeader)
        hdr   == [offset |-> Len(start), type |-> o.type, size |-> Len(o.data),
                  base |-> BaseOf(o)]
    IN  /\ Writing
        /\ writer.remaining = 0
        /\ writer.left > 0
        /\ CanMean(o)
        /\ file' = Append(start, ObjectToken(Len(start), hdr))
        /\ writer' = [writer EXCEPT !.left = @ - 1, !.open = TRUE,
                                    !.remaining = hdr.size]
        /\ meant' = Append(meant, [hdr |-> hdr, data |-> o.data])
        /\ UNCHANGED <<ids, phase, sent, reader, seen, said>>

\* One header too many is an error, found after the stream of the previous
\* object was ended; the writer remembers nothing of that.
WriteHeaderTooMany ==
    /\ Writing
    /\ writer.remaining = 0
    /\ writer.left = 0
    /\ ~ writer.extra                           \* one such call
    /\ file' = PreviousEnded(WithFileHeader)
    /\ writer' = [writer EXCEPT !.extra = TRUE]
    /\ UNCHANGED <<ids, meant, phase, sent, reader, seen, said>>

\* The caller has the object's data and one unit too many, and hands over the
\* next k units of it; what exceeds the object is cut off (and an error).
Surplus == <<"byte", 0, 0>>

Write(k) ==
    LET object == meant[Len(meant)]
        done   == object.hdr.size - writer.remaining
        p      == SubSeq(Append(object.data, Surplus), done + 1,
                         Min({done + k, Len(object.data) + 1}))
        taken  == SubSeq(p, 1, Min({Len(p), writer.remaining}))
    IN  /\ Writing
        /\ writer.open
        /\ file' = file \o Data(taken)
        /\ writer' = [writer EXCEPT !.remaining = @ - Len(taken)]
        /\ UNCHANGED <<ids, meant, phase, sent, reader, seen, said>>

\* Close succeeds; otherwise it returns an error and does nothing.
CloseWriter ==
    LET body == PreviousEnded(WithFileHeader)
    IN  /\ Writing
        /\ writer.left = 0
        /\ writer.remaining = 0
        /\ file' = Append(body, SumToken(body))
        /\ writer' = [writer EXCEPT !.closed = TRUE]
        /\ UNCHANGED <<ids, meant, phase, sent, reader, seen, said>>

-----------------------------------------------------------------------------
(* The way from the writer to the reader.                                  *)

Arrive(as, f) ==
    /\ phase = "writing"
    /\ writer.closed
    /\ phase' = as
    /\ sent' = file
    /\ file' = f
    /\ UNCHANGED <<ids, writer, meant, reader, seen, said>>

\* Only the first n tokens arrive.
ArriveCut(as, n) == n < Len(file) /\ Arrive(as, SubSeq(file, 1, n))

\* The size in the header of object i is off by d.
ArriveDamaged(i, d) ==
    LET at   == meant[i].hdr.offset + 1
        size == meant[i].hdr.size + d
    IN  /\ i \in DOMAIN meant
        /\ size >= 0
        /\ Arrive("serial", [file EXCEPT ![at].size = appendLengthType(size)])

-----------------------------------------------------------------------------
(* The reader.                                                             *)

Reading == phase = "serial" /\ said \notin {"EOF", "error"}

NextReturns(result) ==
    said' = result /\ UNCHANGED <<ids, file, writer, meant, phase, sent>>

NextFails(at) ==
    /\ reader' = [reader EXCEPT !.at = at]
    /\ UNCHANGED seen
    /\ NextReturns("error")

\* Reader.init: the first call reads the file header.
Started == reader.at > 0
HeaderRead == Started \/ Len(file) > 0
ObjectsLeft == IF Started THEN reader.left ELSE file[1].count
Position == IF Started THEN reader.at ELSE 1

\* What Next finds of the current object: the units not read yet.
Discarded == IF reader.z = "open" THEN DataEnd(reader.at) - reader.at ELSE 0

\* A slip: the end of the zlib stream is enough.
CurrentCompleteAnySize ==
    reader.z = "open" => Inflates(reader.at)

CurrentComplete ==
    \/ reader.z = "none"
    \/ /\ reader.z = "open" => Inflates(reader.at)
       /\ Discarded = reader.remaining

AfterCurrent == IF reader.z = "open" THEN DataEnd(reader.at) + 1 ELSE Position

\* The input ends early, or the current object has not the size of its header.
NextRefuses ==
    /\ Reading
    /\ ~ (HeaderRead /\ CurrentComplete)
    /\ NextFails(reader.at)

\* The checksum is skipped, not verified.
NextEnds ==
    /\ Reading
    /\ HeaderRead /\ CurrentComplete
    /\ ObjectsLeft = 0
    /\ AfterCurrent < Len(file)
    /\ reader' = [reader EXCEPT !.at = AfterCurrent + 1]
    /\ UNCHANGED seen
    /\ NextReturns("EOF")

\* No checksum, no header or no zlib stream where one must be.  The code
\* wraps io.EOF in the first two errors; a caller compares with ==.
NextCut ==
    /\ Reading
    /\ HeaderRead /\ CurrentComplete
    /\ IF ObjectsLeft = 0 THEN AfterCurrent = Len(file)
                          ELSE ~ HasHeader(AfterCurrent) \/ AfterCurrent + 1 = Len(file)
    /\ NextFails(AfterCurrent)

NextObject ==
    LET hdr == readObjectHeader(AfterCurrent)
    IN  /\ Reading
        /\ HeaderRead /\ CurrentComplete
        /\ ObjectsLeft > 0
        /\ HasHeader(AfterCurrent) /\ AfterCurrent + 1 < Len(file)
        /\ reader' = [at |-> AfterCurrent + 1, left |-> ObjectsLeft - 1,
                      z |-> "open", remaining |-> hdr.size]
        /\ seen' = Append(seen, [hdr |-> hdr, data |-> <<>>, ended |-> FALSE])
        /\ NextReturns("object")

\* Read(p) with Len(p) = k.  zlib gives n units, and may tell the end of its
\* stream with the last of them or after them.
Read(k) ==
    LET there == Discarded
        n     == Min({k, there})
        over  == reader.remaining - n
        given == Inflate(reader.at)
        got   == seen[Len(seen)]
    IN  /\ Reading
        /\ reader.z # "none"
        /\ reader.remaining >= 0
        /\ \E atEnd \in BOOLEAN :
             /\ atEnd => n = there /\ (reader.z = "open" => Inflates(reader.at))
             /\ ~ atEnd => n > 0 \/ ~ Inflates(reader.at)
             /\ ~ atEnd => reader.z = "open"
             /\ LET failed == \/ over < 0
                              \/ atEnd /\ over > 0
                              \/ ~ atEnd /\ n = 0
                IN /\ seen' = [seen EXCEPT ![Len(seen)] =
                        [got EXCEPT !.data = got.data \o
                                      (IF reader.z = "open"
                                         THEN SubSeq(given, 1, Min({n, reader.remaining}))
                                       ELSE <<>>),
                                    !.ended = got.ended \/ (atEnd /\ ~ failed)]]
                   /\ said' = IF failed THEN "bad object"
                              ELSE IF atEnd THEN "object end" ELSE "data"
             /\ reader' = [reader EXCEPT
                  !.at = @ + n + (IF atEnd /\ reader.z = "open" THEN 1 ELSE 0),
                  !.z = IF atEnd THEN "ended" ELSE @,
                  !.remaining = over]
        /\ UNCHANGED <<ids, file, writer, meant, phase, sent>>

-----------------------------------------------------------------------------

StreamInit ==
    /\ ids \in IDOrders
    /\ file = <<>> /\ sent = <<>>
    /\ writer \in [left : 0..MaxObjects, remaining : {0}, open : {FALSE},
                   extra : {FALSE}, closed : {FALSE}]
    /\ meant = <<>>
    /\ phase = "writing"
    /\ reader = [at |-> 0, left |-> 0, z |-> "none", remaining |-> 0]
    /\ seen = <<>>
    /\ said = ""

=============================================================================
