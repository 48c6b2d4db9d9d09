------------------------------ MODULE IndexFile ------------------------------
(***************************************************************************)
(* Packfile index files (packfile/index.go): what EncodeV2 and EncodeV1    *)
(* write, what ReadIndex makes of it, and the search in an index.  An      *)
(* object ID is a natural number (the code only compares IDs).  A file is  *)
(* a record of its tables, in the order the code writes and reads them.    *)
(***************************************************************************)
EXTENDS Integers, FiniteSetsExt, SequencesExt

CONSTANTS
    Large,              \* the first offset with bit 31 set: 2^31, scaled
    FirstByte,          \* the first byte of each object ID
    LastByte            \* the largest value of a byte, 255

ASSUME IndexAssumption ==
    /\ Large \in Nat \ {0}
    /\ LastByte \in Nat
    /\ DOMAIN FirstByte \subseteq Nat
    /\ \A id, other \in DOMAIN FirstByte :
         /\ FirstByte[id] \in 0..LastByte
         /\ id < other => FirstByte[id] <= FirstByte[other]

\* What the operators below return for an error.
Failed == [failed |-> TRUE]

\* A nil *Index, "treated the same as the Index for an empty packfile".
NilIndex == [ObjectIDs |-> <<>>, Offsets |-> <<>>]

\* Less compares IDs alone.  Two rows of one ID, which validate refuses, are in
\* the order of their offsets here and in any order in the code.
RowLess(r, q) == r.id < q.id \/ (r.id = q.id /\ r.offset < q.offset)

\* The index of a set of rows, sorted as BuildIndex leaves it.
SortedIndex(rows) ==
    LET n == Cardinality(rows)
        s == CHOOSE s \in [1..n -> rows] : \A i, j \in 1..n : i < j => RowLess(s[i], s[j])
    IN  [ObjectIDs |-> [i \in 1..n |-> s[i].id],
         Offsets   |-> [i \in 1..n |-> s[i].offset]]

StrictlySorted(ids) == \A i \in 2..Len(ids) : ids[i - 1] < ids[i]

validate(idx) ==
    Len(idx.ObjectIDs) = Len(idx.Offsets) /\ StrictlySorted(idx.ObjectIDs)

\* For each byte, how many objects have an ID that starts with it or a lower
\* one.
encodeFanOut(ids) ==
    [b \in 0..LastByte |-> Cardinality({i \in DOMAIN ids : FirstByte[ids[i]] <= b})]

\* The objects whose offsets need more than 31 bits, and how many are before i.
Big(offsets) == {i \in DOMAIN offsets : offsets[i] >= Large}
BigBefore(offsets, i) == Cardinality({j \in Big(offsets) : j < i})

\* Such an offset is replaced by its number in the table of large offsets,
\* marked with bit 31.
EncodeV2(idx) ==
    LET big == Big(idx.Offsets)
    IN  IF ~ validate(idx) THEN Failed
        ELSE [version |-> 2,
              fanOut  |-> encodeFanOut(idx.ObjectIDs),
              ids     |-> idx.ObjectIDs,
              words   |-> [i \in DOMAIN idx.Offsets |->
                             IF i \in big THEN Large + BigBefore(idx.Offsets, i)
                                          ELSE idx.Offsets[i]],
              large   |-> [n \in 1..Cardinality(big) |->
                             idx.Offsets[CHOOSE i \in big : BigBefore(idx.Offsets, i) = n - 1]]]

\* Offsets are cut to 32 bits, and the code refuses those of 34 bits.
EncodeV1(idx) ==
    IF ~ validate(idx) \/ \E i \in DOMAIN idx.Offsets : idx.Offsets[i] >= 4 * Large
      THEN Failed
      ELSE [version |-> 1,
            fanOut  |-> encodeFanOut(idx.ObjectIDs),
            ids     |-> idx.ObjectIDs,
            words   |-> [i \in DOMAIN idx.Offsets |-> idx.Offsets[i] % (2 * Large)],
            large   |-> <<>>]

\* The other entries are skipped.
readIndexObjectCount(f) == f.fanOut[LastByte]

\* The table of large offsets is as long as the largest number used, and a
\* number used twice goes to the later object: the earlier keeps offset 0.
largeOffset(f, nobjs, i) ==
    IF \E j \in (i + 1)..nobjs : f.words[j] = f.words[i]
      THEN 0
      ELSE f.large[f.words[i] - Large + 1]

readIndexV2(f) ==
    LET nobjs  == readIndexObjectCount(f)
        marked == {i \in 1..nobjs : f.words[i] >= Large}
    IN  IF \/ ~ StrictlySorted(f.ids)
           \/ \E i \in marked : f.words[i] - Large >= Len(f.large)
          THEN Failed
          ELSE [ObjectIDs |-> SubSeq(f.ids, 1, nobjs),
                Offsets   |-> [i \in 1..nobjs |->
                                 IF i \in marked THEN largeOffset(f, nobjs, i)
                                                 ELSE f.words[i]]]

readIndexV1(f) ==
    LET nobjs == readIndexObjectCount(f)
    IN  IF ~ StrictlySorted(f.ids)
          THEN Failed
          ELSE [ObjectIDs |-> SubSeq(f.ids, 1, nobjs),
                Offsets   |-> SubSeq(f.words, 1, nobjs)]

ReadIndex(f) ==
    CASE f = Failed -> Failed
      [] f # Failed /\ f.version = 2 -> readIndexV2(f)
      [] f # Failed /\ f.version = 1 -> readIndexV1(f)

\* Where id is in the index, or -1: the first place whose ID is not smaller,
\* if the ID there is the one sought.
FindID(idx, id) ==
    LET notSmaller == {i \in DOMAIN idx.ObjectIDs : idx.ObjectIDs[i] >= id}
    IN  IF notSmaller = {} THEN -1
        ELSE IF idx.ObjectIDs[Min(notSmaller)] # id THEN -1
        ELSE Min(notSmaller)

=============================================================================
