----------------------------- MODULE ObjectProofs -----------------------------
(***************************************************************************)
(* Proofs about the package object.                                        *)
(*                                                                         *)
(* Trees of any size and any names without a slash: treeEntryLess is the   *)
(* lexicographic order of the names with a slash after those of            *)
(* directories, so it is total, a file is before the directory of its      *)
(* name, and a name is found where the order puts it.                      *)
(*                                                                         *)
(* Commits of any fields, and bytes of any lines: MarshalBinary lays its   *)
(* pieces out at places that the lengths of the fields give, the parser    *)
(* holds what the lines so far say, and so the two agree on every length.  *)
(***************************************************************************)
EXTENDS ObjectBytes, TLAPS, SequenceTheorems, WellFoundedInduction

LessPairs == {ss \in Nat \X Nat : ss[1] < ss[2]}

(* A set of numbers that is not empty has a least element: what stands for *)
(* induction in these proofs.                                              *)
LEMMA LeastNumber ==
    ASSUME NEW S \in SUBSET Nat, S # {}
    PROVE  \E n \in S : \A m \in S : n <= m
<1>1. IsWellFoundedOn(LessPairs, Nat)
  BY NatLessThanWellFounded DEF OpToRel, LessPairs
<1>2. PICK x \in S : \A y \in S : <<y, x>> \notin LessPairs
  BY <1>1, WFMin
<1>3. ASSUME NEW a \in Nat, NEW b \in Nat, a < b PROVE <<a, b>> \in LessPairs
  BY <1>3 DEF LessPairs
<1>4. \A y \in S : ~(y < x)
  BY <1>2, <1>3
<1>5. x \in Nat
  OBVIOUS
<1>6. \A y \in S : x <= y
  BY <1>4, <1>5
<1> QED
  BY <1>6

-----------------------------------------------------------------------------
(* Go's order of strings.                                                  *)

Byte == 0..255
Str == Seq(Byte)

LEMMA ByteOfString ==
    ASSUME NEW s \in Str, NEW i \in 1..Len(s)
    PROVE  s[i] \in Nat
<1>1. s[i] \in Byte
  BY ElementOfSeq, Zenon DEF Str
<1>2. \A b \in Byte : b \in Nat
  BY DEF Byte
<1> QED
  BY <1>1, <1>2, Zenon

LEMMA StringLessIrreflexive ==
    ASSUME NEW s \in Str
    PROVE  ~StringLess(s, s)
<1> SUFFICES ASSUME StringLess(s, s) PROVE FALSE
  OBVIOUS
<1>1. PICK k \in 0..Len(s) : k < Len(s) /\ (k = Len(s) \/ s[k + 1] < s[k + 1])
  BY DEF StringLess
<1>2. Len(s) \in Nat
  BY DEF Str
<1>3. k + 1 \in 1..Len(s)
  BY <1>1, <1>2
<1>4. s[k + 1] \in Nat
  BY <1>3, ByteOfString
<1> QED
  BY <1>1, <1>2, <1>4

LEMMA StringLessTransitive ==
    ASSUME NEW s \in Str, NEW t \in Str, NEW r \in Str,
           StringLess(s, t), StringLess(t, r)
    PROVE  StringLess(s, r)
<1> USE DEF Str
<1>1. PICK k \in 0..Len(s) : /\ k < Len(t)
                             /\ \A j \in 1..k : s[j] = t[j]
                             /\ k = Len(s) \/ s[k + 1] < t[k + 1]
  BY DEF StringLess
<1>2. PICK l \in 0..Len(t) : /\ l < Len(r)
                             /\ \A j \in 1..l : t[j] = r[j]
                             /\ l = Len(t) \/ t[l + 1] < r[l + 1]
  BY DEF StringLess
<1>3. CASE k < l
  <2>1. k \in 0..Len(s) /\ k < Len(r)
    BY <1>1, <1>2, <1>3
  <2>2. \A j \in 1..k : s[j] = r[j]
    BY <1>1, <1>2, <1>3
  <2>3. t[k + 1] = r[k + 1]
    BY <1>1, <1>2, <1>3
  <2> QED
    BY <1>1, <2>1, <2>2, <2>3 DEF StringLess
<1>4. CASE l < k
  <2>1. l \in 0..Len(s) /\ l < Len(r) /\ l < Len(s) /\ l < Len(t)
    BY <1>1, <1>2, <1>4
  <2>2. \A j \in 1..l : s[j] = r[j]
    BY <1>1, <1>2, <1>4
  <2>3. s[l + 1] = t[l + 1]
    BY <1>1, <1>2, <1>4
  <2> QED
    BY <1>2, <2>1, <2>2, <2>3 DEF StringLess
<1>5. CASE k = l
  <2>1. k < Len(r) /\ k < Len(t) /\ k \in 0..Len(s)
    BY <1>1, <1>2, <1>5
  <2>2. \A j \in 1..k : s[j] = r[j]
    BY <1>1, <1>2, <1>5
  <2>3. CASE k = Len(s)
    BY <2>1, <2>2, <2>3 DEF StringLess
  <2>4. CASE k # Len(s)
    <3>1. s[k + 1] < t[k + 1] /\ t[k + 1] < r[k + 1]
      BY <1>1, <1>2, <1>5, <2>1, <2>4
    <3>2. s[k + 1] \in Nat /\ t[k + 1] \in Nat /\ r[k + 1] \in Nat
      <4>1. k + 1 \in 1..Len(s) /\ k + 1 \in 1..Len(t) /\ k + 1 \in 1..Len(r)
        BY <2>1, <2>4
      <4> QED
        BY <4>1, ByteOfString
    <3>3. s[k + 1] < r[k + 1]
      BY <3>1, <3>2
    <3> QED
      BY <2>1, <2>2, <3>3 DEF StringLess
  <2> QED
    BY <2>3, <2>4
<1> QED
  BY <1>1, <1>2, <1>3, <1>4, <1>5

LEMMA StringLessTotal ==
    ASSUME NEW s \in Str, NEW t \in Str,
           ~StringLess(s, t), ~StringLess(t, s)
    PROVE  s = t
<1> USE DEF Str
<1> DEFINE D == {i \in Nat : i < Len(s) /\ i < Len(t) /\ s[i + 1] # t[i + 1]}
<1>1. CASE D = {}
  <2>1. \A i \in Nat : i < Len(s) /\ i < Len(t) => s[i + 1] = t[i + 1]
    BY <1>1
  <2>2. ASSUME NEW j \in Nat \ {0}, j <= Len(s), j <= Len(t) PROVE s[j] = t[j]
    <3>1. j - 1 \in Nat /\ j - 1 < Len(s) /\ j - 1 < Len(t) /\ (j - 1) + 1 = j
      BY <2>2
    <3> QED
      BY <2>1, <3>1
  <2>3. Len(s) \in Nat /\ Len(t) \in Nat
    OBVIOUS
  <2>4. ~(Len(s) < Len(t))
    <3>1. ASSUME Len(s) < Len(t) PROVE \A j \in 1..Len(s) : s[j] = t[j]
      BY <2>2, <2>3, <3>1
    <3> QED
      BY <2>3, <3>1 DEF StringLess
  <2>5. ~(Len(t) < Len(s))
    <3>1. ASSUME Len(t) < Len(s) PROVE \A j \in 1..Len(t) : t[j] = s[j]
      BY <2>2, <2>3, <3>1
    <3> QED
      BY <2>3, <3>1 DEF StringLess
  <2>6. Len(s) = Len(t)
    BY <2>3, <2>4, <2>5
  <2> QED
    BY <2>2, <2>6
<1>2. CASE D # {}
  <2>1. PICK i \in D : \A m \in D : i <= m
    BY <1>2, LeastNumber
  <2>2. i \in Nat /\ i < Len(s) /\ i < Len(t) /\ s[i + 1] # t[i + 1]
    OBVIOUS
  <2>3. ASSUME NEW j \in 1..i PROVE s[j] = t[j]
    <3>1. j - 1 \in Nat /\ j - 1 < Len(s) /\ j - 1 < Len(t) /\ ~(i <= j - 1) /\ (j - 1) + 1 = j
      BY <2>2
    <3>2. j - 1 \notin D
      BY <2>1, <3>1
    <3> QED
      BY <3>1, <3>2
  <2> HIDE DEF D
  <2>4. i \in 0..Len(s) /\ i \in 0..Len(t)
    BY <2>2
  <2>5. s[i + 1] \in Nat /\ t[i + 1] \in Nat
    <3>1. i + 1 \in 1..Len(s) /\ i + 1 \in 1..Len(t)
      BY <2>2
    <3> QED
      BY <3>1, ByteOfString
  <2>6. s[i + 1] < t[i + 1] \/ t[i + 1] < s[i + 1]
    BY <2>2, <2>5
  <2> QED
    BY <2>2, <2>3, <2>4, <2>6 DEF StringLess
<1> QED
  BY <1>1, <1>2

-----------------------------------------------------------------------------
(* The order of a tree.                                                    *)

Component == {s \in Str : \A i \in 1..Len(s) : s[i] # Slash}

LEMMA NamesAreComponents == \A n \in Names : n \in Component
BY TreeAssumption DEF Component, Str, Byte

LEMMA LogicalName ==
    ASSUME NEW n \in Component, NEW d \in BOOLEAN
    PROVE  /\ n \in Str
           /\ Logical(n, d) \in Str
           /\ Len(n) \in Nat
           /\ Len(Logical(n, d)) = IF d THEN Len(n) + 1 ELSE Len(n)
           /\ \A j \in 1..Len(n) : Logical(n, d)[j] = n[j]
           /\ d => Logical(n, d)[Len(n) + 1] = Slash
<1>1. n \in Seq(Byte) /\ Len(n) \in Nat
  BY DEF Component, Str
<1>2. Slash \in Byte
  BY DEF Byte, Slash
<1>3. CASE d
  <2>1. Logical(n, d) = Append(n, Slash)
    BY <1>3 DEF Logical
  <2>2. /\ Append(n, Slash) \in Seq(Byte)
        /\ Len(Append(n, Slash)) = Len(n) + 1
        /\ \A j \in 1..Len(n) : Append(n, Slash)[j] = n[j]
        /\ Append(n, Slash)[Len(n) + 1] = Slash
    <3>1. Slash \in Byte /\ n \in Seq(Byte)
      BY <1>1, <1>2
    <3> HIDE DEF Byte
    <3> QED
      BY <3>1, AppendProperties
  <2> QED
    BY <1>1, <1>3, <2>1, <2>2 DEF Str
<1>4. CASE ~d
  BY <1>1, <1>4 DEF Logical, Str
<1> QED
  BY <1>3, <1>4

(* Two directories with one logical name have one name, and no file has    *)
(* the logical name of a directory.                                        *)
LEMMA LogicalInjective ==
    ASSUME NEW m \in Component, NEW n \in Component,
           NEW c \in BOOLEAN, NEW d \in BOOLEAN, Logical(m, c) = Logical(n, d)
    PROVE  m = n /\ c = d
<1>1. c = d
  <2>1. ASSUME NEW a \in Component, NEW b \in Component, Logical(a, TRUE) = Logical(b, FALSE)
        PROVE  FALSE
    <3>1. Logical(a, TRUE)[Len(a) + 1] = Slash /\ Len(Logical(a, TRUE)) = Len(a) + 1
      BY LogicalName
    <3>2. Logical(b, FALSE) = b
      BY DEF Logical
    <3>3. b[Len(a) + 1] = Slash /\ Len(b) = Len(a) + 1
      BY <2>1, <3>1, <3>2
    <3>4. Len(a) \in Nat
      BY LogicalName
    <3>5. Len(a) + 1 \in 1..Len(b)
      BY <3>3, <3>4
    <3>6. \A i \in 1..Len(b) : b[i] # Slash
      BY Zenon DEF Component
    <3> QED
      BY <3>3, <3>5, <3>6, Zenon
  <2>2. CASE c /\ ~d
    BY <2>1, <2>2
  <2>3. CASE d /\ ~c
    BY <2>1, <2>3
  <2> QED
    BY <2>2, <2>3
<1>2. Len(m) = Len(n) /\ Len(m) \in Nat
  BY <1>1, LogicalName
<1>3. \A j \in 1..Len(m) : m[j] = n[j]
  BY <1>2, LogicalName
<1>4. m \in Seq(Byte) /\ n \in Seq(Byte)
  BY DEF Component, Str
<1>5. m = n
  BY <1>2, <1>3, <1>4
<1> QED
  BY <1>1, <1>5

(* Strings that differ in their first k bytes are ordered as those are.    *)
LEMMA PrefixesDecide ==
    ASSUME NEW x \in Str, NEW y \in Str, NEW s \in Str, NEW t \in Str, NEW k \in Nat,
           k <= Len(x), k <= Len(y), Len(s) = k, Len(t) = k,
           \A j \in 1..k : s[j] = x[j], \A j \in 1..k : t[j] = y[j],
           NEW l \in 0..Len(s), l < Len(t), \A j \in 1..l : s[j] = t[j],
           l = Len(s) \/ s[l + 1] < t[l + 1]
    PROVE  StringLess(x, y)
<1>1. l \in 0..Len(x) /\ l < Len(y) /\ l + 1 \in 1..k /\ s[l + 1] < t[l + 1]
  BY DEF Str
<1>2. ASSUME NEW j \in 1..l PROVE x[j] = y[j]
  BY <1>1
<1>3. x[l + 1] < y[l + 1]
  BY <1>1
<1> QED
  BY <1>1, <1>2, <1>3 DEF StringLess

LEMMA DecidedByPrefixes ==
    ASSUME NEW x \in Str, NEW y \in Str, NEW s \in Str, NEW t \in Str, NEW k \in Nat,
           k <= Len(x), k <= Len(y), Len(s) = k, Len(t) = k,
           \A j \in 1..k : s[j] = x[j], \A j \in 1..k : t[j] = y[j],
           NEW l \in 0..Len(x), l < Len(y), \A j \in 1..l : x[j] = y[j],
           l = Len(x) \/ x[l + 1] < y[l + 1]
    PROVE  s = t \/ StringLess(s, t)
<1>1. CASE l < k
  <2>1. l \in 0..Len(s) /\ l < Len(t) /\ l + 1 \in 1..k /\ x[l + 1] < y[l + 1]
    BY <1>1 DEF Str
  <2>2. ASSUME NEW j \in 1..l PROVE s[j] = t[j]
    BY <2>1
  <2>3. s[l + 1] < t[l + 1]
    BY <2>1
  <2> QED
    BY <2>1, <2>2, <2>3 DEF StringLess
<1>2. CASE ~(l < k)
  <2>1. ASSUME NEW j \in 1..k PROVE s[j] = t[j]
    BY <1>2 DEF Str
  <2> QED
    BY <2>1 DEF Str
<1> QED
  BY <1>1, <1>2

LEMMA DifferingPrefixes ==
    ASSUME NEW x \in Str, NEW y \in Str, NEW s \in Str, NEW t \in Str, NEW k \in Nat,
           k <= Len(x), k <= Len(y), Len(s) = k, Len(t) = k,
           \A j \in 1..k : s[j] = x[j], \A j \in 1..k : t[j] = y[j]
    PROVE  s # t => (StringLess(s, t) <=> StringLess(x, y))
<1>1. StringLess(s, t) => StringLess(x, y)
  BY PrefixesDecide DEF StringLess
<1>2. ASSUME StringLess(x, y) PROVE s = t \/ StringLess(s, t)
  <2>1. \E l \in 0..Len(x) : /\ l < Len(y)
                             /\ \A j \in 1..l : x[j] = y[j]
                             /\ l = Len(x) \/ x[l + 1] < y[l + 1]
    BY <1>2, Zenon DEF StringLess
  <2> QED
    BY <2>1, DecidedByPrefixes
<1> QED
  BY <1>1, <1>2

(***************************************************************************)
(* treeEntryLess, which compares bytes without building a string, is Go's  *)
(* < on the names with the slash written out.                              *)
(***************************************************************************)
THEOREM PathOrder ==
    ASSUME NEW m \in Component, NEW n \in Component, NEW c \in BOOLEAN, NEW d \in BOOLEAN
    PROVE  treeEntryLess(m, c, n, d) <=> StringLess(Logical(m, c), Logical(n, d))
<1> DEFINE k == IF Len(n) < Len(m) THEN Len(n) ELSE Len(m)
           s == SubSeq(m, 1, k)
           t == SubSeq(n, 1, k)
           x == Logical(m, c)
           y == Logical(n, d)
           mm == IF k < Len(m) THEN m ELSE x
           nn == IF k < Len(n) THEN n ELSE y
<1>1. /\ m \in Str /\ n \in Str /\ x \in Str /\ y \in Str
      /\ Len(m) \in Nat /\ Len(n) \in Nat
      /\ Len(x) = IF c THEN Len(m) + 1 ELSE Len(m)
      /\ Len(y) = IF d THEN Len(n) + 1 ELSE Len(n)
      /\ \A j \in 1..Len(m) : x[j] = m[j]
      /\ \A j \in 1..Len(n) : y[j] = n[j]
      /\ c => x[Len(m) + 1] = Slash
      /\ d => y[Len(n) + 1] = Slash
  BY LogicalName
<1>2. k \in Nat /\ k <= Len(m) /\ k <= Len(n) /\ (k = Len(m) \/ k = Len(n))
  BY <1>1
<1>3. /\ s \in Str /\ t \in Str /\ Len(s) = k /\ Len(t) = k
      /\ \A j \in 1..k : s[j] = m[j] /\ s[j] = x[j]
      /\ \A j \in 1..k : t[j] = n[j] /\ t[j] = y[j]
  <2>1. s \in Str /\ Len(s) = k /\ \A j \in 1..k : s[j] = m[j]
    BY <1>1, <1>2 DEF Str
  <2>2. t \in Str /\ Len(t) = k /\ \A j \in 1..k : t[j] = n[j]
    BY <1>1, <1>2 DEF Str
  <2> QED
    BY <1>1, <1>2, <2>1, <2>2
<1>4. treeEntryLess(m, c, n, d) <=>
         IF s # t THEN StringLess(s, t)
         ELSE IF Len(mm) > k /\ Len(nn) > k /\ mm[k + 1] # nn[k + 1]
              THEN mm[k + 1] < nn[k + 1]
              ELSE Len(mm) < Len(nn)
  BY DEF treeEntryLess
<1>5. Len(x) \in Nat /\ Len(y) \in Nat /\ k <= Len(x) /\ k <= Len(y)
  BY <1>1, <1>2
<1> HIDE DEF k, s, t, x, y
<1>6. ASSUME s # t PROVE treeEntryLess(m, c, n, d) <=> StringLess(x, y)
  <2>1. (\A j \in 1..k : s[j] = x[j]) /\ (\A j \in 1..k : t[j] = y[j])
    BY <1>3
  <2>2. /\ x \in Str /\ y \in Str /\ s \in Str /\ t \in Str /\ k \in Nat
        /\ k <= Len(x) /\ k <= Len(y) /\ Len(s) = k /\ Len(t) = k
    BY <1>1, <1>2, <1>3, <1>5
  <2>3. StringLess(s, t) <=> StringLess(x, y)
    BY <1>6, <2>1, <2>2, DifferingPrefixes, Zenon
  <2> QED
    BY <1>4, <1>6, <2>3
<1>7. ASSUME s = t PROVE treeEntryLess(m, c, n, d) <=> StringLess(x, y)
  <2>1. \A j \in 1..k : x[j] = y[j]
    BY <1>3, <1>7
  <2>2. treeEntryLess(m, c, n, d) <=>
           IF Len(mm) > k /\ Len(nn) > k /\ mm[k + 1] # nn[k + 1]
           THEN mm[k + 1] < nn[k + 1]
           ELSE Len(mm) < Len(nn)
    BY <1>4, <1>7
  <2>3. /\ Len(x) > k => Len(mm) > k /\ mm[k + 1] = x[k + 1] /\ x[k + 1] \in Nat
        /\ ~(Len(x) > k) => Len(mm) = k /\ Len(x) = k
    <3>1. CASE k < Len(m)
      <4>1. mm = m /\ k + 1 \in 1..Len(m) /\ k + 1 \in 1..Len(x)
        BY <1>1, <1>2, <1>5, <3>1
      <4> QED
        BY <1>1, <1>2, <1>5, <3>1, <4>1, ByteOfString
    <3>2. CASE ~(k < Len(m))
      <4>1. mm = x
        BY <3>2
      <4>2. Len(x) > k => k + 1 \in 1..Len(x)
        BY <1>2, <1>5
      <4> QED
        BY <1>1, <1>2, <1>5, <4>1, <4>2, ByteOfString
    <3> QED
      BY <3>1, <3>2
  <2>4. /\ Len(y) > k => Len(nn) > k /\ nn[k + 1] = y[k + 1] /\ y[k + 1] \in Nat
        /\ ~(Len(y) > k) => Len(nn) = k /\ Len(y) = k
    <3>1. CASE k < Len(n)
      <4>1. nn = n /\ k + 1 \in 1..Len(n) /\ k + 1 \in 1..Len(y)
        BY <1>1, <1>2, <1>5, <3>1
      <4> QED
        BY <1>1, <1>2, <1>5, <3>1, <4>1, ByteOfString
    <3>2. CASE ~(k < Len(n))
      <4>1. nn = y
        BY <3>2
      <4>2. Len(y) > k => k + 1 \in 1..Len(y)
        BY <1>2, <1>5
      <4> QED
        BY <1>1, <1>2, <1>5, <4>1, <4>2, ByteOfString
    <3> QED
      BY <3>1, <3>2
  <2>5. CASE Len(x) > k /\ Len(y) > k /\ x[k + 1] = y[k + 1]
    (* One of the names ends here, so this byte is a slash, and a name has  *)
    (* none: both end here and are directories.                            *)
    <3>1. x[k + 1] = Slash
      BY <1>1, <1>2, <2>5
    <3>2. k = Len(m) /\ k = Len(n)
      <4>1. ASSUME k < Len(m) PROVE FALSE
        <5>1. k + 1 \in 1..Len(m)
          BY <1>1, <1>2, <4>1
        <5>2. m[k + 1] = Slash
          BY <1>1, <3>1, <5>1
        <5> QED
          BY <5>1, <5>2, Zenon DEF Component
      <4>2. ASSUME k < Len(n) PROVE FALSE
        <5>1. k + 1 \in 1..Len(n)
          BY <1>1, <1>2, <4>2
        <5>2. n[k + 1] = Slash
          BY <1>1, <2>5, <3>1, <5>1
        <5> QED
          BY <5>1, <5>2, Zenon DEF Component
      <4> QED
        BY <1>1, <1>2, <4>1, <4>2
    <3>3. c /\ d
      BY <1>1, <2>5, <3>2
    <3>4. m = n
      <4>1. \A j \in 1..k : m[j] = n[j]
        BY <1>3, <1>7
      <4>2. Len(m) = Len(n) /\ \A j \in 1..Len(m) : m[j] = n[j]
        BY <3>2, <4>1
      <4>3. m \in Seq(Byte) /\ n \in Seq(Byte)
        BY <1>1 DEF Str
      <4> QED
        BY <4>2, <4>3
    <3>5. x = y /\ mm = x /\ nn = y
      <4>1. x = y
        BY <3>3, <3>4, Zenon DEF x, y
      <4>2. ~(k < Len(m)) /\ ~(k < Len(n))
        BY <1>1, <3>2
      <4> QED
        BY <4>1, <4>2
    <3>6. ~StringLess(x, y)
      BY <1>1, <3>5, StringLessIrreflexive
    <3>7. ~treeEntryLess(m, c, n, d)
      BY <1>5, <2>2, <3>5
    <3> QED
      BY <3>6, <3>7
  <2>6. CASE Len(x) > k /\ Len(y) > k /\ x[k + 1] # y[k + 1]
    <3>1. treeEntryLess(m, c, n, d) <=> x[k + 1] < y[k + 1]
      BY <2>2, <2>3, <2>4, <2>6
    <3>2. ASSUME x[k + 1] < y[k + 1] PROVE StringLess(x, y)
      BY <1>2, <1>5, <2>1, <2>6, <3>2 DEF StringLess
    <3>3. ASSUME y[k + 1] < x[k + 1] PROVE StringLess(y, x)
      BY <1>2, <1>5, <2>1, <2>6, <3>3 DEF StringLess
    <3>4. ~(StringLess(x, y) /\ StringLess(y, x))
      BY <1>1, StringLessTransitive, StringLessIrreflexive
    <3>5. x[k + 1] < y[k + 1] \/ y[k + 1] < x[k + 1]
      BY <2>3, <2>4, <2>6
    <3>6. ~(x[k + 1] < y[k + 1] /\ y[k + 1] < x[k + 1])
      BY <2>3, <2>4, <2>6
    <3> QED
      BY <3>1, <3>2, <3>3, <3>4, <3>5, <3>6
  <2>7. CASE Len(x) = k /\ Len(y) > k
    <3>1. treeEntryLess(m, c, n, d)
      BY <1>2, <1>5, <2>2, <2>3, <2>4, <2>7
    <3>2. StringLess(x, y)
      BY <1>2, <1>5, <2>1, <2>7 DEF StringLess
    <3> QED
      BY <3>1, <3>2
  <2>8. CASE Len(y) = k
    <3>1. ~treeEntryLess(m, c, n, d)
      <4>1. Len(nn) = k /\ Len(mm) >= k /\ ~(Len(nn) > k)
        BY <1>2, <1>5, <2>3, <2>4, <2>8
      <4>2. Len(mm) \in Nat /\ Len(nn) \in Nat
        BY <1>1, <1>5
      <4> QED
        BY <1>2, <2>2, <4>1, <4>2
    <3>2. ~StringLess(x, y)
      <4>1. SUFFICES ASSUME StringLess(x, y) PROVE FALSE
        OBVIOUS
      <4>2. PICK l \in 0..Len(x) : l < Len(y) /\ (l = Len(x) \/ x[l + 1] < y[l + 1])
        BY <4>1 DEF StringLess
      <4>3. l + 1 \in 1..k /\ l # Len(x)
        BY <1>2, <1>5, <2>8, <4>2
      <4>4. x[l + 1] = y[l + 1] /\ l + 1 \in 1..Len(y)
        BY <1>2, <1>5, <2>1, <2>8, <4>3
      <4>5. y[l + 1] \in Nat
        BY <1>1, <4>4, ByteOfString
      <4> QED
        BY <4>2, <4>3, <4>4, <4>5
    <3> QED
      BY <3>1, <3>2
  <2> QED
    BY <1>2, <1>5, <2>5, <2>6, <2>7, <2>8
<1>8. treeEntryLess(m, c, n, d) <=> StringLess(x, y)
  BY <1>6, <1>7
<1> QED
  BY <1>8 DEF x, y

THEOREM TreeOrder ==
    ASSUME NEW m \in Component, NEW n \in Component, NEW o \in Component,
           NEW a \in BOOLEAN, NEW b \in BOOLEAN, NEW c \in BOOLEAN
    PROVE  /\ ~treeEntryLess(m, a, m, a)
           /\ treeEntryLess(m, a, n, b) /\ treeEntryLess(n, b, o, c)
                 => treeEntryLess(m, a, o, c)
           /\ treeEntryLess(m, a, n, b) \/ treeEntryLess(n, b, m, a) \/ (m = n /\ a = b)
<1>1. Logical(m, a) \in Str /\ Logical(n, b) \in Str /\ Logical(o, c) \in Str
  BY LogicalName
<1>2. ~treeEntryLess(m, a, m, a)
  BY <1>1, PathOrder, StringLessIrreflexive
<1>3. treeEntryLess(m, a, n, b) /\ treeEntryLess(n, b, o, c) => treeEntryLess(m, a, o, c)
  BY <1>1, PathOrder, StringLessTransitive
<1>4. treeEntryLess(m, a, n, b) \/ treeEntryLess(n, b, m, a) \/ Logical(m, a) = Logical(n, b)
  BY <1>1, PathOrder, StringLessTotal
<1> QED
  BY <1>2, <1>3, <1>4, LogicalInjective

(* "a" < "a/".                                                              *)
LEMMA FileBeforeDirectory ==
    ASSUME NEW n \in Component
    PROVE  treeEntryLess(n, FALSE, n, TRUE) /\ ~treeEntryLess(n, TRUE, n, FALSE)
<1>1. treeEntryLess(n, FALSE, n, TRUE)
  <2>0. Logical(n, FALSE) = n
    BY DEF Logical
  <2>1. Len(n) \in Nat
    BY LogicalName
  <2>2. Len(Logical(n, TRUE)) = Len(n) + 1
    BY LogicalName
  <2>3. \A j \in 1..Len(n) : Logical(n, TRUE)[j] = n[j]
    BY LogicalName
  <2>4. Len(n) \in 0..Len(n) /\ Len(n) < Len(Logical(n, TRUE))
    <3>1. \A a \in Nat : a \in 0..a /\ a < a + 1
      OBVIOUS
    <3> QED
      BY <2>1, <2>2, <3>1, Zenon
  <2>5. \A j \in 1..Len(n) : n[j] = Logical(n, TRUE)[j]
    BY <2>3
  <2>6. StringLess(n, Logical(n, TRUE))
    BY <2>4, <2>5, Zenon DEF StringLess
  <2> QED
    BY <2>0, <2>6, PathOrder
<1> QED
  BY <1>1, TreeOrder

-----------------------------------------------------------------------------
(* Searching.                                                              *)

NonDecreasing(t) ==
    \A i, j \in 1..Len(t) : i < j => ~EntryLess(t[j], t[i])

LEMMA EntryName ==
    ASSUME NEW e \in TreeEntry
    PROVE  e.Name \in Names /\ e.Name \in Component /\ IsDir(e.Mode) \in BOOLEAN
BY NamesAreComponents DEF TreeEntry, IsDir

LEMMA FirstNotLessExists ==
    ASSUME NEW t \in Seq(TreeEntry), NEW name, NEW isDir
    PROVE  LET i == FirstNotLess(t, name, isDir)
           IN /\ i \in 1..(Len(t) + 1)
              /\ \A j \in 1..(i - 1) : treeEntryLess(t[j].Name, IsDir(t[j].Mode), name, isDir)
              /\ i <= Len(t) => ~treeEntryLess(t[i].Name, IsDir(t[i].Mode), name, isDir)
<1> DEFINE S == {i \in 1..(Len(t) + 1) :
                   i <= Len(t) => ~treeEntryLess(t[i].Name, IsDir(t[i].Mode), name, isDir)}
<1>1. Len(t) + 1 \in S /\ S \in SUBSET Nat
  OBVIOUS
<1>2. PICK n \in S : \A m \in S : n <= m
  BY <1>1, LeastNumber
<1>3. n \in 1..(Len(t) + 1)
  OBVIOUS
<1>4. ASSUME NEW j \in 1..(n - 1)
      PROVE  treeEntryLess(t[j].Name, IsDir(t[j].Mode), name, isDir)
  <2>1. j \in 1..(Len(t) + 1) /\ j <= Len(t) /\ ~(n <= j)
    BY <1>3
  <2>2. j \notin S
    BY <1>2, <2>1
  <2> QED
    BY <2>1, <2>2
<1>5. \E i \in 1..(Len(t) + 1) :
         /\ \A j \in 1..(i - 1) : treeEntryLess(t[j].Name, IsDir(t[j].Mode), name, isDir)
         /\ i <= Len(t) => ~treeEntryLess(t[i].Name, IsDir(t[i].Mode), name, isDir)
  BY <1>2, <1>3, <1>4
<1> QED
  BY <1>5 DEF FirstNotLess

(* An entry is found by its name and what it is.                           *)
LEMMA SearchFinds ==
    ASSUME NEW t \in Seq(TreeEntry), NonDecreasing(t), NEW k \in 1..Len(t)
    PROVE  /\ search(t, t[k].Name, IsDir(t[k].Mode)).ok
           /\ search(t, t[k].Name, IsDir(t[k].Mode)).i \in 1..k
<1> DEFINE name == t[k].Name
           isDir == IsDir(t[k].Mode)
           i == FirstNotLess(t, name, isDir)
<1>1. /\ i \in 1..(Len(t) + 1)
      /\ \A j \in 1..(i - 1) : treeEntryLess(t[j].Name, IsDir(t[j].Mode), name, isDir)
      /\ i <= Len(t) => ~treeEntryLess(t[i].Name, IsDir(t[i].Mode), name, isDir)
  BY FirstNotLessExists
<1>2. t[k] \in TreeEntry
  BY ElementOfSeq
<1>3. ~treeEntryLess(name, isDir, name, isDir)
  BY <1>2, EntryName, TreeOrder
<1>4. i <= k
  <2>1. k \in Nat /\ Len(t) \in Nat
    OBVIOUS
  <2>2. k < i => k \in 1..(i - 1)
    BY <1>1
  <2> QED
    BY <1>1, <1>3, <2>1, <2>2
<1>5. i \in 1..Len(t) /\ i \in 1..k
  BY <1>1, <1>4
<1>6. t[i] \in TreeEntry
  BY <1>5, ElementOfSeq
<1>7. ~treeEntryLess(name, isDir, t[i].Name, IsDir(t[i].Mode))
  <2>1. CASE i = k
    BY <1>3, <2>1
  <2>2. CASE i # k
    <3>1. i < k
      BY <1>5, <2>2
    <3> QED
      BY <1>5, <3>1 DEF NonDecreasing, EntryLess
  <2> QED
    BY <2>1, <2>2
<1>8. t[i].Name = name
  BY <1>1, <1>2, <1>5, <1>6, <1>7, EntryName, TreeOrder
<1>9. i <= Len(t)
  BY <1>5
<1>10. search(t, name, isDir).i = i
  BY DEF search
<1>11. search(t, name, isDir).ok <=> i <= Len(t) /\ t[i].Name = name
  BY DEF search
<1> QED
  BY <1>5, <1>8, <1>9, <1>10, <1>11, Zenon

LEMMA SearchHit ==
    ASSUME NEW t \in Seq(TreeEntry), NEW name, NEW isDir, search(t, name, isDir).ok
    PROVE  /\ search(t, name, isDir).i \in 1..Len(t)
           /\ t[search(t, name, isDir).i].Name = name
<1>1. search(t, name, isDir).i \in 1..(Len(t) + 1)
  BY FirstNotLessExists DEF search
<1>2. search(t, name, isDir).i <= Len(t) /\ t[search(t, name, isDir).i].Name = name
  BY Zenon DEF search
<1> QED
  BY <1>1, <1>2

LEMMA SearchCorrect ==
    ASSUME NEW t \in Seq(TreeEntry), NonDecreasing(t), NEW name \in Names
    PROVE  LET found == Search(t, name)
           IN IF \E i \in 1..Len(t) : t[i].Name = name
              THEN found \in {t[i] : i \in 1..Len(t)} /\ found.Name = name
              ELSE found = NotFound
<1> DEFINE a == search(t, name, FALSE)
           i == a.i
           rest == SubSeq(t, i + 1, Len(t))
           d == search(rest, name, TRUE)
<1>1. Search(t, name) = IF a.ok THEN t[i] ELSE IF i < Len(t) /\ d.ok THEN rest[d.i] ELSE NotFound
  BY DEF Search
<1>2. i \in 1..(Len(t) + 1)
  BY FirstNotLessExists DEF search
<1>3. Len(t) \in Nat
  OBVIOUS
<1>4. \A j \in 1..(i - 1) : treeEntryLess(t[j].Name, IsDir(t[j].Mode), name, FALSE)
  <2>1. i = FirstNotLess(t, name, FALSE)
    BY Zenon DEF search
  <2> HIDE DEF i
  <2> QED
    BY <2>1, FirstNotLessExists
<1>5. a.ok <=> i <= Len(t) /\ t[i].Name = name
  BY DEF search
<1>6. a.ok => i \in 1..Len(t) /\ t[i].Name = name
  <2> HIDE DEF i, a
  <2> QED
    BY <1>2, <1>3, <1>5
<1>7. rest = SubSeq(t, i + 1, Len(t))
  OBVIOUS
<1>8. ASSUME rest \in Seq(TreeEntry), d.ok
      PROVE  d.i \in 1..Len(rest) /\ rest[d.i].Name = name
  <2>1. ASSUME NEW r \in Seq(TreeEntry), NEW b \in BOOLEAN, search(r, name, b).ok
        PROVE  search(r, name, b).i \in 1..Len(r) /\ r[search(r, name, b).i].Name = name
    BY <2>1, SearchHit
  <2> QED
    BY <1>8, <2>1
<1>9. ASSUME rest \in Seq(TreeEntry), NonDecreasing(rest), NEW j \in 1..Len(rest),
             rest[j].Name = name, IsDir(rest[j].Mode) = TRUE
      PROVE  d.ok
  <2>1. search(rest, rest[j].Name, IsDir(rest[j].Mode)).ok
    BY <1>9, SearchFinds
  <2> QED
    BY <1>9, <2>1
<1>10. ASSUME NEW k \in 1..Len(t), t[k].Name = name, IsDir(t[k].Mode) = FALSE PROVE a.ok
  <2>1. search(t, t[k].Name, IsDir(t[k].Mode)).ok
    BY <1>10, SearchFinds
  <2> QED
    BY <1>10, <2>1
<1> HIDE DEF a, i, rest, d
<1>11. ASSUME i < Len(t)
       PROVE  /\ rest \in Seq(TreeEntry)
              /\ Len(rest) = Len(t) - i
              /\ \A j \in 1..(Len(t) - i) : rest[j] = t[j + i]
  <2>1. i + 1 \in 1..Len(t) /\ i \in Nat
    BY <1>2, <1>3, <1>11
  <2>2. rest \in Seq(TreeEntry) /\ Len(rest) = Len(t) - i
    BY <1>3, <1>7, <2>1
  <2>3. ASSUME NEW j \in 1..(Len(t) - i) PROVE rest[j] = t[j + i]
    BY <1>3, <1>7, <2>1
  <2> QED
    BY <2>2, <2>3
<1>12. CASE a.ok
  <2>1. i \in 1..Len(t) /\ t[i].Name = name
    BY <1>6, <1>12
  <2>2. Search(t, name) = t[i]
    BY <1>1, <1>12
  <2> QED
    BY <2>1, <2>2, Zenon
<1>13. CASE ~a.ok /\ \E k \in 1..Len(t) : t[k].Name = name
  <2>1. PICK k \in 1..Len(t) : t[k].Name = name
    BY <1>13
  <2>2. t[k] \in TreeEntry
    BY ElementOfSeq
  <2>3. IsDir(t[k].Mode) = TRUE
    BY <1>10, <1>13, <2>1, <2>2, EntryName
  <2>4. ~(k < i)
    <3>1. ASSUME k < i PROVE FALSE
      <4>1. k \in 1..(i - 1)
        BY <1>2, <1>3, <3>1
      <4>2. treeEntryLess(name, TRUE, name, FALSE)
        BY <1>4, <2>1, <2>3, <4>1
      <4> QED
        BY <2>1, <2>2, <4>2, EntryName, FileBeforeDirectory
    <3> QED
      BY <3>1
  <2>5. k # i
    BY <1>3, <1>5, <1>13, <2>1
  <2>6. i < Len(t) /\ k - i \in 1..(Len(t) - i) /\ (k - i) + i = k
    BY <1>2, <1>3, <2>4, <2>5
  <2>7. /\ rest \in Seq(TreeEntry)
        /\ Len(rest) = Len(t) - i
        /\ \A j \in 1..(Len(t) - i) : rest[j] = t[j + i]
    BY <1>11, <2>6
  <2>8. NonDecreasing(rest)
    <3>1. SUFFICES ASSUME NEW p \in 1..Len(rest), NEW q \in 1..Len(rest), p < q
                   PROVE  ~EntryLess(rest[q], rest[p])
      BY DEF NonDecreasing
    <3>2. p + i \in 1..Len(t) /\ q + i \in 1..Len(t) /\ p + i < q + i
      BY <1>2, <1>3, <2>6, <2>7, <3>1
    <3>3. rest[p] = t[p + i] /\ rest[q] = t[q + i]
      BY <2>7
    <3> QED
      BY <3>2, <3>3 DEF NonDecreasing
  <2>9. k - i \in 1..Len(rest) /\ rest[k - i] = t[k]
    BY <2>6, <2>7
  <2>10. d.ok
    BY <1>9, <2>1, <2>3, <2>7, <2>8, <2>9
  <2>11. d.i \in 1..Len(rest) /\ rest[d.i].Name = name
    BY <1>8, <2>7, <2>10
  <2>12. Search(t, name) = rest[d.i]
    BY <1>1, <1>13, <2>6, <2>10
  <2>13. rest[d.i] = t[d.i + i] /\ d.i + i \in 1..Len(t)
    BY <1>2, <1>3, <2>6, <2>7, <2>11
  <2> QED
    BY <1>13, <2>11, <2>12, <2>13
<1>14. CASE ~\E k \in 1..Len(t) : t[k].Name = name
  <2>1. ~a.ok
    BY <1>6, <1>14
  <2>2. ASSUME i < Len(t), d.ok PROVE FALSE
    <3>1. /\ rest \in Seq(TreeEntry)
          /\ Len(rest) = Len(t) - i
          /\ \A j \in 1..(Len(t) - i) : rest[j] = t[j + i]
      BY <1>11, <2>2
    <3>2. d.i \in 1..Len(rest) /\ rest[d.i].Name = name
      BY <1>8, <2>2, <3>1
    <3>3. d.i + i \in 1..Len(t) /\ t[d.i + i].Name = name
      BY <1>2, <1>3, <2>2, <3>1, <3>2
    <3> QED
      BY <1>14, <3>3
  <2>3. Search(t, name) = NotFound
    BY <1>1, <2>1, <2>2
  <2> QED
    BY <1>14, <2>3
<1> QED
  BY <1>12, <1>13, <1>14

-----------------------------------------------------------------------------
(* Duplicates.                                                             *)

(* In an ordered tree, of which all but the last entry have names of their *)
(* own, the last is refused exactly if another has its name.               *)
LEMMA DuplicateSeen ==
    ASSUME NEW t \in Seq(TreeEntry), NonDecreasing(t), NEW n \in Nat, n = Len(t),
           NEW k \in 1..(n - 1), t[k].Name = t[n].Name
    PROVE  isLastDuplicated(t) \/ t[n - 1].Name = t[n].Name \/ (IsDir(t[k].Mode) <=> IsDir(t[n].Mode))
<1>1. k \in 1..n /\ n \in 1..n /\ n >= 2
  OBVIOUS
<1>2. t[k] \in TreeEntry /\ t[n] \in TreeEntry
  BY <1>1, ElementOfSeq
<1>3. ~EntryLess(t[n], t[k])
  BY <1>1 DEF NonDecreasing
<1>4. ASSUME IsDir(t[k].Mode) = TRUE, IsDir(t[n].Mode) = FALSE PROVE FALSE
  BY <1>2, <1>3, <1>4, EntryName, FileBeforeDirectory DEF EntryLess
<1>5. ASSUME IsDir(t[k].Mode) = FALSE, IsDir(t[n].Mode) = TRUE, t[n - 1].Name # t[n].Name
      PROVE  isLastDuplicated(t)
  <2> DEFINE before == SubSeq(t, 1, n - 2)
  <2>1. k \in 1..(n - 2) /\ n - 2 \in 1..n
    <3>1. k # n - 1
      BY <1>5
    <3> QED
      BY <1>1, <3>1
  <2>2. before \in Seq(TreeEntry) /\ Len(before) = n - 2 /\ \A j \in 1..(n - 2) : before[j] = t[j]
    BY <2>1
  <2> HIDE DEF before
  <2>3. NonDecreasing(before)
    <3>1. SUFFICES ASSUME NEW p \in 1..Len(before), NEW q \in 1..Len(before), p < q
                   PROVE  ~EntryLess(before[q], before[p])
      BY DEF NonDecreasing
    <3>2. p \in 1..(n - 2) /\ q \in 1..(n - 2)
      BY <2>2
    <3>3. before[p] = t[p] /\ before[q] = t[q]
      BY <2>2, <3>2
    <3>4. p \in 1..Len(t) /\ q \in 1..Len(t)
      BY <3>2
    <3> QED
      BY <3>1, <3>3, <3>4 DEF NonDecreasing
  <2>4. search(before, before[k].Name, IsDir(before[k].Mode)).ok
    BY <2>1, <2>2, <2>3, SearchFinds
  <2>5. search(before, t[n].Name, FALSE).ok
    BY <1>5, <2>1, <2>2, <2>4
  <2> QED
    BY <1>1, <1>5, <2>5 DEF isLastDuplicated, before
<1> QED
  BY <1>2, <1>4, <1>5, EntryName

(* Not after each other: transitive, since the order is total.             *)
LEMMA NotAfter ==
    ASSUME NEW e \in TreeEntry, NEW f \in TreeEntry, NEW g \in TreeEntry,
           ~EntryLess(f, e), ~EntryLess(g, f)
    PROVE  ~EntryLess(g, e)
<1> DEFINE m == e.Name
           n == f.Name
           o == g.Name
           a == IsDir(e.Mode)
           b == IsDir(f.Mode)
           c == IsDir(g.Mode)
<1>1. m \in Component /\ n \in Component /\ o \in Component
  BY EntryName
<1>2. a \in BOOLEAN /\ b \in BOOLEAN /\ c \in BOOLEAN
  BY EntryName
<1>3. ~treeEntryLess(n, b, m, a) /\ ~treeEntryLess(o, c, n, b)
  BY DEF EntryLess
<1> HIDE DEF m, n, o, a, b, c
<1>4. ASSUME treeEntryLess(o, c, m, a) PROVE FALSE
  <2>1. treeEntryLess(n, b, o, c) \/ (n = o /\ b = c)
    BY <1>1, <1>2, <1>3, TreeOrder
  <2>2. treeEntryLess(n, b, o, c) /\ treeEntryLess(o, c, m, a) => treeEntryLess(n, b, m, a)
    BY <1>1, <1>2, TreeOrder
  <2> QED
    BY <1>3, <1>4, <2>1, <2>2
<1> QED
  BY <1>4 DEF EntryLess, m, o, a, c

(* What sort.Sort leaves: neighbours in order, so all in order.            *)
LEMMA NeighboursInOrder ==
    ASSUME NEW t \in Seq(TreeEntry), \A i \in 1..(Len(t) - 1) : ~EntryLess(t[i + 1], t[i])
    PROVE  NonDecreasing(t)
<1> SUFFICES ASSUME NEW i \in 1..Len(t), NEW j \in 1..Len(t), i < j, EntryLess(t[j], t[i])
             PROVE  FALSE
  BY DEF NonDecreasing
<1> DEFINE S == {q \in 1..Len(t) : i < q /\ EntryLess(t[q], t[i])}
<1>1. S \in SUBSET Nat /\ j \in S
  OBVIOUS
<1>2. PICK k \in S : \A m \in S : k <= m
  BY <1>1, LeastNumber
<1>3. k \in 1..Len(t) /\ i < k /\ EntryLess(t[k], t[i])
  OBVIOUS
<1>4. k - 1 \in 1..(Len(t) - 1) /\ k - 1 \in 1..Len(t) /\ (k - 1) + 1 = k /\ ~(k <= k - 1)
  BY <1>3
<1>5. k - 1 \notin S
  BY <1>2, <1>4
<1>6. ~EntryLess(t[k], t[k - 1])
  BY <1>4
<1>7. CASE k - 1 = i
  BY <1>3, <1>6, <1>7
<1>8. CASE k - 1 # i
  <2>1. i < k - 1
    BY <1>3, <1>4, <1>8
  <2>2. ~EntryLess(t[k - 1], t[i])
    BY <1>4, <1>5, <2>1
  <2>3. t[i] \in TreeEntry /\ t[k - 1] \in TreeEntry /\ t[k] \in TreeEntry
    BY <1>3, <1>4, ElementOfSeq
  <2>4. ~EntryLess(t[k], t[i])
    BY <1>6, <2>2, <2>3, NotAfter
  <2> QED
    BY <1>3, <2>4
<1> QED
  BY <1>7, <1>8

(* Two entries of one name and kind are at the same place of the order,    *)
(* and so is what is between them.                                         *)
LEMMA SamePlace ==
    ASSUME NEW e \in TreeEntry, NEW f \in TreeEntry, NEW g \in TreeEntry,
           e.Name = g.Name, IsDir(e.Mode) <=> IsDir(g.Mode),
           ~EntryLess(f, e), ~EntryLess(g, f)
    PROVE  f.Name = g.Name
<1>1. IsDir(e.Mode) = IsDir(g.Mode)
  BY EntryName
<1>2. ~treeEntryLess(f.Name, IsDir(f.Mode), g.Name, IsDir(g.Mode))
  BY <1>1 DEF EntryLess
<1>3. ~treeEntryLess(g.Name, IsDir(g.Mode), f.Name, IsDir(f.Mode))
  BY DEF EntryLess
<1> QED
  BY <1>2, <1>3, EntryName, TreeOrder

(* Sort's scan of every prefix finds a name that is there twice.           *)
LEMMA PrefixScan ==
    ASSUME NEW t \in Seq(TreeEntry), NonDecreasing(t),
           \A n \in 1..Len(t) : ~isLastDuplicated(SubSeq(t, 1, n))
    PROVE  Unique(t)
<1>1. ASSUME NEW i \in 1..Len(t), NEW j \in 1..Len(t), i < j, t[i].Name = t[j].Name
      PROVE  FALSE
  <2> DEFINE p == SubSeq(t, 1, j)
  <2>1. p \in Seq(TreeEntry) /\ Len(p) = j /\ \A q \in 1..j : p[q] = t[q]
    OBVIOUS
  <2>2. ~isLastDuplicated(p)
    OBVIOUS
  <2> HIDE DEF p
  <2>3. NonDecreasing(p)
    <3>1. SUFFICES ASSUME NEW a \in 1..Len(p), NEW b \in 1..Len(p), a < b
                   PROVE  ~EntryLess(p[b], p[a])
      BY DEF NonDecreasing
    <3>2. a \in 1..Len(t) /\ b \in 1..Len(t) /\ p[a] = t[a] /\ p[b] = t[b]
      BY <2>1
    <3> QED
      BY <3>1, <3>2 DEF NonDecreasing
  <2>4. /\ i \in 1..j /\ i \in 1..(j - 1) /\ j \in Nat /\ j >= 2 /\ j - 1 \in 1..j
        /\ j \in 1..j /\ j - 1 \in 1..Len(t) /\ i <= j - 1 /\ j - 1 < j
    BY <1>1
  <2>5. p[i] = t[i] /\ p[j] = t[j] /\ p[j - 1] = t[j - 1]
    BY <2>1, <2>4
  <2>6. p[j - 1].Name # p[j].Name
    BY <2>1, <2>2, <2>4 DEF isLastDuplicated
  <2>7. IsDir(p[i].Mode) <=> IsDir(p[j].Mode)
    BY <1>1, <2>1, <2>2, <2>3, <2>4, <2>5, <2>6, DuplicateSeen
  <2>8. t[i] \in TreeEntry /\ t[j - 1] \in TreeEntry /\ t[j] \in TreeEntry
    BY <2>4, ElementOfSeq
  <2>9. i # j - 1
    BY <1>1, <2>5, <2>6
  <2>10. i < j - 1
    BY <2>4, <2>9
  <2>11. ~EntryLess(t[j - 1], t[i]) /\ ~EntryLess(t[j], t[j - 1])
    BY <2>4, <2>10 DEF NonDecreasing
  <2>12. t[j - 1].Name = t[j].Name
    BY <1>1, <2>5, <2>7, <2>8, <2>11, SamePlace
  <2> QED
    BY <2>5, <2>6, <2>12
<1>2. SUFFICES ASSUME NEW i \in 1..Len(t), NEW j \in 1..Len(t), i # j, t[i].Name = t[j].Name
               PROVE  FALSE
  BY DEF Unique
<1>3. i < j \/ j < i
  BY <1>2
<1> QED
  BY <1>1, <1>2, <1>3

-----------------------------------------------------------------------------
(* The invariant.                                                          *)

TreeTypeOK ==
    /\ tree \in Seq(TreeEntry)
    /\ src \in Seq(RawEntry)
    /\ treeState \in {"given", "parsing", "checked", "refused"}

(* What was parsed so far is a tree, too: that makes the next entry one to *)
(* compare with the last only.                                             *)
TreeInv ==
    /\ TreeTypeOK
    /\ treeState \in {"parsing", "checked"} => NonDecreasing(tree) /\ Unique(tree)

LEMMA EmptyTree == NonDecreasing(<<>>) /\ Unique(<<>>)
BY DEF NonDecreasing, Unique

(* One more entry, after the last and not seen to be a duplicate.          *)
LEMMA OneMore ==
    ASSUME NEW t \in Seq(TreeEntry), NonDecreasing(t), Unique(t), NEW e \in TreeEntry,
           Len(t) > 0 => EntryLess(t[Len(t)], e),
           ~isLastDuplicated(Append(t, e))
    PROVE  NonDecreasing(Append(t, e)) /\ Unique(Append(t, e))
<1> DEFINE n == Len(t)
           x == Append(t, e)
<1>1. n \in Nat /\ x \in Seq(TreeEntry) /\ Len(x) = n + 1 /\ x[n + 1] = e /\ \A i \in 1..n : x[i] = t[i]
  BY AppendProperties
<1> HIDE DEF x
<1>2. ASSUME NEW i \in 1..n PROVE ~EntryLess(e, t[i]) /\ ~EntryLess(t[n], t[i])
  <2>1. n \in 1..n /\ t[i] \in TreeEntry /\ t[n] \in TreeEntry
    BY <1>1, ElementOfSeq
  <2>2. EntryLess(t[n], e)
    BY <1>1, <1>2
  <2>3. ~EntryLess(t[n], t[i])
    <3>1. CASE i = n
      BY <2>1, <3>1, EntryName, TreeOrder DEF EntryLess
    <3>2. CASE i # n
      BY <1>2, <2>1, <3>2 DEF NonDecreasing
    <3> QED
      BY <3>1, <3>2
  <2>4. ~EntryLess(e, t[n])
    <3>1. ~(treeEntryLess(t[n].Name, IsDir(t[n].Mode), e.Name, IsDir(e.Mode))
            /\ treeEntryLess(e.Name, IsDir(e.Mode), t[n].Name, IsDir(t[n].Mode)))
      BY <2>1, EntryName, TreeOrder
    <3> QED
      BY <2>2, <3>1 DEF EntryLess
  <2> QED
    BY <2>1, <2>3, <2>4, NotAfter
<1>3. NonDecreasing(x)
  <2>1. SUFFICES ASSUME NEW i \in 1..(n + 1), NEW j \in 1..(n + 1), i < j
                 PROVE  ~EntryLess(x[j], x[i])
    BY <1>1 DEF NonDecreasing
  <2>2. i \in 1..n /\ x[i] = t[i]
    BY <1>1, <2>1
  <2>3. CASE j = n + 1
    BY <1>1, <1>2, <2>2, <2>3
  <2>4. CASE j # n + 1
    <3>1. j \in 1..n /\ x[j] = t[j]
      BY <1>1, <2>1, <2>4
    <3> QED
      BY <2>1, <2>2, <3>1 DEF NonDecreasing
  <2> QED
    BY <2>3, <2>4
<1>4. ASSUME NEW i \in 1..n, t[i].Name = e.Name PROVE FALSE
  <2>1. /\ i \in 1..((n + 1) - 1) /\ n + 1 \in Nat /\ (n + 1) - 1 = n
        /\ x[i] = t[i] /\ x[n + 1] = e /\ n + 1 >= 2 /\ n \in 1..n /\ x[n] = t[n]
    BY <1>1
  <2>2. ~isLastDuplicated(x)
    BY DEF x
  <2>3. t[n].Name # e.Name
    BY <1>1, <2>1, <2>2 DEF isLastDuplicated
  <2>4. IsDir(t[i].Mode) <=> IsDir(e.Mode)
    BY <1>1, <1>3, <1>4, <2>1, <2>2, <2>3, DuplicateSeen
  <2>5. t[i] \in TreeEntry /\ t[n] \in TreeEntry
    BY <2>1, ElementOfSeq
  <2>6. IsDir(t[i].Mode) = IsDir(e.Mode)
    BY <2>4, <2>5, EntryName
  <2>7. EntryLess(t[n], t[i])
    BY <1>1, <1>4, <2>1, <2>6 DEF EntryLess
  <2> QED
    BY <1>2, <2>7
<1>5. Unique(x)
  <2>1. SUFFICES ASSUME NEW i \in 1..(n + 1), NEW j \in 1..(n + 1), i # j, x[i].Name = x[j].Name
                 PROVE  FALSE
    BY <1>1 DEF Unique
  <2>2. CASE i = n + 1
    <3>1. j \in 1..n /\ x[j] = t[j]
      BY <1>1, <2>1, <2>2
    <3> QED
      BY <1>1, <1>4, <2>1, <2>2, <3>1
  <2>3. CASE j = n + 1
    <3>1. i \in 1..n /\ x[i] = t[i]
      BY <1>1, <2>1, <2>3
    <3> QED
      BY <1>1, <1>4, <2>1, <2>3, <3>1
  <2>4. CASE i # n + 1 /\ j # n + 1
    <3>1. i \in 1..n /\ j \in 1..n /\ x[i] = t[i] /\ x[j] = t[j]
      BY <1>1, <2>4
    <3> QED
      BY <2>1, <3>1 DEF Unique
  <2> QED
    BY <2>2, <2>3, <2>4
<1> QED
  BY <1>3, <1>5 DEF x

LEMMA TreeInvHolds == TreeSpec => []TreeInv
<1>1. TreeInit => TreeInv
  <2> SUFFICES ASSUME TreeInit PROVE TreeInv
    OBVIOUS
  <2>1. \A raw \in ForeignBytes : raw \in Seq(RawEntry)
    BY TreeAssumption DEF ForeignBytes
  <2>2. src = <<>> \/ src \in ForeignBytes
    BY DEF TreeInit
  <2>3. tree \in Seq(TreeEntry) /\ src \in Seq(RawEntry)
    <3>1. <<>> \in Seq(RawEntry) /\ <<>> \in Seq(TreeEntry)
      OBVIOUS
    <3>2. tree = <<>>
      BY DEF TreeInit
    <3> QED
      BY <2>1, <2>2, <3>1, <3>2, Zenon
  <2>4. NonDecreasing(tree) /\ Unique(tree)
    BY EmptyTree DEF TreeInit
  <2> QED
    BY <2>3, <2>4 DEF TreeInit, TreeInv, TreeTypeOK
<1>2. TreeInv /\ [TreeNext]_treeVars => TreeInv'
  <2> SUFFICES ASSUME TreeInv, [TreeNext]_treeVars PROVE TreeInv'
    OBVIOUS
  <2> USE DEF TreeInv, TreeTypeOK
  <2>1. CASE AppendEntry
    <3>1. tree' \in Seq(TreeEntry)
      BY <2>1, AppendProperties DEF AppendEntry
    <3> QED
      BY <2>1, <3>1 DEF AppendEntry
  <2>2. CASE Sort
    <3>1. PICK p \in [1..Len(tree) -> 1..Len(tree)] :
             tree' = [i \in 1..Len(tree) |-> tree[p[i]]]
      BY <2>2 DEF Sort
    <3>2. tree' \in Seq(TreeEntry) /\ Len(tree') = Len(tree)
      BY <3>1
    <3>3. NonDecreasing(tree')
      BY <2>2, <3>2, NeighboursInOrder DEF Sort
    <3>4. ASSUME treeState' = "checked" PROVE Unique(tree')
      <4>1. \A n \in 1..Len(tree') : ~isLastDuplicated(SubSeq(tree', 1, n))
        BY <2>2, <3>2, <3>4 DEF Sort
      <4> QED
        BY <3>2, <3>3, <4>1, PrefixScan
    <3>5. treeState' \in {"checked", "refused"} /\ src' = src
      BY <2>2 DEF Sort
    <3> QED
      BY <3>2, <3>3, <3>4, <3>5
  <2>3. CASE MarshalBinary
    <3>1. \A i \in 1..Len(tree) : appendTo(tree[i]) \in RawEntry
      <4>1. SUFFICES ASSUME NEW i \in 1..Len(tree) PROVE appendTo(tree[i]) \in RawEntry
        OBVIOUS
      <4>2. tree[i] \in TreeEntry
        BY ElementOfSeq
      <4>3. \A j \in 1..Len(tree[i].Name) : tree[i].Name[j] # NUL
        BY <2>3 DEF MarshalBinary, Marshals
      <4> QED
        BY <4>2, <4>3 DEF appendTo, RawEntry, TreeEntry
    <3>2. src' \in Seq(RawEntry)
      BY <2>3, <3>1 DEF MarshalBinary
    <3> QED
      BY <2>3, <3>2, EmptyTree DEF MarshalBinary
  <2>4. CASE ParseTreeEntry
    <3> DEFINE raw == Head(src)
               ent == [Name |-> raw.Name, Mode |-> raw.Mode]
    <3>1. raw \in RawEntry /\ Tail(src) \in Seq(RawEntry)
      BY <2>4 DEF ParseTreeEntry
    <3>2. ent \in TreeEntry
      BY <3>1 DEF RawEntry, TreeEntry
    <3>3. NonDecreasing(tree) /\ Unique(tree)
      BY <2>4 DEF ParseTreeEntry
    <3>4. CASE treeState' = "refused" /\ UNCHANGED <<tree, src>>
      BY <3>4
    <3>5. CASE /\ tree' = Append(tree, ent)
               /\ src' = Tail(src)
               /\ treeState' = IF \/ Len(tree) > 0 /\ ~EntryLess(tree[Len(tree)], ent)
                                  \/ isLastDuplicated(tree')
                               THEN "refused" ELSE "parsing"
      <4> HIDE DEF ent
      <4>1. tree' \in Seq(TreeEntry)
        BY <3>2, <3>5, AppendProperties
      <4>2. ASSUME treeState' # "refused" PROVE NonDecreasing(tree') /\ Unique(tree')
        BY <3>2, <3>3, <3>5, <4>2, OneMore
      <4>3. treeState' \in {"refused", "parsing"}
        BY <3>5
      <4> QED
        BY <3>1, <3>5, <4>1, <4>2, <4>3
    <3> QED
      BY <2>4, <3>4, <3>5 DEF ParseTreeEntry
  <2>5. CASE ParseTreeEnds
    BY <2>5 DEF ParseTreeEnds
  <2>6. CASE UNCHANGED treeVars
    BY <2>6 DEF treeVars, NonDecreasing, Unique, EntryLess
  <2> QED
    BY <2>1, <2>2, <2>3, <2>4, <2>5, <2>6 DEF TreeNext
<1> QED
  BY <1>1, <1>2, PTL DEF TreeSpec

(***************************************************************************)
(* Search is right about every tree that Sort or UnmarshalBinary accepted. *)
(***************************************************************************)
THEOREM TreeSearchExact == TreeSpec => []SearchExact
<1>1. TreeInv => SearchExact
  <2> SUFFICES ASSUME TreeInv, treeState = "checked"
               PROVE  /\ Unique(tree)
                      /\ \A name \in Names :
                            LET found == Search(tree, name)
                            IN IF \E i \in 1..Len(tree) : tree[i].Name = name
                               THEN found \in {tree[i] : i \in 1..Len(tree)} /\ found.Name = name
                               ELSE found = NotFound
    BY DEF SearchExact
  <2> QED
    BY SearchCorrect DEF TreeInv, TreeTypeOK
<1> QED
  BY <1>1, TreeInvHolds, PTL

-----------------------------------------------------------------------------
(* Reading back.                                                           *)

LEMMA NoDuplicateSeen ==
    ASSUME NEW t \in Seq(TreeEntry), Unique(t)
    PROVE  ~isLastDuplicated(t)
<1>1. SUFFICES ASSUME NEW n \in Nat, n = Len(t), isLastDuplicated(t) PROVE FALSE
  OBVIOUS
<1> DEFINE before == SubSeq(t, 1, n - 2)
<1>2. n >= 2 /\ n \in 1..n /\ n - 1 \in 1..n /\ n # n - 1
  BY <1>1 DEF isLastDuplicated
<1>3. t[n - 1].Name # t[n].Name
  BY <1>1, <1>2 DEF Unique
<1>4. search(before, t[n].Name, FALSE).ok
  BY <1>1, <1>3 DEF isLastDuplicated
<1>5. before \in Seq(TreeEntry) /\ Len(before) = n - 2 /\ \A j \in 1..(n - 2) : before[j] = t[j]
  <2>1. CASE n = 2
    <3>1. n - 2 < 1 /\ 1 \in Int /\ n - 2 \in Int /\ 1..(n - 2) = {}
      BY <2>1
    <3>2. before = <<>>
      BY <3>1, SubSeqEmpty
    <3> QED
      BY <2>1, <3>1, <3>2
  <2>2. CASE n # 2
    <3>1. n - 2 \in 1..Len(t)
      BY <1>1, <1>2, <2>2
    <3> QED
      BY <1>1, <1>2, <3>1
  <2> QED
    BY <2>1, <2>2
<1> HIDE DEF before
<1>6. PICK j \in 1..Len(before) : before[j].Name = t[n].Name
  <2> DEFINE i == search(before, t[n].Name, FALSE).i
  <2>1. i \in 1..(Len(before) + 1)
    BY <1>5, FirstNotLessExists DEF search
  <2>2. search(before, t[n].Name, FALSE).ok <=> i <= Len(before) /\ before[i].Name = t[n].Name
    BY DEF search
  <2>3. Len(before) \in Nat
    BY <1>5
  <2>4. i <= Len(before) /\ before[i].Name = t[n].Name
    BY ONLY <1>4, <2>2
  <2> HIDE DEF i
  <2>5. i \in 1..Len(before)
    BY <2>1, <2>3, <2>4
  <2> QED
    BY <2>4, <2>5
<1>7. j \in 1..n /\ j # n /\ t[j].Name = t[n].Name
  BY <1>2, <1>5, <1>6
<1> QED
  BY <1>1, <1>2, <1>7 DEF Unique

(* While MarshalBinary's bytes of a checked tree are parsed, what is       *)
(* parsed and what is left of them are that tree.                          *)
HalfRead ==
    /\ origin.tree \in Seq(TreeEntry)
    /\ Unique(origin.tree)
    /\ \A i \in 1..(Len(origin.tree) - 1) : EntryLess(origin.tree[i], origin.tree[i + 1])
    /\ treeState # "refused"
    /\ Len(tree) + Len(src) = Len(origin.tree)
    /\ \A i \in 1..Len(tree) : tree[i] = origin.tree[i]
    /\ \A i \in 1..Len(src) : src[i] = appendTo(origin.tree[Len(tree) + i])

(* While another program's bytes are parsed, they are what is parsed, in   *)
(* order, and what is left.                                                *)
HalfParsed ==
    /\ origin.raw \in Seq(RawEntry)
    /\ Len(tree) + Len(src) = Len(origin.raw)
    /\ \A i \in 1..Len(tree) : /\ tree[i].Name = origin.raw[i].Name
                               /\ tree[i].Mode = origin.raw[i].Mode
                               /\ origin.raw[i].ok
    /\ \A i \in 1..Len(src) : src[i] = origin.raw[Len(tree) + i]
    /\ \A i \in 1..(Len(tree) - 1) : EntryLess(tree[i], tree[i + 1])

RoundInv ==
    /\ TreeInv
    /\ origin.by = "marshal" /\ origin.state = "checked" => HalfRead
    /\ origin.by = "foreign" /\ treeState # "refused" => HalfParsed
    /\ origin.by # "caller" /\ treeState = "checked" => src = <<>>

(* One more entry of those bytes.                                          *)
LEMMA ReadOne ==
    ASSUME TreeInv, ParseTreeEntry, HalfRead
    PROVE  HalfRead'
<1> DEFINE n == Len(tree)
           raw == Head(src)
           ent == [Name |-> raw.Name, Mode |-> raw.Mode]
           T == origin.tree
<1>1. n \in Nat /\ Len(src) \in Nat /\ 1 \in 1..Len(src) /\ T \in Seq(TreeEntry) /\ Len(T) \in Nat
  BY DEF ParseTreeEntry, HalfRead, TreeInv, TreeTypeOK
<1>2. n + 1 \in 1..Len(T) /\ T[n + 1] \in TreeEntry
  <2>1. n + 1 \in 1..Len(T)
    BY <1>1 DEF HalfRead
  <2> QED
    BY <1>1, <2>1, ElementOfSeq
<1>3. raw = appendTo(T[n + 1])
  BY <1>1 DEF HalfRead, ParseTreeEntry
<1>4. raw.ok /\ ent = T[n + 1]
  BY <1>2, <1>3 DEF appendTo, TreeEntry
<1>5. /\ tree' = Append(tree, ent)
      /\ src' = Tail(src)
      /\ treeState' = IF \/ n > 0 /\ ~EntryLess(tree[n], ent)
                         \/ isLastDuplicated(tree')
                      THEN "refused" ELSE "parsing"
      /\ origin' = origin
  BY <1>4 DEF ParseTreeEntry
<1> HIDE DEF ent
<1>6. /\ tree' \in Seq(TreeEntry) /\ Len(tree') = n + 1
      /\ \A i \in 1..n : tree'[i] = tree[i]
      /\ tree'[n + 1] = T[n + 1]
  BY <1>2, <1>4, <1>5, AppendProperties DEF TreeInv, TreeTypeOK
<1>7. ASSUME NEW i \in 1..(n + 1) PROVE tree'[i] = T[i]
  <2>1. CASE i = n + 1
    BY <1>6, <2>1
  <2>2. CASE i # n + 1
    <3>1. i \in 1..n
      BY <1>1, <2>2
    <3> QED
      BY <1>6, <3>1 DEF HalfRead
  <2> QED
    BY <2>1, <2>2
<1>8. Len(src') = Len(src) - 1 /\ \A i \in 1..Len(src') : src'[i] = src[i + 1]
  BY <1>1, <1>5 DEF TreeInv, TreeTypeOK
<1>9. Unique(tree')
  <2>1. SUFFICES ASSUME NEW i \in 1..Len(tree'), NEW j \in 1..Len(tree'), i # j
                 PROVE  tree'[i].Name # tree'[j].Name
    BY DEF Unique
  <2>2. i \in 1..Len(T) /\ j \in 1..Len(T) /\ tree'[i] = T[i] /\ tree'[j] = T[j]
    BY <1>1, <1>2, <1>6, <1>7
  <2> QED
    BY <2>1, <2>2 DEF HalfRead, Unique
<1>10. ASSUME n > 0 PROVE EntryLess(tree[n], ent)
  <2>1. n \in 1..(Len(T) - 1) /\ n \in 1..n
    BY <1>1, <1>2, <1>10
  <2>2. EntryLess(T[n], T[n + 1])
    BY <2>1 DEF HalfRead
  <2> QED
    BY <1>1, <1>4, <2>1, <2>2 DEF HalfRead
<1>11. treeState' # "refused"
  BY <1>5, <1>6, <1>9, <1>10, NoDuplicateSeen
<1>12. Len(tree') + Len(src') = Len(T)
  <2>1. Len(tree') = n + 1 /\ Len(src') = Len(src) - 1 /\ n + Len(src) = Len(T)
    BY <1>6, <1>8 DEF HalfRead
  <2> QED
    BY <1>1, <2>1
<1>13. \A i \in 1..Len(src') : src'[i] = appendTo(T[Len(tree') + i])
  <2>1. SUFFICES ASSUME NEW i \in 1..Len(src') PROVE src'[i] = appendTo(T[Len(tree') + i])
    OBVIOUS
  <2>2. i + 1 \in 1..Len(src) /\ Len(tree') + i = n + (i + 1) /\ src'[i] = src[i + 1]
    BY <1>1, <1>6, <1>8
  <2>3. src[i + 1] = appendTo(T[n + (i + 1)])
    BY <2>2 DEF HalfRead
  <2> QED
    BY <2>2, <2>3
<1> QED
  BY <1>5, <1>6, <1>7, <1>11, <1>12, <1>13 DEF HalfRead, Unique, EntryLess, appendTo

LEMMA ParseOne ==
    ASSUME TreeInv, ParseTreeEntry, HalfParsed, treeState' # "refused"
    PROVE  HalfParsed'
<1> DEFINE n == Len(tree)
           raw == Head(src)
           ent == [Name |-> raw.Name, Mode |-> raw.Mode]
           R == origin.raw
<1>1. n \in Nat /\ Len(src) \in Nat /\ 1 \in 1..Len(src) /\ R \in Seq(RawEntry) /\ Len(R) \in Nat
  BY DEF ParseTreeEntry, HalfParsed, TreeInv, TreeTypeOK
<1>2. raw = R[n + 1] /\ raw \in RawEntry
  BY <1>1 DEF HalfParsed, ParseTreeEntry, TreeInv, TreeTypeOK
<1>3. /\ tree' = Append(tree, ent)
      /\ src' = Tail(src)
      /\ treeState' = IF \/ n > 0 /\ ~EntryLess(tree[n], ent)
                         \/ isLastDuplicated(tree')
                      THEN "refused" ELSE "parsing"
      /\ origin' = origin
      /\ raw.ok
  BY DEF ParseTreeEntry
<1>4. n > 0 => EntryLess(tree[n], ent)
  BY <1>3
<1>5. ent.Name = R[n + 1].Name /\ ent.Mode = R[n + 1].Mode /\ ent \in TreeEntry
  BY <1>2 DEF RawEntry, TreeEntry
<1> HIDE DEF ent
<1>6. /\ Len(tree') = n + 1
      /\ \A i \in 1..n : tree'[i] = tree[i]
      /\ tree'[n + 1] = ent
  BY <1>3, <1>5, AppendProperties DEF TreeInv, TreeTypeOK
<1>7. Len(src') = Len(src) - 1 /\ \A i \in 1..Len(src') : src'[i] = src[i + 1]
  BY <1>1, <1>3 DEF TreeInv, TreeTypeOK
<1>8. Len(tree') + Len(src') = Len(R)
  <2>1. Len(tree') = n + 1 /\ Len(src') = Len(src) - 1 /\ n + Len(src) = Len(R)
    BY <1>6, <1>7 DEF HalfParsed
  <2> QED
    BY <1>1, <2>1
<1>9. ASSUME NEW i \in 1..Len(tree')
      PROVE  tree'[i].Name = R[i].Name /\ tree'[i].Mode = R[i].Mode /\ R[i].ok
  <2>1. CASE i = n + 1
    BY <1>2, <1>3, <1>5, <1>6, <2>1
  <2>2. CASE i # n + 1
    <3>1. i \in 1..n
      BY <1>1, <1>6, <2>2
    <3> QED
      BY <1>6, <3>1 DEF HalfParsed
  <2> QED
    BY <2>1, <2>2
<1>10. ASSUME NEW i \in 1..Len(src') PROVE src'[i] = R[Len(tree') + i]
  <2>1. i + 1 \in 1..Len(src) /\ Len(tree') + i = n + (i + 1) /\ src'[i] = src[i + 1]
    BY <1>1, <1>6, <1>7
  <2>2. src[i + 1] = R[n + (i + 1)]
    BY <2>1 DEF HalfParsed
  <2> QED
    BY <2>1, <2>2
<1>11. ASSUME NEW i \in 1..(Len(tree') - 1) PROVE EntryLess(tree'[i], tree'[i + 1])
  <2>1. CASE i = n
    BY <1>1, <1>4, <1>6, <2>1
  <2>2. CASE i # n
    <3>1. i \in 1..(n - 1) /\ i \in 1..n /\ i + 1 \in 1..n
      BY <1>1, <1>6, <2>2
    <3>2. EntryLess(tree[i], tree[i + 1])
      BY <3>1 DEF HalfParsed
    <3> QED
      BY <1>6, <3>1, <3>2
  <2> QED
    BY <2>1, <2>2
<1> QED
  BY <1>1, <1>3, <1>8, <1>9, <1>10, <1>11 DEF HalfParsed, EntryLess

LEMMA RoundInvHolds == TreeSpec => []RoundInv
<1>1. TreeInit /\ TreeInv => RoundInv
  <2> SUFFICES ASSUME TreeInit, TreeInv PROVE RoundInv
    OBVIOUS
  <2>1. CASE origin = ByCaller
    BY <2>1 DEF RoundInv, ByCaller, Origin
  <2>2. CASE /\ treeState = "parsing"
             /\ tree = <<>>
             /\ origin = Origin("foreign", src, <<>>, "given")
    <3>1. origin.by = "foreign" /\ origin.raw = src /\ src \in Seq(RawEntry)
      BY <2>2 DEF Origin, TreeInv, TreeTypeOK
    <3>2. Len(tree) = 0 /\ Len(src) \in Nat
      BY <2>2, <3>1
    <3>3. HalfParsed
      BY <3>1, <3>2 DEF HalfParsed
    <3> QED
      BY <2>2, <3>1, <3>3 DEF RoundInv
  <2> QED
    BY <2>1, <2>2 DEF TreeInit
<1>2. RoundInv /\ TreeInv' /\ [TreeNext]_treeVars => RoundInv'
  <2> SUFFICES ASSUME RoundInv, TreeInv', [TreeNext]_treeVars PROVE RoundInv'
    OBVIOUS
  <2>1. CASE AppendEntry \/ Sort
    <3>1. origin' = ByCaller
      BY <2>1 DEF AppendEntry, Sort
    <3> QED
      BY <3>1 DEF RoundInv, ByCaller, Origin
  <2>2. CASE MarshalBinary
    <3>1. /\ treeState' = "parsing" /\ tree' = <<>>
          /\ src' = [i \in 1..Len(tree) |-> appendTo(tree[i])]
          /\ origin'.by = "marshal" /\ origin'.state = treeState /\ origin'.tree = tree
          /\ \A i \in 1..(Len(tree) - 1) : EntryLess(tree[i], tree[i + 1])
      BY <2>2 DEF MarshalBinary, Origin, Marshals
    <3>2. tree \in Seq(TreeEntry) /\ (treeState = "checked" => Unique(tree))
      BY DEF RoundInv, TreeInv, TreeTypeOK
    <3>3. Len(src') = Len(tree) /\ Len(tree') = 0 /\ Len(tree) \in Nat
      BY <3>1, <3>2
    <3>4. ASSUME treeState = "checked" PROVE HalfRead'
      <4>1. \A i \in 1..Len(src') : src'[i] = appendTo(tree[Len(tree') + i])
        BY <3>1, <3>3
      <4>2. Len(tree') + Len(src') = Len(tree) /\ 1..Len(tree') = {}
        BY <3>3
      <4>3. Unique(tree)
        BY <3>2, <3>4
      <4> QED
        BY <3>1, <3>2, <4>1, <4>2, <4>3 DEF HalfRead, Unique, EntryLess, appendTo
    <3> QED
      BY <3>1, <3>4 DEF RoundInv
  <2>3. CASE ParseTreeEntry
    <3>1. origin' = origin /\ treeState' # "checked" /\ treeState = "parsing"
      BY <2>3 DEF ParseTreeEntry
    <3>2. ASSUME origin.by = "marshal", origin.state = "checked" PROVE HalfRead'
      BY <2>3, <3>2, ReadOne DEF RoundInv
    <3>3. ASSUME origin.by = "foreign", treeState' # "refused" PROVE HalfParsed'
      BY <2>3, <3>1, <3>3, ParseOne DEF RoundInv
    <3> QED
      BY <3>1, <3>2, <3>3 DEF RoundInv
  <2>4. CASE ParseTreeEnds
    <3>1. /\ treeState = "parsing" /\ treeState' = "checked" /\ src = <<>>
          /\ tree' = tree /\ src' = src /\ origin' = origin
      BY <2>4 DEF ParseTreeEnds
    <3>2. HalfRead => HalfRead'
      BY <3>1 DEF HalfRead, Unique, EntryLess, appendTo
    <3>3. HalfParsed => HalfParsed'
      BY <3>1 DEF HalfParsed, EntryLess
    <3> QED
      BY <3>1, <3>2, <3>3 DEF RoundInv
  <2>5. CASE UNCHANGED treeVars
    <3>1. treeState' = treeState /\ tree' = tree /\ src' = src /\ origin' = origin
      BY <2>5 DEF treeVars
    <3>2. HalfRead => HalfRead'
      BY <3>1 DEF HalfRead, Unique, EntryLess, appendTo
    <3>3. HalfParsed => HalfParsed'
      BY <3>1 DEF HalfParsed, EntryLess
    <3> QED
      BY <3>1, <3>2, <3>3 DEF RoundInv
  <2> QED
    BY <2>1, <2>2, <2>3, <2>4, <2>5 DEF TreeNext
<1> QED
  BY <1>1, <1>2, TreeInvHolds, PTL DEF TreeSpec

(***************************************************************************)
(* A checked tree is read back as it was, and a tree that was read has the *)
(* bytes of what it was read from.                                         *)
(***************************************************************************)
THEOREM TreeReadsBack == TreeSpec => []TreeRoundTrip
<1>1. RoundInv => TreeRoundTrip
  <2> SUFFICES ASSUME RoundInv PROVE TreeRoundTrip
    OBVIOUS
  <2>1. ASSUME origin.by = "marshal", origin.state = "checked"
        PROVE  treeState # "refused" /\ (treeState = "checked" => tree = origin.tree)
    <3>1. HalfRead
      BY <2>1 DEF RoundInv
    <3>2. ASSUME treeState = "checked" PROVE tree = origin.tree
      <4>1. src = <<>>
        BY <2>1, <3>2 DEF RoundInv
      <4>2. tree \in Seq(TreeEntry) /\ origin.tree \in Seq(TreeEntry) /\ Len(tree) = Len(origin.tree)
        BY <3>1, <4>1 DEF HalfRead, RoundInv, TreeInv, TreeTypeOK
      <4> QED
        BY <3>1, <4>2, SeqEqual DEF HalfRead
    <3> QED
      BY <3>1, <3>2 DEF HalfRead
  <2>2. ASSUME origin.by = "foreign", treeState = "checked",
               \A i \in 1..Len(origin.raw) : ~origin.raw[i].padded
        PROVE  Marshals(tree) /\ origin.raw = [i \in 1..Len(tree) |-> appendTo(tree[i])]
    <3>1. HalfParsed /\ src = <<>>
      BY <2>2 DEF RoundInv
    <3>2. /\ tree \in Seq(TreeEntry) /\ origin.raw \in Seq(RawEntry)
          /\ Len(tree) = Len(origin.raw) /\ Len(tree) \in Nat
      BY <3>1 DEF HalfParsed, RoundInv, TreeInv, TreeTypeOK
    <3>3. ASSUME NEW i \in 1..Len(tree)
          PROVE  /\ origin.raw[i] = appendTo(tree[i])
                 /\ \A j \in 1..Len(tree[i].Name) : tree[i].Name[j] # NUL
      <4>1. origin.raw[i] \in RawEntry
        BY <3>2, ElementOfSeq
      <4>2. /\ tree[i].Name = origin.raw[i].Name /\ tree[i].Mode = origin.raw[i].Mode
            /\ origin.raw[i].ok
        BY <3>1 DEF HalfParsed
      <4>3. ~origin.raw[i].padded
        BY <2>2, <3>2
      <4> QED
        BY <4>1, <4>2, <4>3 DEF RawEntry, appendTo
    <3>4. Marshals(tree)
      BY <3>1, <3>3 DEF Marshals, HalfParsed
    <3>5. [i \in 1..Len(tree) |-> appendTo(tree[i])] = origin.raw
      BY <3>2, <3>3
    <3> QED
      BY <3>4, <3>5
  <2> QED
    BY <2>1, <2>2 DEF TreeRoundTrip
<1> QED
  BY <1>1, RoundInvHolds, PTL

-----------------------------------------------------------------------------
(* Sequences whose elements are of no one set.                             *)

LEMMA InSet ==
    ASSUME NEW S, NEW s, IsSequence(s), \A i \in 1..Len(s) : s[i] \in S
    PROVE  s \in Seq(S)
  BY DEF IsSequence

LEMMA SequencesAre == ASSUME NEW S, NEW s \in Seq(S) PROVE IsSequence(s)
  BY DEF IsSequence

LEMMA EmptySequence == IsSequence(<<>>) /\ Len(<<>>) = 0
  BY DEF IsSequence

LEMMA NoneLeft == ASSUME NEW s, IsSequence(s), Len(s) = 0 PROVE s = <<>>
<1>1. s \in Seq({})
  BY InSet
<1> QED
  BY <1>1

LEMMA AppendOf ==
    ASSUME NEW S, NEW s \in Seq(S), NEW x \in S
    PROVE  /\ Append(s, x) \in Seq(S) /\ Len(Append(s, x)) = Len(s) + 1
           /\ \A i \in 1..Len(s) : Append(s, x)[i] = s[i]
           /\ Append(s, x)[Len(s) + 1] = x
  OBVIOUS

LEMMA TailOf ==
    ASSUME NEW S, NEW s \in Seq(S), s # <<>>
    PROVE  /\ Tail(s) \in Seq(S) /\ Len(Tail(s)) + 1 = Len(s)
           /\ \A i \in 1..Len(Tail(s)) : Tail(s)[i] = s[i + 1]
           /\ Head(s) = s[1] /\ Len(s) # 0
  OBVIOUS

LEMMA ConcatOf ==
    ASSUME NEW S, NEW s \in Seq(S), NEW t \in Seq(S)
    PROVE  /\ s \o t \in Seq(S) /\ Len(s \o t) = Len(s) + Len(t)
           /\ \A i \in 1..Len(s) : (s \o t)[i] = s[i]
           /\ \A i \in 1..Len(t) : (s \o t)[Len(s) + i] = t[i]
<1>1. s \o t \in Seq(S) /\ Len(s \o t) = Len(s) + Len(t)
  OBVIOUS
<1>2. \A i \in 1..Len(s) : (s \o t)[i] = s[i]
  OBVIOUS
<1>3. ASSUME NEW i \in 1..Len(t) PROVE (s \o t)[Len(s) + i] = t[i]
  <2>1. Len(s) + i \in 1..(Len(s) + Len(t)) /\ ~(Len(s) + i <= Len(s)) /\ (Len(s) + i) - Len(s) = i
    OBVIOUS
  <2> QED
    BY <2>1
<1> QED
  BY <1>1, <1>2, <1>3

LEMMA AppendAt ==
    ASSUME NEW s, NEW x, IsSequence(s)
    PROVE  /\ IsSequence(Append(s, x)) /\ Len(Append(s, x)) = Len(s) + 1
           /\ \A i \in 1..Len(s) : Append(s, x)[i] = s[i]
           /\ Append(s, x)[Len(s) + 1] = x
<1> DEFINE S == {s[i] : i \in 1..Len(s)} \cup {x}
<1>1. (\A i \in 1..Len(s) : s[i] \in S) /\ x \in S
  OBVIOUS
<1> HIDE DEF S
<1>2. s \in Seq(S)
  BY <1>1, InSet
<1>3. IsSequence(Append(s, x))
  BY <1>1, <1>2, AppendOf, SequencesAre
<1> QED
  BY <1>1, <1>2, <1>3, AppendOf

LEMMA TailAt ==
    ASSUME NEW s, IsSequence(s), s # <<>>
    PROVE  /\ IsSequence(Tail(s)) /\ Len(Tail(s)) + 1 = Len(s)
           /\ \A i \in 1..Len(Tail(s)) : Tail(s)[i] = s[i + 1]
           /\ Head(s) = s[1] /\ Len(s) # 0
<1> DEFINE S == {s[i] : i \in 1..Len(s)}
<1>1. \A i \in 1..Len(s) : s[i] \in S
  OBVIOUS
<1> HIDE DEF S
<1>2. s \in Seq(S)
  BY <1>1, InSet
<1>3. IsSequence(Tail(s))
  BY <1>2, TailOf, SequencesAre
<1> QED
  BY <1>2, <1>3, TailOf

\* b has the elements of t after its first n.
Has(b, n, t) == \A i \in 1..Len(t) : b[n + i] = t[i]

Joined(s, t, q) ==
    /\ IsSequence(q) /\ Len(q) = Len(s) + Len(t)
    /\ Has(q, 0, s) /\ Has(q, Len(s), t)

LEMMA Joins == ASSUME NEW s, NEW t, IsSequence(s), IsSequence(t) PROVE Joined(s, t, s \o t)
<1> DEFINE S == {s[i] : i \in 1..Len(s)} \cup {t[i] : i \in 1..Len(t)}
<1>1. (\A i \in 1..Len(s) : s[i] \in S) /\ (\A i \in 1..Len(t) : t[i] \in S)
  OBVIOUS
<1> HIDE DEF S
<1>2. s \in Seq(S) /\ t \in Seq(S)
  BY <1>1, InSet
<1>3. IsSequence(s \o t)
  BY <1>2, ConcatOf, SequencesAre
<1> QED
  BY <1>2, <1>3, ConcatOf DEF Joined, Has

LEMMA Lengths == ASSUME NEW s, IsSequence(s) PROVE Len(s) \in Nat
  BY DEF IsSequence

\* What has the whole has both parts.
LEMMA HasParts ==
    ASSUME NEW b, NEW s, NEW t, NEW q, IsSequence(s), IsSequence(t), Joined(s, t, q), Has(b, 0, q)
    PROVE  Has(b, 0, s) /\ Has(b, Len(s), t)
<1>1. Len(s) \in Nat /\ Len(t) \in Nat /\ Len(q) = Len(s) + Len(t)
  BY Lengths DEF Joined
<1>2. ASSUME NEW i \in 1..Len(q) PROVE b[i] = q[i]
  BY <1>1 DEF Has
<1>3. ASSUME NEW i \in 1..Len(s) PROVE b[0 + i] = s[i]
  <2>1. i \in 1..Len(q) /\ 0 + i = i
    BY <1>1
  <2>2. q[0 + i] = s[i]
    BY DEF Joined, Has
  <2> QED
    BY <1>2, <2>1, <2>2
<1>4. ASSUME NEW i \in 1..Len(t) PROVE b[Len(s) + i] = t[i]
  <2>1. Len(s) + i \in 1..Len(q)
    BY <1>1
  <2>2. q[Len(s) + i] = t[i]
    BY DEF Joined, Has
  <2> QED
    BY <1>2, <2>1, <2>2
<1> QED
  BY <1>3, <1>4 DEF Has

LEMMA HasItself == ASSUME NEW s, IsSequence(s) PROVE Has(s, 0, s)
<1>1. Len(s) \in Nat
  BY Lengths
<1>2. \A i \in 1..Len(s) : 0 + i = i
  BY <1>1
<1> QED
  BY <1>2 DEF Has

LEMMA MadeSequence ==
    ASSUME NEW s, NEW n \in Nat, s = [i \in 1..n |-> s[i]]
    PROVE  IsSequence(s) /\ Len(s) = n
  BY DEF IsSequence

LEMMA Singleton == ASSUME NEW x PROVE IsSequence(<<x>>) /\ Len(<<x>>) = 1 /\ <<x>>[1] = x
  BY DEF IsSequence

LEMMA SameSequence ==
    ASSUME NEW s, NEW t, IsSequence(s), IsSequence(t), Len(s) = Len(t),
           \A i \in 1..Len(s) : s[i] = t[i]
    PROVE  s = t
  BY DEF IsSequence

-----------------------------------------------------------------------------
(* Zones.                                                                  *)

LEMMA Tens == ASSUME NEW n \in 0..99
             PROVE  /\ (n \div 10) % 10 = n \div 10
                    /\ n \div 10 \in 0..9 /\ n % 10 \in 0..9
                    /\ 10 * (n \div 10) + (n % 10) = n
<1>1. n = 10 * (n \div 10) + (n % 10) /\ n % 10 \in 0..9 /\ n \div 10 \in 0..9
  OBVIOUS
<1>2. \A k \in 0..9 : k % 10 = k
  OBVIOUS
<1> QED
  BY <1>1, <1>2

LEMMA LastDigit == ASSUME NEW k \in Int, NEW n \in Int PROVE (60 * k + n) % 10 = n % 10
<1>1. n = 10 * (n \div 10) + (n % 10) /\ n % 10 \in 0..9 /\ n \div 10 \in Int
  OBVIOUS
<1>2. 60 * k + n = 10 * (6 * k + (n \div 10)) + (n % 10)
  BY <1>1
<1>3. ASSUME NEW q \in Int, NEW d \in 0..9 PROVE (10 * q + d) % 10 = d
  OBVIOUS
<1>4. 6 * k + (n \div 10) \in Int
  BY <1>1
<1> QED
  BY <1>1, <1>2, <1>3, <1>4

LEMMA Sixties == ASSUME NEW m \in Nat, m < 60 * 100
                PROVE  /\ m \div 60 \in 0..99 /\ m % 60 \in 0..59
                       /\ 60 * (m \div 60) + (m % 60) = m
                       /\ (m % 60) % 10 = m % 10
<1>1. m \div 60 \in 0..99 /\ m % 60 \in 0..59 /\ 60 * (m \div 60) + (m % 60) = m
  OBVIOUS
<1> QED
  BY <1>1, LastDigit

LEMMA FourDigits ==
    ASSUME NEW ds, Len(ds) = 4
    PROVE  /\ tzDigit(ds, 4) = ds[1] /\ tzDigit(ds, 3) = ds[2]
           /\ tzDigit(ds, 2) = ds[3] /\ tzDigit(ds, 1) = ds[4]
  BY DEF tzDigit

\* Seconds of four digits, and with a sign.
Seconds(a, b, c, d) == 60 * (60 * (10 * a + b) + (10 * c + d))
Signed(sign, seconds) == IF sign = "-" THEN -seconds ELSE seconds

LEMMA NameParses ==
    ASSUME NEW name, Len(name) = 5, name[1] \in {"+", "-"},
           name[2] \in 0..9, name[3] \in 0..9, name[4] \in 0..9, name[5] \in 0..9,
           Len(Tail(name)) = 4,
           Tail(name)[1] = name[2], Tail(name)[2] = name[3],
           Tail(name)[3] = name[4], Tail(name)[4] = name[5]
    PROVE  parseTZOffset(name) =
             [ok |-> TRUE, offset |-> Signed(name[1], Seconds(name[2], name[3], name[4], name[5]))]
<1>1. /\ tzDigit(Tail(name), 4) = name[2] /\ tzDigit(Tail(name), 3) = name[3]
      /\ tzDigit(Tail(name), 2) = name[4] /\ tzDigit(Tail(name), 1) = name[5]
  BY FourDigits
<1>2. \A i \in 2..5 : i = 2 \/ i = 3 \/ i = 4 \/ i = 5
  OBVIOUS
<1>3. ~(Len(name) \notin 2..5 \/ name[1] \notin {"+", "-"} \/ \E i \in 2..Len(name) : name[i] \notin 0..9)
  BY <1>2
<1> QED
  BY <1>1, <1>3, Zenon DEF parseTZOffset, Seconds, Signed

\* The sign and the magnitude of the whole minutes in an offset.
Sign(o) == IF o < 0 THEN -1 ELSE 1
Whole(o) == Sign(o) * 60 * (Magnitude(o) \div 60)
SignName(o) == IF o <= -60 THEN "-" ELSE "+"

LEMMA MagnitudeNat == ASSUME NEW o \in Int PROVE Magnitude(o) \in Nat
  BY DEF Magnitude

\* The digits of an offset.
Minutes(o) == Magnitude(o) \div 60
Hours(o) == Minutes(o) \div 60
Digit1(o) == (Hours(o) \div 10) % 10
Digit2(o) == Hours(o) % 10
Digit3(o) == (Minutes(o) % 60) \div 10
Digit4(o) == Minutes(o) % 10

LEMMA SignOf ==
    ASSUME NEW o \in Int
    PROVE  Whole(o) = Signed(SignName(o), 60 * Minutes(o))
<1> DEFINE m == Minutes(o)
<1>1. m \in Nat /\ (o > -60 /\ o < 0 => m = 0)
  BY DEF Magnitude, Minutes
<1>2. SignName(o) = "-" <=> o <= -60
  BY DEF SignName
<1>3. Whole(o) = Sign(o) * 60 * m
  BY DEF Whole, Minutes
<1> HIDE DEF m
<1>4. Whole(o) = Signed(SignName(o), 60 * m)
  BY <1>1, <1>2, <1>3 DEF Sign, Signed
<1> QED
  BY <1>4 DEF m

LEMMA DigitsOf ==
    ASSUME NEW o \in Int, Magnitude(o) < HundredHours
    PROVE  /\ Hours(o) < 100
           /\ Digit1(o) \in 0..9 /\ Digit2(o) \in 0..9 /\ Digit3(o) \in 0..9 /\ Digit4(o) \in 0..9
           /\ 60 * (10 * Digit1(o) + Digit2(o)) + (10 * Digit3(o) + Digit4(o)) = Minutes(o)
<1> DEFINE m == Minutes(o)
           h == m \div 60
           r == m % 60
<1>1. m \in Nat /\ m < 60 * 100
  BY MagnitudeNat, SMT DEF HundredHours, Minutes
<1>2. Hours(o) = h
  BY DEF Hours
<1>3. /\ Digit1(o) = (h \div 10) % 10 /\ Digit2(o) = h % 10
      /\ Digit3(o) = r \div 10 /\ Digit4(o) = m % 10
  BY <1>2 DEF Digit1, Digit2, Digit3, Digit4
<1> HIDE DEF m
<1>4. h \in 0..99 /\ r \in 0..59 /\ 60 * h + r = m /\ r % 10 = m % 10
  BY <1>1, Sixties
<1> HIDE DEF h, r
<1>5. r \in 0..99 /\ r \div 10 \in 0..9
  BY <1>4
<1>6. /\ (h \div 10) % 10 = h \div 10
      /\ h \div 10 \in 0..9 /\ h % 10 \in 0..9
      /\ 10 * (h \div 10) + (h % 10) = h
  BY <1>4, Tens
<1>7. r % 10 \in 0..9 /\ 10 * (r \div 10) + (r % 10) = r
  BY <1>5, Tens
<1>8. /\ Digit1(o) \in 0..9 /\ Digit2(o) \in 0..9 /\ Digit3(o) \in 0..9 /\ Digit4(o) \in 0..9
      /\ 10 * Digit1(o) + Digit2(o) = h /\ 10 * Digit3(o) + Digit4(o) = r
  BY <1>3, <1>4, <1>5, <1>6, <1>7
<1>9. 60 * (10 * Digit1(o) + Digit2(o)) + (10 * Digit3(o) + Digit4(o)) = m
  BY <1>4, <1>8
<1>10. Hours(o) < 100
  BY <1>2, <1>4
<1> QED
  BY <1>8, <1>9, <1>10 DEF m

LEMMA FormatIs ==
    ASSUME NEW o, Hours(o) < 100
    PROVE  Format(o) = <<SignName(o)>> \o <<Digit1(o), Digit2(o), Digit3(o), Digit4(o)>>
  BY Zenon DEF Format, SignName, Hours, Minutes, Digit1, Digit2, Digit3, Digit4

LEMMA FourLong ==
    ASSUME NEW a, NEW b, NEW c, NEW d
    PROVE  LET rest == <<a, b, c, d>>
           IN  /\ IsSequence(rest) /\ Len(rest) = 4
               /\ rest[1] = a /\ rest[2] = b /\ rest[3] = c /\ rest[4] = d
  BY DEF IsSequence

LEMMA OneAndFour ==
    ASSUME NEW first, NEW rest, IsSequence(first), Len(first) = 1, IsSequence(rest), Len(rest) = 4
    PROVE  LET name == first \o rest
           IN  /\ IsSequence(name) /\ Len(name) = 5
               /\ name[1] = first[1] /\ name[2] = rest[1] /\ name[3] = rest[2]
               /\ name[4] = rest[3] /\ name[5] = rest[4]
               /\ Len(Tail(name)) = 4
               /\ Tail(name)[1] = name[2] /\ Tail(name)[2] = name[3]
               /\ Tail(name)[3] = name[4] /\ Tail(name)[4] = name[5]
<1> DEFINE name == first \o rest
<1>0. Joined(first, rest, name)
  BY Joins
<1> HIDE DEF name
<1>1. /\ IsSequence(name) /\ Len(name) = 1 + 4
      /\ \A i \in 1..1 : name[0 + i] = first[i]
      /\ \A i \in 1..4 : name[1 + i] = rest[i]
  BY <1>0 DEF Joined, Has
<1>2. /\ name[0 + 1] = first[1] /\ name[1 + 1] = rest[1] /\ name[1 + 2] = rest[2]
      /\ name[1 + 3] = rest[3] /\ name[1 + 4] = rest[4]
  BY <1>1
<1>3. name # <<>>
  BY <1>1, EmptySequence
<1>4. Len(Tail(name)) = 4 /\ \A i \in 1..4 : Tail(name)[i] = name[i + 1]
  <2>1. /\ IsSequence(Tail(name)) /\ Len(Tail(name)) + 1 = Len(name)
        /\ \A i \in 1..Len(Tail(name)) : Tail(name)[i] = name[i + 1]
    BY <1>1, <1>3, TailAt
  <2>2. Len(Tail(name)) \in Nat
    BY <2>1 DEF IsSequence
  <2>3. Len(Tail(name)) = 4
    BY <1>1, <2>1, <2>2
  <2> QED
    BY <2>1, <2>3
<1>5. /\ Tail(name)[1] = name[1 + 1] /\ Tail(name)[2] = name[2 + 1]
      /\ Tail(name)[3] = name[3 + 1] /\ Tail(name)[4] = name[4 + 1]
  BY <1>4
<1>6. 0 + 1 = 1 /\ 1 + 1 = 2 /\ 1 + 2 = 3 /\ 1 + 3 = 4 /\ 1 + 4 = 5 /\ 2 + 1 = 3 /\ 3 + 1 = 4 /\ 4 + 1 = 5
  OBVIOUS
<1>7. /\ name[1] = first[1] /\ name[2] = rest[1] /\ name[3] = rest[2]
      /\ name[4] = rest[3] /\ name[5] = rest[4]
  BY <1>2, <1>6
<1>8. /\ Tail(name)[1] = name[2] /\ Tail(name)[2] = name[3]
      /\ Tail(name)[3] = name[4] /\ Tail(name)[4] = name[5]
  BY <1>5, <1>6
<1> QED
  BY <1>1, <1>4, <1>7, <1>8 DEF name

\* What stands for a zone of less than a hundred hours.
LEMMA FormatParses ==
    ASSUME NEW o \in Int, Magnitude(o) < HundredHours
    PROVE  /\ IsSequence(Format(o))
           /\ parseTZOffset(Format(o)) = [ok |-> TRUE, offset |-> Whole(o)]
<1> DEFINE first == <<SignName(o)>>
           rest == <<Digit1(o), Digit2(o), Digit3(o), Digit4(o)>>
           name == first \o rest
<1>1. Format(o) = name
  BY DigitsOf, FormatIs
<1>2. IsSequence(first) /\ Len(first) = 1 /\ first[1] = SignName(o)
  BY Singleton
<1>3. /\ IsSequence(rest) /\ Len(rest) = 4
      /\ rest[1] = Digit1(o) /\ rest[2] = Digit2(o) /\ rest[3] = Digit3(o) /\ rest[4] = Digit4(o)
  BY FourLong
<1> HIDE DEF first, rest
<1>4. /\ IsSequence(name) /\ Len(name) = 5
      /\ name[1] = first[1] /\ name[2] = rest[1] /\ name[3] = rest[2]
      /\ name[4] = rest[3] /\ name[5] = rest[4]
      /\ Len(Tail(name)) = 4
      /\ Tail(name)[1] = name[2] /\ Tail(name)[2] = name[3]
      /\ Tail(name)[3] = name[4] /\ Tail(name)[4] = name[5]
  BY <1>2, <1>3, OneAndFour
<1> HIDE DEF name
<1>5. name[1] \in {"+", "-"}
  BY <1>2, <1>4 DEF SignName
<1>6. /\ name[2] = Digit1(o) /\ name[3] = Digit2(o) /\ name[4] = Digit3(o) /\ name[5] = Digit4(o)
      /\ name[2] \in 0..9 /\ name[3] \in 0..9 /\ name[4] \in 0..9 /\ name[5] \in 0..9
  BY <1>3, <1>4, DigitsOf
<1>7. parseTZOffset(name) =
        [ok |-> TRUE, offset |-> Signed(name[1], Seconds(name[2], name[3], name[4], name[5]))]
  BY <1>4, <1>5, <1>6, NameParses
<1>8. Seconds(name[2], name[3], name[4], name[5]) = 60 * Minutes(o)
  BY <1>6, DigitsOf DEF Seconds
<1>9. Signed(name[1], Seconds(name[2], name[3], name[4], name[5])) = Whole(o)
  BY <1>2, <1>4, <1>8, SignOf
<1> QED
  BY <1>1, <1>4, <1>7, <1>9

\* A name that parses is of whole minutes.
LEMMA DigitsNat ==
    ASSUME NEW a \in 0..9, NEW b \in 0..9, NEW c \in 0..9, NEW d \in 0..9
    PROVE  60 * (10 * a + b) + (10 * c + d) \in Nat
  OBVIOUS

LEMMA ParsedMinutes ==
    ASSUME NEW z, IsSequence(z), parseTZOffset(z).ok
    PROVE  /\ parseTZOffset(z).offset \in Int
           /\ Whole(parseTZOffset(z).offset) = parseTZOffset(z).offset
<1> DEFINE t == Tail(z)
           m == 60 * (10 * tzDigit(t, 4) + tzDigit(t, 3)) + (10 * tzDigit(t, 2) + tzDigit(t, 1))
<1>1. Len(z) \in 2..5 /\ \A i \in 2..Len(z) : z[i] \in 0..9
  BY DEF parseTZOffset
<1>2. z # <<>>
  BY <1>1, EmptySequence
<1>3. /\ Len(t) + 1 = Len(z) /\ \A i \in 1..Len(t) : t[i] = z[i + 1]
  BY <1>2, TailAt
<1>4. Len(t) \in 1..4 /\ \A i \in 1..Len(t) : t[i] \in 0..9
  BY <1>1, <1>3, EmptySequence, TailAt, <1>2 DEF IsSequence
<1>5. \A i \in 1..4 : tzDigit(t, i) \in 0..9
  <2> HIDE DEF t
  <2> TAKE i \in 1..4
  <2>1. CASE i <= Len(t)
    <3>1. Len(t) + 1 - i \in 1..Len(t)
      BY <1>4, <2>1
    <3> QED
      BY <1>4, <2>1, <3>1 DEF tzDigit
  <2> QED
    BY <1>4, <2>1 DEF tzDigit
<1>6. parseTZOffset(z).offset \in {60 * m, -(60 * m)}
  BY DEF parseTZOffset
<1> HIDE DEF t
<1>7. /\ tzDigit(t, 1) \in 0..9 /\ tzDigit(t, 2) \in 0..9
      /\ tzDigit(t, 3) \in 0..9 /\ tzDigit(t, 4) \in 0..9
  BY <1>5
<1>8. m \in Nat
  BY <1>7, DigitsNat
<1> HIDE DEF m
<1>9. ASSUME NEW o, o = 60 * m \/ o = -(60 * m) PROVE o \in Int /\ Whole(o) = o
  BY <1>8, <1>9 DEF Magnitude, Whole, Sign
<1> QED
  BY <1>6, <1>9

-----------------------------------------------------------------------------
(* What MarshalBinary lays out, line by line.                              *)

\* How many lines come before the author, the first extra header, the
\* signature and the blank line.
AuthorAt(c) == 1 + Len(c.Parents)
ExtraAt(c) == AuthorAt(c) + 2
SignatureAt(c) == ExtraAt(c) + Len(c.Extra)
BlankAt(c) == SignatureAt(c) + Len(c.GPGSignature)

LaidOut(c, b) ==
    /\ IsSequence(b) /\ Len(b) = BlankAt(c) + 1 + Len(c.Message)
    /\ b[1] = HexLine("tree", c.Tree)
    /\ \A i \in 1..Len(c.Parents) : b[1 + i] = HexLine("parent", c.Parents[i])
    /\ b[AuthorAt(c) + 1] = UserLine("author", c.Author, c.AuthorTime)
    /\ b[AuthorAt(c) + 2] = UserLine("committer", c.Committer, c.CommitTime)
    /\ Has(b, ExtraAt(c), c.Extra)
    /\ \A i \in 1..Len(c.GPGSignature) :
         b[SignatureAt(c) + i] = Key(IF i = 1 THEN "gpgsig" ELSE Indent, c.GPGSignature[i])
    /\ b[BlankAt(c) + 1] = Blank
    /\ Has(b, BlankAt(c) + 1, c.Message)

LEMMA Two == ASSUME NEW x, NEW y PROVE /\ IsSequence(<<x, y>>) /\ Len(<<x, y>>) = 2
                                       /\ <<x, y>>[1] = x /\ <<x, y>>[2] = y
  BY DEF IsSequence

LEMMA MarshalLaidOut == ASSUME NEW c, IsCommit(c) PROVE LaidOut(c, MarshalLines(c))
<1> DEFINE p1 == <<HexLine("tree", c.Tree)>>
           p2 == [i \in 1..Len(c.Parents) |-> HexLine("parent", c.Parents[i])]
           p3 == <<UserLine("author", c.Author, c.AuthorTime),
                   UserLine("committer", c.Committer, c.CommitTime)>>
           p4 == c.Extra
           p5 == writeGPGSignature(c.GPGSignature)
           p6 == <<Blank>>
           p7 == c.Message
           q2 == p1 \o p2
           q3 == q2 \o p3
           q4 == q3 \o p4
           q5 == q4 \o p5
           q6 == q5 \o p6
           b == q6 \o p7
           np == Len(c.Parents)
           ne == Len(c.Extra)
           ng == Len(c.GPGSignature)
<1>1. b = MarshalLines(c)
  BY Zenon DEF MarshalLines
<1>2. np \in Nat /\ ne \in Nat /\ ng \in Nat /\ Len(c.Message) \in Nat
  BY Lengths DEF IsCommit
<1>3. IsSequence(p1) /\ Len(p1) = 1 /\ p1[1] = HexLine("tree", c.Tree)
  BY Singleton
<1>4. /\ IsSequence(p2) /\ Len(p2) = np
      /\ \A i \in 1..np : p2[i] = HexLine("parent", c.Parents[i])
  <2>1. p2 = [i \in 1..np |-> p2[i]]
    OBVIOUS
  <2> QED
    BY <1>2, <2>1, MadeSequence
<1>5. /\ IsSequence(p3) /\ Len(p3) = 2
      /\ p3[1] = UserLine("author", c.Author, c.AuthorTime)
      /\ p3[2] = UserLine("committer", c.Committer, c.CommitTime)
  BY Two
<1>6. IsSequence(p4) /\ Len(p4) = ne
  BY DEF IsCommit
<1>7. /\ IsSequence(p5) /\ Len(p5) = ng
      /\ \A i \in 1..ng : p5[i] = Key(IF i = 1 THEN "gpgsig" ELSE Indent, c.GPGSignature[i])
  <2>1. /\ p5 = [i \in 1..ng |-> p5[i]]
        /\ \A i \in 1..ng : p5[i] = Key(IF i = 1 THEN "gpgsig" ELSE Indent, c.GPGSignature[i])
    BY DEF writeGPGSignature
  <2> QED
    BY <1>2, <2>1, MadeSequence
<1>8. IsSequence(p6) /\ Len(p6) = 1 /\ p6[1] = Blank
  BY Singleton
<1>9. IsSequence(p7)
  BY DEF IsCommit
<1> HIDE DEF p1, p2, p3, p5, p6
<1>10. Joined(p1, p2, q2)
  BY <1>3, <1>4, Joins
<1> HIDE DEF q2
<1>11. Joined(q2, p3, q3)
  BY <1>10, <1>5, Joins DEF Joined
<1> HIDE DEF q3
<1>12. Joined(q3, p4, q4)
  BY <1>11, <1>6, Joins DEF Joined
<1> HIDE DEF q4
<1>13. Joined(q4, p5, q5)
  BY <1>12, <1>7, Joins DEF Joined
<1> HIDE DEF q5
<1>14. Joined(q5, p6, q6)
  BY <1>13, <1>8, Joins DEF Joined
<1> HIDE DEF q6
<1>15. Joined(q6, p7, b)
  BY <1>14, <1>9, Joins DEF Joined
<1> HIDE DEF b, p4, p7
<1>16. /\ IsSequence(q2) /\ IsSequence(q3) /\ IsSequence(q4) /\ IsSequence(q5)
       /\ IsSequence(q6) /\ IsSequence(b)
       /\ Len(q2) = Len(p1) + Len(p2) /\ Len(q3) = Len(q2) + Len(p3)
       /\ Len(q4) = Len(q3) + Len(p4) /\ Len(q5) = Len(q4) + Len(p5)
       /\ Len(q6) = Len(q5) + Len(p6) /\ Len(b) = Len(q6) + Len(p7)
  BY <1>10, <1>11, <1>12, <1>13, <1>14, <1>15 DEF Joined
<1>17. Has(b, 0, b)
  BY <1>16, HasItself
<1>18. Has(b, 0, q6) /\ Has(b, Len(q6), p7)
  BY <1>9, <1>15, <1>16, <1>17, HasParts, Zenon
<1>19. Has(b, 0, q5) /\ Has(b, Len(q5), p6)
  BY <1>8, <1>14, <1>16, <1>18, HasParts, Zenon
<1>20. Has(b, 0, q4) /\ Has(b, Len(q4), p5)
  BY <1>7, <1>13, <1>16, <1>19, HasParts, Zenon
<1>21. Has(b, 0, q3) /\ Has(b, Len(q3), p4)
  BY <1>6, <1>12, <1>16, <1>20, HasParts, Zenon
<1>22. Has(b, 0, q2) /\ Has(b, Len(q2), p3)
  BY <1>5, <1>11, <1>16, <1>21, HasParts, Zenon
<1>23. Has(b, 0, p1) /\ Has(b, Len(p1), p2)
  BY <1>3, <1>4, <1>10, <1>16, <1>22, HasParts, Zenon
<1> HIDE DEF np, ne, ng
<1>24. /\ Len(q2) = 1 + np /\ Len(q3) = 1 + np + 2 /\ Len(q4) = 1 + np + 2 + ne
       /\ Len(q5) = 1 + np + 2 + ne + ng /\ Len(q6) = 1 + np + 2 + ne + ng + 1
  BY <1>2, <1>16, <1>3, <1>4, <1>5, <1>6, <1>7, <1>8
<1>25. /\ Len(q2) = AuthorAt(c) /\ Len(q3) = ExtraAt(c) /\ Len(q4) = SignatureAt(c)
       /\ Len(q5) = BlankAt(c) /\ Len(q6) = BlankAt(c) + 1
  BY <1>24 DEF AuthorAt, ExtraAt, SignatureAt, BlankAt, np, ne, ng
<1>26. b[1] = HexLine("tree", c.Tree)
  <2>1. b[0 + 1] = p1[1]
    BY <1>3, <1>23 DEF Has
  <2> QED
    BY <1>3, <2>1
<1>27. \A i \in 1..np : b[1 + i] = HexLine("parent", c.Parents[i])
  BY <1>3, <1>4, <1>23 DEF Has
<1>28. /\ b[AuthorAt(c) + 1] = UserLine("author", c.Author, c.AuthorTime)
       /\ b[AuthorAt(c) + 2] = UserLine("committer", c.Committer, c.CommitTime)
  BY <1>5, <1>22, <1>25 DEF Has
<1>29. Has(b, ExtraAt(c), c.Extra) /\ Has(b, BlankAt(c) + 1, c.Message)
  BY <1>18, <1>21, <1>25 DEF p4, p7
<1>30. \A i \in 1..ng : b[SignatureAt(c) + i] = Key(IF i = 1 THEN "gpgsig" ELSE Indent, c.GPGSignature[i])
  BY <1>7, <1>20, <1>25 DEF Has
<1>31. b[BlankAt(c) + 1] = Blank
  <2>1. Has(b, BlankAt(c), p6)
    BY <1>19, <1>25, Zenon
  <2>2. 1 \in 1..Len(p6)
    BY <1>8
  <2> QED
    BY <1>8, <2>1, <2>2, Zenon DEF Has
<1>32. Len(b) = BlankAt(c) + 1 + Len(c.Message)
  BY <1>16, <1>25 DEF p7
<1>33. LaidOut(c, b)
  BY <1>16, <1>26, <1>27, <1>28, <1>29, <1>30, <1>31, <1>32, Zenon DEF LaidOut, np, ng
<1> QED
  BY <1>1, <1>33

LEMMA PositionsNat ==
    ASSUME NEW c, IsSequence(c.Parents), IsSequence(c.Extra), IsSequence(c.GPGSignature)
    PROVE  /\ Len(c.Parents) \in Nat /\ Len(c.Extra) \in Nat /\ Len(c.GPGSignature) \in Nat
           /\ AuthorAt(c) = 1 + Len(c.Parents) /\ ExtraAt(c) = AuthorAt(c) + 2
           /\ SignatureAt(c) = ExtraAt(c) + Len(c.Extra)
           /\ BlankAt(c) = SignatureAt(c) + Len(c.GPGSignature)
           /\ AuthorAt(c) \in Nat /\ ExtraAt(c) \in Nat /\ SignatureAt(c) \in Nat /\ BlankAt(c) \in Nat
<1>1. Len(c.Parents) \in Nat /\ Len(c.Extra) \in Nat /\ Len(c.GPGSignature) \in Nat
  BY Lengths
<1>2. AuthorAt(c) = 1 + Len(c.Parents) /\ AuthorAt(c) \in Nat
  BY <1>1 DEF AuthorAt
<1>3. ExtraAt(c) = AuthorAt(c) + 2 /\ ExtraAt(c) \in Nat
  BY <1>2 DEF ExtraAt
<1>4. SignatureAt(c) = ExtraAt(c) + Len(c.Extra) /\ SignatureAt(c) \in Nat
  BY <1>1, <1>3 DEF SignatureAt
<1>5. BlankAt(c) = SignatureAt(c) + Len(c.GPGSignature) /\ BlankAt(c) \in Nat
  BY <1>1, <1>4 DEF BlankAt
<1> QED
  BY <1>1, <1>2, <1>3, <1>4, <1>5

LEMMA Between ==
    ASSUME NEW k \in Nat, NEW n \in Nat, NEW i \in (k + 1)..(k + n)
    PROVE  \E j \in 1..n : i = k + j
<1>1. i - k \in 1..n /\ i = k + (i - k)
  OBVIOUS
<1> QED
  BY <1>1

LEMMA Places ==
    ASSUME NEW np \in Nat, NEW ne \in Nat, NEW ng \in Nat, NEW nm \in Nat,
           NEW at \in Nat, NEW e \in Nat, NEW s \in Nat, NEW l \in Nat,
           at = 1 + np, e = at + 2, s = e + ne, l = s + ng,
           NEW i \in 1..(l + 1 + nm)
    PROVE  \/ i = 1 \/ i = at + 1 \/ i = at + 2 \/ i = l + 1
           \/ \E j \in 1..np : i = 1 + j
           \/ \E j \in 1..ne : i = e + j
           \/ \E j \in 1..ng : i = s + j
           \/ \E j \in 1..nm : i = (l + 1) + j
<1>1. i \in (1 + 1)..(1 + np) => \E j \in 1..np : i = 1 + j
  BY Between
<1>2. i \in (e + 1)..(e + ne) => \E j \in 1..ne : i = e + j
  BY Between
<1>3. i \in (s + 1)..(s + ng) => \E j \in 1..ng : i = s + j
  BY Between
<1>4. i \in ((l + 1) + 1)..((l + 1) + nm) => \E j \in 1..nm : i = (l + 1) + j
  <2>1. l + 1 \in Nat
    OBVIOUS
  <2> QED
    BY <2>1, Between
<1>5. \/ i = 1 \/ i = at + 1 \/ i = at + 2 \/ i = l + 1
      \/ i \in (1 + 1)..(1 + np) \/ i \in (e + 1)..(e + ne) \/ i \in (s + 1)..(s + ng)
      \/ i \in ((l + 1) + 1)..((l + 1) + nm)
  OBVIOUS
<1> QED
  BY <1>1, <1>2, <1>3, <1>4, <1>5

LEMMA LaidOutUnique ==
    ASSUME NEW c, NEW a, NEW b, IsCommit(c), LaidOut(c, a), LaidOut(c, b)
    PROVE  a = b
<1> DEFINE np == Len(c.Parents)
           ne == Len(c.Extra)
           ng == Len(c.GPGSignature)
           nm == Len(c.Message)
<1>1. /\ AuthorAt(c) = 1 + np /\ ExtraAt(c) = AuthorAt(c) + 2
      /\ SignatureAt(c) = ExtraAt(c) + ne /\ BlankAt(c) = SignatureAt(c) + ng
      /\ np \in Nat /\ ne \in Nat /\ ng \in Nat /\ nm \in Nat
      /\ AuthorAt(c) \in Nat /\ ExtraAt(c) \in Nat /\ SignatureAt(c) \in Nat /\ BlankAt(c) \in Nat
  BY PositionsNat, Lengths DEF IsCommit
<1>2. /\ IsSequence(a) /\ IsSequence(b)
      /\ Len(a) = BlankAt(c) + 1 + nm /\ Len(b) = Len(a)
  BY DEF LaidOut
<1>3. ASSUME NEW i \in 1..Len(a) PROVE a[i] = b[i]
  <2>1. \/ i = 1 \/ i = AuthorAt(c) + 1 \/ i = AuthorAt(c) + 2 \/ i = BlankAt(c) + 1
        \/ \E j \in 1..np : i = 1 + j
        \/ \E j \in 1..ne : i = ExtraAt(c) + j
        \/ \E j \in 1..ng : i = SignatureAt(c) + j
        \/ \E j \in 1..nm : i = (BlankAt(c) + 1) + j
    <3> HIDE DEF np, ne, ng, nm
    <3> QED
      BY <1>1, <1>2, Places
  <2>2. CASE i = 1 \/ i = AuthorAt(c) + 1 \/ i = AuthorAt(c) + 2 \/ i = BlankAt(c) + 1
    BY <2>2 DEF LaidOut
  <2>3. CASE \E j \in 1..np : i = 1 + j
    BY <2>3 DEF LaidOut
  <2>4. CASE \E j \in 1..ne : i = ExtraAt(c) + j
    BY <2>4 DEF LaidOut, Has
  <2>5. CASE \E j \in 1..ng : i = SignatureAt(c) + j
    BY <2>5 DEF LaidOut
  <2>6. CASE \E j \in 1..nm : i = (BlankAt(c) + 1) + j
    BY <2>6 DEF LaidOut, Has
  <2> QED
    BY <2>1, <2>2, <2>3, <2>4, <2>5, <2>6
<1> QED
  BY <1>2, <1>3, SameSequence

-----------------------------------------------------------------------------
(* What UnmarshalBinary has read of bytes b, and what is left.             *)

\* ls is b after its first k lines.
Rest(b, ls, k) ==
    /\ IsSequence(ls) /\ Len(ls) + k = Len(b)
    /\ \A i \in 1..Len(ls) : ls[i] = b[k + i]

LEMMA TakeLine ==
    ASSUME NEW b, NEW ls, NEW k \in Nat, Rest(b, ls, k), ls # <<>>
    PROVE  Head(ls) = b[k + 1] /\ Rest(b, Tail(ls), k + 1)
<1> DEFINE t == Tail(ls)
<1>1. /\ IsSequence(t) /\ Len(t) + 1 = Len(ls)
      /\ \A i \in 1..Len(t) : t[i] = ls[i + 1]
      /\ Head(ls) = ls[1] /\ Len(ls) # 0
  BY TailAt DEF Rest
<1> HIDE DEF t
<1>2. Len(ls) \in Nat /\ Len(t) \in Nat
  BY <1>1, Lengths DEF Rest
<1>3. Head(ls) = b[k + 1]
  BY <1>1, <1>2 DEF Rest
<1>4. Len(t) + (k + 1) = Len(b)
  BY <1>1, <1>2 DEF Rest
<1>5. ASSUME NEW i \in 1..Len(t) PROVE t[i] = b[(k + 1) + i]
  <2>1. i + 1 \in 1..Len(ls) /\ k + (i + 1) = (k + 1) + i
    BY <1>1, <1>2
  <2>2. ls[i + 1] = b[k + (i + 1)]
    BY <2>1 DEF Rest
  <2> QED
    BY <1>1, <2>1, <2>2
<1> QED
  BY <1>1, <1>3, <1>4, <1>5 DEF Rest, t

\* A line that is there, and is not the end.
LEMMA NextIs ==
    ASSUME NEW b, NEW k \in Nat, Rest(b, lines, k), Next1.key # "end"
    PROVE  lines # <<>> /\ Next1 = b[k + 1] /\ Rest(b, Tail(lines), k + 1)
<1>1. lines # <<>>
  BY DEF Next1, Key
<1> QED
  BY <1>1, TakeLine DEF Next1

Fields(c) ==
    /\ c = [Tree |-> c.Tree, Parents |-> c.Parents, Author |-> c.Author,
            AuthorTime |-> c.AuthorTime, Committer |-> c.Committer,
            CommitTime |-> c.CommitTime, Extra |-> c.Extra,
            GPGSignature |-> c.GPGSignature, Message |-> c.Message]
    /\ IsSequence(c.Parents) /\ IsSequence(c.Extra)
    /\ IsSequence(c.GPGSignature) /\ IsSequence(c.Message)

HashRead(line, key, hash) == line.key = key /\ line.ok /\ line.hash = hash
UserRead(line, key, user, time) ==
    /\ line.key = key
    /\ consumeUser(line).ok
    /\ user = consumeUser(line).user /\ time = consumeUser(line).time

ParentsRead(c, b) ==
    /\ HashRead(b[1], "tree", c.Tree)
    /\ \A i \in 1..Len(c.Parents) : HashRead(b[1 + i], "parent", c.Parents[i])
AuthorRead(c, b) ==
    ParentsRead(c, b) /\ UserRead(b[AuthorAt(c) + 1], "author", c.Author, c.AuthorTime)
CommitterRead(c, b) ==
    AuthorRead(c, b) /\ UserRead(b[AuthorAt(c) + 2], "committer", c.Committer, c.CommitTime)
IsExtra(line) == line # Blank /\ line.key # "gpgsig" /\ line.key # "end"
ExtraRead(c, b) ==
    /\ CommitterRead(c, b)
    /\ Has(b, ExtraAt(c), c.Extra)
    /\ \A i \in 1..Len(c.Extra) : IsExtra(c.Extra[i])
SignatureKey(i) == IF i = 1 THEN "gpgsig" ELSE Indent
SignatureRead(c, b) ==
    /\ ExtraRead(c, b)
    /\ \A i \in 1..Len(c.GPGSignature) :
         b[SignatureAt(c) + i].key = SignatureKey(i) /\ b[SignatureAt(c) + i].text = c.GPGSignature[i]
BlankRead(c, b) == SignatureRead(c, b) /\ b[BlankAt(c) + 1] = Blank

Unsigned(c) == c.GPGSignature = <<>>

AtParents(c, b, ls) ==
    ParentsRead(c, b) /\ c.Extra = <<>> /\ Unsigned(c) /\ Rest(b, ls, AuthorAt(c))
AtCommitter(c, b, ls) ==
    AuthorRead(c, b) /\ c.Extra = <<>> /\ Unsigned(c) /\ Rest(b, ls, AuthorAt(c) + 1)
AtExtra(c, b, ls) ==
    ExtraRead(c, b) /\ Unsigned(c) /\ Rest(b, ls, SignatureAt(c))
AtSignature(c, b, ls) ==
    SignatureRead(c, b) /\ ~Unsigned(c) /\ Rest(b, ls, BlankAt(c))

\* In a state of the parser: the fields so far are what the lines so far say.
Parsed(state, c, b, ls) ==
    /\ Fields(c) /\ IsSequence(b)
    /\ state \in {"tree", "parents", "committer", "extra", "signature", "message", "parsed"}
    /\ state = "tree" => c = NoCommit /\ Rest(b, ls, 0)
    /\ state = "parents" => AtParents(c, b, ls)
    /\ state = "committer" => AtCommitter(c, b, ls)
    /\ state = "extra" => AtExtra(c, b, ls)
    /\ state = "signature" => AtSignature(c, b, ls)
    /\ state = "message" => BlankRead(c, b) /\ Rest(b, ls, BlankAt(c) + 1)
    /\ state = "parsed" => BlankRead(c, b) /\ Rest(b, c.Message, BlankAt(c) + 1) /\ ls = <<>>

LEMMA NoFields == Fields(NoCommit) /\ NoCommit.Parents = <<>> /\ NoCommit.Extra = <<>>
                  /\ NoCommit.GPGSignature = <<>>
  BY EmptySequence DEF Fields, NoCommit

LEMMA FieldPlaces ==
    ASSUME NEW c, Fields(c)
    PROVE  /\ AuthorAt(c) \in Nat /\ ExtraAt(c) \in Nat /\ SignatureAt(c) \in Nat /\ BlankAt(c) \in Nat
           /\ AuthorAt(c) = 1 + Len(c.Parents) /\ ExtraAt(c) = AuthorAt(c) + 2
           /\ SignatureAt(c) = ExtraAt(c) + Len(c.Extra)
           /\ BlankAt(c) = SignatureAt(c) + Len(c.GPGSignature)
  BY PositionsNat DEF Fields

LEMMA ReadTree ==
    ASSUME NEW b, Parsed("tree", commit, b, lines), consumeTree, commitState' # "refused"
    PROVE  Parsed(commitState', commit', b, lines')
<1>1. /\ commit' = [NoCommit EXCEPT !.Tree = Next1.hash] /\ lines' = Tail(lines)
      /\ commitState' = "parents" /\ Next1.key = "tree" /\ Next1.ok
  BY DEF consumeTree, Consumed, Refused
<1>2. Next1 = b[0 + 1] /\ Rest(b, lines', 0 + 1)
  BY <1>1, NextIs DEF Parsed
<1>3. /\ Fields(commit') /\ commit'.Tree = Next1.hash /\ commit'.Parents = <<>>
      /\ commit'.Extra = <<>> /\ commit'.GPGSignature = <<>>
  BY <1>1, NoFields DEF Fields
<1>4. AuthorAt(commit') = 1
  BY <1>3, EmptySequence DEF AuthorAt
<1>5. ParentsRead(commit', b)
  BY <1>1, <1>2, <1>3, EmptySequence DEF ParentsRead, HashRead
<1>6. AtParents(commit', b, lines')
  BY <1>2, <1>3, <1>4, <1>5 DEF AtParents, Unsigned
<1> QED
  BY <1>1, <1>3, <1>6 DEF Parsed

LEMMA ReadParent ==
    ASSUME NEW b, Parsed("parents", commit, b, lines), consumeParent, commitState' # "refused"
    PROVE  Parsed(commitState', commit', b, lines')
<1> DEFINE np == Len(commit.Parents)
           parents == Append(commit.Parents, Next1.hash)
<1>1. /\ commit' = [commit EXCEPT !.Parents = parents] /\ lines' = Tail(lines)
      /\ commitState' = "parents" /\ Next1.key = "parent" /\ Next1.ok
  BY DEF consumeParent, Consumed, Refused
<1>2. Fields(commit) /\ AtParents(commit, b, lines) /\ IsSequence(b)
  BY DEF Parsed
<1>3. np \in Nat /\ AuthorAt(commit) = 1 + np
  BY <1>2, Lengths DEF Fields, AuthorAt
<1>4. Next1 = b[(1 + np) + 1] /\ Rest(b, lines', (1 + np) + 1)
  BY <1>1, <1>2, <1>3, NextIs DEF AtParents
<1>5. /\ IsSequence(parents) /\ Len(parents) = np + 1
      /\ \A i \in 1..np : parents[i] = commit.Parents[i]
      /\ parents[np + 1] = Next1.hash
  BY <1>2, AppendAt DEF Fields
<1> HIDE DEF parents
<1>6. /\ Fields(commit') /\ commit'.Tree = commit.Tree /\ commit'.Parents = parents
      /\ commit'.Extra = <<>> /\ Unsigned(commit')
  BY <1>1, <1>2, <1>5 DEF Fields, AtParents, Unsigned
<1>7. AuthorAt(commit') = (1 + np) + 1
  BY <1>3, <1>5, <1>6 DEF AuthorAt
<1>8. ASSUME NEW i \in 1..(np + 1) PROVE HashRead(b[1 + i], "parent", parents[i])
  <2>1. CASE i = np + 1
    <3>1. 1 + i = (1 + np) + 1
      BY <1>3, <2>1
    <3> QED
      BY <1>1, <1>4, <1>5, <2>1, <3>1 DEF HashRead
  <2>2. CASE i \in 1..np
    BY <1>2, <1>5, <2>2 DEF AtParents, ParentsRead
  <2> HIDE DEF np
  <2> QED
    BY <1>3, <2>1, <2>2
<1>9. ParentsRead(commit', b)
  BY <1>2, <1>5, <1>6, <1>8 DEF ParentsRead, AtParents
<1>10. AtParents(commit', b, lines')
  BY <1>4, <1>6, <1>7, <1>9 DEF AtParents
<1> QED
  BY <1>1, <1>2, <1>6, <1>10 DEF Parsed

LEMMA ReadAuthor ==
    ASSUME NEW b, Parsed("parents", commit, b, lines), consumeAuthor, commitState' # "refused"
    PROVE  Parsed(commitState', commit', b, lines')
<1> DEFINE who == consumeUser(Next1)
<1>1. /\ commit' = [commit EXCEPT !.Author = who.user, !.AuthorTime = who.time]
      /\ lines' = Tail(lines)
      /\ commitState' = "committer" /\ Next1.key = "author" /\ who.ok
  BY DEF consumeAuthor, Consumed, Refused
<1>2. Fields(commit) /\ AtParents(commit, b, lines) /\ IsSequence(b)
  BY DEF Parsed
<1>3. AuthorAt(commit) \in Nat
  BY <1>2, FieldPlaces
<1>4. Next1 = b[AuthorAt(commit) + 1] /\ Rest(b, lines', AuthorAt(commit) + 1)
  BY <1>1, <1>2, <1>3, NextIs DEF AtParents
<1> HIDE DEF who
<1>5. /\ Fields(commit') /\ commit'.Tree = commit.Tree /\ commit'.Parents = commit.Parents
      /\ commit'.Extra = <<>> /\ Unsigned(commit')
      /\ commit'.Author = who.user /\ commit'.AuthorTime = who.time
  BY <1>1, <1>2 DEF Fields, AtParents, Unsigned
<1>6. AuthorAt(commit') = AuthorAt(commit)
  BY <1>5 DEF AuthorAt
<1>7. ParentsRead(commit', b)
  BY <1>2, <1>5 DEF ParentsRead, AtParents
<1>8. UserRead(b[AuthorAt(commit') + 1], "author", commit'.Author, commit'.AuthorTime)
  BY <1>1, <1>4, <1>5, <1>6 DEF UserRead, who
<1>9. AtCommitter(commit', b, lines')
  BY <1>4, <1>5, <1>6, <1>7, <1>8 DEF AtCommitter, AuthorRead
<1> QED
  BY <1>1, <1>2, <1>5, <1>9 DEF Parsed

LEMMA ReadCommitter ==
    ASSUME NEW b, Parsed("committer", commit, b, lines), consumeCommitter, commitState' # "refused"
    PROVE  Parsed(commitState', commit', b, lines')
<1> DEFINE who == consumeUser(Next1)
<1>1. /\ commit' = [commit EXCEPT !.Committer = who.user, !.CommitTime = who.time]
      /\ lines' = Tail(lines)
      /\ commitState' = "extra" /\ Next1.key = "committer" /\ who.ok
  BY DEF consumeCommitter, Consumed, Refused
<1>2. Fields(commit) /\ AtCommitter(commit, b, lines) /\ IsSequence(b)
  BY DEF Parsed
<1>3. AuthorAt(commit) \in Nat
  BY <1>2, FieldPlaces
<1>4. Next1 = b[AuthorAt(commit) + 2] /\ Rest(b, lines', AuthorAt(commit) + 2)
  <2>1. AuthorAt(commit) + 1 \in Nat /\ (AuthorAt(commit) + 1) + 1 = AuthorAt(commit) + 2
    BY <1>3
  <2>2. Rest(b, lines, AuthorAt(commit) + 1) /\ Next1.key # "end"
    BY <1>1, <1>2 DEF AtCommitter
  <2>3. Next1 = b[(AuthorAt(commit) + 1) + 1] /\ Rest(b, lines', (AuthorAt(commit) + 1) + 1)
    BY <1>1, <2>1, <2>2, NextIs
  <2> QED
    BY <2>1, <2>3
<1> HIDE DEF who
<1>5. /\ Fields(commit') /\ commit'.Tree = commit.Tree /\ commit'.Parents = commit.Parents
      /\ commit'.Extra = <<>> /\ Unsigned(commit')
      /\ commit'.Author = commit.Author /\ commit'.AuthorTime = commit.AuthorTime
      /\ commit'.Committer = who.user /\ commit'.CommitTime = who.time
  BY <1>1, <1>2 DEF Fields, AtCommitter, Unsigned
<1>6. AuthorAt(commit') = AuthorAt(commit)
  BY <1>5 DEF AuthorAt
<1>7. ParentsRead(commit', b)
  BY <1>2, <1>5 DEF ParentsRead, AtCommitter, AuthorRead
<1>8. AuthorRead(commit', b)
  BY <1>2, <1>5, <1>6, <1>7 DEF AtCommitter, AuthorRead
<1>9. UserRead(b[AuthorAt(commit') + 2], "committer", commit'.Committer, commit'.CommitTime)
  BY <1>1, <1>4, <1>5, <1>6 DEF UserRead, who
<1>10. 1..Len(commit'.Extra) = {}
  BY <1>5, EmptySequence
<1>11. ExtraRead(commit', b)
  BY <1>8, <1>9, <1>10 DEF ExtraRead, CommitterRead, Has
<1>12. SignatureAt(commit') = AuthorAt(commit) + 2
  BY <1>3, <1>5, <1>6, EmptySequence DEF SignatureAt, ExtraAt
<1>13. AtExtra(commit', b, lines')
  BY <1>4, <1>5, <1>11, <1>12 DEF AtExtra
<1> QED
  BY <1>1, <1>2, <1>5, <1>13 DEF Parsed

\* Another field changes nothing of the header above it.
LEMMA SameHeader ==
    ASSUME NEW c, NEW d, NEW b,
           d.Tree = c.Tree, d.Parents = c.Parents, d.Author = c.Author, d.AuthorTime = c.AuthorTime,
           d.Committer = c.Committer, d.CommitTime = c.CommitTime
    PROVE  /\ AuthorAt(d) = AuthorAt(c) /\ ExtraAt(d) = ExtraAt(c)
           /\ CommitterRead(d, b) = CommitterRead(c, b)
<1>1. AuthorAt(d) = AuthorAt(c) /\ ExtraAt(d) = ExtraAt(c)
  BY DEF AuthorAt, ExtraAt
<1>2. ParentsRead(d, b) = ParentsRead(c, b)
  BY DEF ParentsRead
<1>3. AuthorRead(d, b) = AuthorRead(c, b)
  BY <1>1, <1>2 DEF AuthorRead
<1> QED
  BY <1>1, <1>3 DEF CommitterRead

LEMMA SameExtra ==
    ASSUME NEW c, NEW d, NEW b,
           d.Tree = c.Tree, d.Parents = c.Parents, d.Author = c.Author, d.AuthorTime = c.AuthorTime,
           d.Committer = c.Committer, d.CommitTime = c.CommitTime, d.Extra = c.Extra
    PROVE  SignatureAt(d) = SignatureAt(c) /\ ExtraRead(d, b) = ExtraRead(c, b)
<1>1. ExtraAt(d) = ExtraAt(c) /\ CommitterRead(d, b) = CommitterRead(c, b)
  BY SameHeader
<1> QED
  BY <1>1 DEF SignatureAt, ExtraRead

LEMMA NoSignature ==
    ASSUME NEW c, NEW b, Fields(c), ExtraRead(c, b), Unsigned(c)
    PROVE  SignatureRead(c, b) /\ BlankAt(c) = SignatureAt(c)
<1>1. Len(c.GPGSignature) = 0
  BY EmptySequence DEF Unsigned
<1>2. SignatureAt(c) \in Nat
  BY FieldPlaces
<1> QED
  BY <1>1, <1>2 DEF SignatureRead, BlankAt

LEMMA ReadExtra ==
    ASSUME NEW b, Parsed("extra", commit, b, lines), consumeExtra, commitState' # "refused"
    PROVE  Parsed(commitState', commit', b, lines')
<1> DEFINE ne == Len(commit.Extra)
           extra == Append(commit.Extra, Next1)
<1>1. Fields(commit) /\ AtExtra(commit, b, lines) /\ IsSequence(b)
  BY DEF Parsed
<1>2. /\ SignatureAt(commit) \in Nat /\ ExtraAt(commit) \in Nat /\ ne \in Nat
      /\ SignatureAt(commit) = ExtraAt(commit) + ne
  BY <1>1, FieldPlaces, Lengths DEF Fields
<1>3. Next1.key # "end" /\ Next1.key # "gpgsig" /\ lines' = Tail(lines)
  BY DEF consumeExtra, Consumed, Refused
<1>4. Next1 = b[SignatureAt(commit) + 1] /\ Rest(b, lines', SignatureAt(commit) + 1)
  BY <1>1, <1>2, <1>3, NextIs DEF AtExtra
<1>5. CASE Next1 = Blank
  <2>1. commit' = commit /\ commitState' = "message"
    BY <1>3, <1>5 DEF consumeExtra, Consumed
  <2>2. SignatureRead(commit, b) /\ BlankAt(commit) = SignatureAt(commit)
    BY <1>1, NoSignature DEF AtExtra
  <2>3. BlankRead(commit, b)
    BY <1>4, <1>5, <2>2 DEF BlankRead
  <2> QED
    BY <1>1, <1>4, <2>1, <2>2, <2>3 DEF Parsed
<1>6. CASE Next1 # Blank
  <2>1. commit' = [commit EXCEPT !.Extra = extra] /\ commitState' = "extra"
    BY <1>3, <1>6 DEF consumeExtra, Consumed
  <2>2. /\ IsSequence(extra) /\ Len(extra) = ne + 1
        /\ \A i \in 1..ne : extra[i] = commit.Extra[i]
        /\ extra[ne + 1] = Next1
    BY <1>1, AppendAt DEF Fields
  <2> HIDE DEF extra
  <2>3. /\ Fields(commit') /\ commit'.Tree = commit.Tree /\ commit'.Parents = commit.Parents
        /\ commit'.Author = commit.Author /\ commit'.AuthorTime = commit.AuthorTime
        /\ commit'.Committer = commit.Committer /\ commit'.CommitTime = commit.CommitTime
        /\ commit'.Extra = extra /\ Unsigned(commit')
    BY <1>1, <2>1, <2>2 DEF Fields, AtExtra, Unsigned
  <2>4. ExtraAt(commit') = ExtraAt(commit) /\ CommitterRead(commit', b) = CommitterRead(commit, b)
    BY <2>3, SameHeader
  <2>5. ASSUME NEW i \in 1..(ne + 1) PROVE b[ExtraAt(commit) + i] = extra[i] /\ IsExtra(extra[i])
    <3>1. CASE i = ne + 1
      <4>1. ExtraAt(commit) + i = SignatureAt(commit) + 1
        BY <1>2, <3>1
      <4> QED
        BY <1>3, <1>4, <1>6, <2>2, <3>1, <4>1 DEF IsExtra
    <3>2. CASE i \in 1..ne
      BY <1>1, <2>2, <3>2 DEF AtExtra, ExtraRead, Has
    <3> HIDE DEF ne
    <3> QED
      BY <1>2, <3>1, <3>2
  <2>6. ExtraRead(commit', b)
    BY <1>1, <2>2, <2>3, <2>4, <2>5 DEF ExtraRead, AtExtra, Has
  <2>7. SignatureAt(commit') = SignatureAt(commit) + 1
    BY <1>2, <2>2, <2>3, <2>4 DEF SignatureAt
  <2>8. AtExtra(commit', b, lines')
    BY <1>4, <2>3, <2>6, <2>7 DEF AtExtra
  <2> QED
    BY <1>1, <2>1, <2>3, <2>8 DEF Parsed
<1> QED
  BY <1>5, <1>6

LEMMA ReadGPGSig ==
    ASSUME NEW b, Parsed("extra", commit, b, lines), consumeGPGSig
    PROVE  Parsed(commitState', commit', b, lines')
<1>1. Fields(commit) /\ AtExtra(commit, b, lines) /\ IsSequence(b)
  BY DEF Parsed
<1>2. SignatureAt(commit) \in Nat
  BY <1>1, FieldPlaces
<1>3. /\ Next1.key = "gpgsig" /\ lines' = Tail(lines) /\ commitState' = "signature"
      /\ commit' = [commit EXCEPT !.GPGSignature = <<Next1.text>>]
  BY DEF consumeGPGSig, Consumed
<1>4. Next1 = b[SignatureAt(commit) + 1] /\ Rest(b, lines', SignatureAt(commit) + 1)
  BY <1>1, <1>2, <1>3, NextIs DEF AtExtra
<1> DEFINE sig == <<Next1.text>>
<1>5. IsSequence(sig) /\ Len(sig) = 1 /\ sig[1] = Next1.text
  BY Singleton
<1>6. commit' = [commit EXCEPT !.GPGSignature = sig]
  BY <1>3
<1> HIDE DEF sig
<1>7. /\ Fields(commit') /\ commit'.Tree = commit.Tree /\ commit'.Parents = commit.Parents
      /\ commit'.Author = commit.Author /\ commit'.AuthorTime = commit.AuthorTime
      /\ commit'.Committer = commit.Committer /\ commit'.CommitTime = commit.CommitTime
      /\ commit'.Extra = commit.Extra /\ commit'.GPGSignature = sig
  BY <1>1, <1>5, <1>6 DEF Fields
<1>8. SignatureAt(commit') = SignatureAt(commit) /\ ExtraRead(commit', b)
  BY <1>1, <1>7, SameExtra DEF AtExtra
<1>9. \A i \in 1..1 : i = 1
  OBVIOUS
<1>10. SignatureRead(commit', b)
  BY <1>3, <1>4, <1>5, <1>7, <1>8, <1>9 DEF SignatureRead, SignatureKey
<1>11. BlankAt(commit') = SignatureAt(commit) + 1
  BY <1>5, <1>7, <1>8 DEF BlankAt
<1>12. ~Unsigned(commit')
  <2>1. Len(<<>>) # Len(sig)
    BY <1>5, EmptySequence
  <2> QED
    BY <1>7, <2>1, Zenon DEF Unsigned
<1>13. AtSignature(commit', b, lines')
  BY <1>4, <1>10, <1>11, <1>12 DEF AtSignature
<1> QED
  BY <1>1, <1>3, <1>7, <1>13 DEF Parsed

LEMMA ReadSignature ==
    ASSUME NEW b, Parsed("signature", commit, b, lines), consumeSignature
    PROVE  Parsed(commitState', commit', b, lines')
<1> DEFINE ng == Len(commit.GPGSignature)
           sig == Append(commit.GPGSignature, Next1.text)
<1>1. Fields(commit) /\ AtSignature(commit, b, lines) /\ IsSequence(b)
  BY DEF Parsed
<1>2. /\ SignatureAt(commit) \in Nat /\ BlankAt(commit) \in Nat /\ ng \in Nat
      /\ BlankAt(commit) = SignatureAt(commit) + ng
  BY <1>1, FieldPlaces, Lengths DEF Fields
<1>3. /\ Next1.key = Indent /\ lines' = Tail(lines) /\ commitState' = "signature"
      /\ commit' = [commit EXCEPT !.GPGSignature = sig]
  BY DEF consumeSignature, Consumed
<1>4. Indent # "end"
  BY Zenon DEF Indent
<1>5. Next1 = b[BlankAt(commit) + 1] /\ Rest(b, lines', BlankAt(commit) + 1)
  BY <1>1, <1>2, <1>3, <1>4, NextIs DEF AtSignature
<1>6. /\ IsSequence(sig) /\ Len(sig) = ng + 1
      /\ \A i \in 1..ng : sig[i] = commit.GPGSignature[i]
      /\ sig[ng + 1] = Next1.text
  BY <1>1, AppendAt DEF Fields
<1>7. ng # 0
  BY <1>1, NoneLeft DEF AtSignature, Unsigned, Fields
<1> HIDE DEF sig
<1>8. /\ Fields(commit') /\ commit'.Tree = commit.Tree /\ commit'.Parents = commit.Parents
      /\ commit'.Author = commit.Author /\ commit'.AuthorTime = commit.AuthorTime
      /\ commit'.Committer = commit.Committer /\ commit'.CommitTime = commit.CommitTime
      /\ commit'.Extra = commit.Extra /\ commit'.GPGSignature = sig
  BY <1>1, <1>3, <1>6 DEF Fields
<1>9. SignatureAt(commit') = SignatureAt(commit) /\ ExtraRead(commit', b)
  BY <1>1, <1>8, SameExtra DEF AtSignature, SignatureRead
<1>10. ASSUME NEW i \in 1..(ng + 1)
       PROVE  b[SignatureAt(commit) + i].key = SignatureKey(i) /\ b[SignatureAt(commit) + i].text = sig[i]
  <2>1. CASE i = ng + 1
    <3>1. SignatureAt(commit) + i = BlankAt(commit) + 1 /\ i # 1
      BY <1>2, <1>7, <2>1
    <3> QED
      BY <1>3, <1>5, <1>6, <2>1, <3>1 DEF SignatureKey
  <2>2. CASE i \in 1..ng
    BY <1>1, <1>6, <2>2 DEF AtSignature, SignatureRead
  <2> HIDE DEF ng
  <2> QED
    BY <1>2, <2>1, <2>2
<1>11. SignatureRead(commit', b)
  BY <1>6, <1>8, <1>9, <1>10 DEF SignatureRead
<1>12. BlankAt(commit') = BlankAt(commit) + 1
  BY <1>2, <1>6, <1>8, <1>9 DEF BlankAt
<1>13. ~Unsigned(commit')
  BY <1>2, <1>6, <1>8, EmptySequence DEF Unsigned
<1>14. AtSignature(commit', b, lines')
  BY <1>5, <1>11, <1>12, <1>13 DEF AtSignature
<1> QED
  BY <1>1, <1>3, <1>8, <1>14 DEF Parsed

LEMMA ReadSignatureEnds ==
    ASSUME NEW b, Parsed("signature", commit, b, lines), SignatureEnds, commitState' # "refused"
    PROVE  Parsed(commitState', commit', b, lines')
<1>1. Fields(commit) /\ AtSignature(commit, b, lines) /\ IsSequence(b)
  BY DEF Parsed
<1>2. BlankAt(commit) \in Nat
  BY <1>1, FieldPlaces
<1>3. Next1 = Blank /\ lines' = Tail(lines) /\ commitState' = "message" /\ commit' = commit
  BY DEF SignatureEnds, Consumed, Refused
<1>4. Next1.key # "end"
  <2>1. NoText # "end"
    BY Zenon DEF NoText
  <2> QED
    BY <1>3, <2>1 DEF Blank, Key
<1>5. Next1 = b[BlankAt(commit) + 1] /\ Rest(b, lines', BlankAt(commit) + 1)
  BY <1>1, <1>2, <1>3, <1>4, NextIs DEF AtSignature
<1>6. BlankRead(commit, b)
  BY <1>1, <1>3, <1>5 DEF BlankRead, AtSignature
<1> QED
  BY <1>1, <1>3, <1>5, <1>6 DEF Parsed

LEMMA ReadMessage ==
    ASSUME NEW b, Parsed("message", commit, b, lines), consumeMessage
    PROVE  Parsed(commitState', commit', b, lines')
<1>1. Fields(commit) /\ BlankRead(commit, b) /\ IsSequence(b) /\ Rest(b, lines, BlankAt(commit) + 1)
  BY DEF Parsed
<1>2. /\ commit' = [commit EXCEPT !.Message = lines] /\ lines' = <<>> /\ commitState' = "parsed"
  BY DEF consumeMessage
<1>3. /\ Fields(commit') /\ commit'.Tree = commit.Tree /\ commit'.Parents = commit.Parents
      /\ commit'.Author = commit.Author /\ commit'.AuthorTime = commit.AuthorTime
      /\ commit'.Committer = commit.Committer /\ commit'.CommitTime = commit.CommitTime
      /\ commit'.Extra = commit.Extra /\ commit'.GPGSignature = commit.GPGSignature
      /\ commit'.Message = lines
  BY <1>1, <1>2 DEF Fields, Rest
<1>4. SignatureAt(commit') = SignatureAt(commit) /\ ExtraRead(commit', b) = ExtraRead(commit, b)
  BY <1>3, SameExtra
<1>5. BlankAt(commit') = BlankAt(commit)
  BY <1>3, <1>4 DEF BlankAt
<1>6. BlankRead(commit', b)
  BY <1>1, <1>3, <1>4, <1>5 DEF BlankRead, SignatureRead
<1> QED
  BY <1>1, <1>2, <1>3, <1>5, <1>6 DEF Parsed

-----------------------------------------------------------------------------
(* Bytes b that MarshalBinary laid out for a Commit o are read as it says. *)

LEMMA ZoneWritten ==
    ASSUME NEW t, IsTime(t),
           \/ Magnitude(t.offset) < HundredHours
           \/ parseTZOffset(t.zone) = [ok |-> TRUE, offset |-> t.offset]
    PROVE  /\ IsSequence(tzOffset(t))
           /\ parseTZOffset(tzOffset(t)) = [ok |-> TRUE, offset |-> Whole(t.offset)]
<1> DEFINE got == parseTZOffset(t.zone)
<1>1. IsSequence(t.zone) /\ t.offset \in Int
  BY DEF IsTime
<1>2. CASE got.ok /\ got.offset = t.offset
  <2>1. tzOffset(t) = t.zone
    BY <1>2, Zenon DEF tzOffset
  <2>2. got = [ok |-> TRUE, offset |-> got.offset]
    BY <1>2 DEF parseTZOffset
  <2>3. Whole(got.offset) = got.offset
    BY <1>1, <1>2, ParsedMinutes
  <2> QED
    BY <1>1, <1>2, <2>1, <2>2, <2>3
<1>3. CASE ~(got.ok /\ got.offset = t.offset)
  <2>1. tzOffset(t) = Format(t.offset)
    BY <1>3, Zenon DEF tzOffset
  <2>2. Magnitude(t.offset) < HundredHours
    BY <1>3
  <2> QED
    BY <1>1, <2>1, <2>2, FormatParses
<1> QED
  BY <1>2, <1>3

LEMMA UserWritten ==
    ASSUME NEW key, NEW user, NEW t, IsTime(t),
           \/ Magnitude(t.offset) < HundredHours
           \/ parseTZOffset(t.zone) = [ok |-> TRUE, offset |-> t.offset]
    PROVE  /\ UserLine(key, user, t).key = key
           /\ consumeUser(UserLine(key, user, t)).ok
           /\ consumeUser(UserLine(key, user, t)).user = user
           /\ consumeUser(UserLine(key, user, t)).time = WrittenTime(t)
<1> DEFINE z == tzOffset(t)
<1>1. parseTZOffset(z) = [ok |-> TRUE, offset |-> Whole(t.offset)]
  BY ZoneWritten
<1>2. WrittenTime(t) = [unix |-> t.unix, zone |-> z, offset |-> Whole(t.offset)]
  BY DEF WrittenTime, Whole, Sign
<1> HIDE DEF z
<1> DEFINE l == [key |-> key, user |-> user, unix |-> t.unix, ok |-> TRUE, canonical |-> TRUE, zone |-> z]
<1>3. UserLine(key, user, t) = l
  BY DEF UserLine, z
<1>4. l.key = key /\ l.ok /\ l.user = user /\ l.unix = t.unix /\ l.zone = z
  OBVIOUS
<1> HIDE DEF l
<1>5. consumeUser(l).ok /\ consumeUser(l).user = user /\ consumeUser(l).time = WrittenTime(t)
  <2> DEFINE got == parseTZOffset(l.zone)
  <2>1. got.ok /\ got.offset = Whole(t.offset)
    BY <1>1, <1>4
  <2> HIDE DEF got
  <2>2. consumeUser(l) = [ok |-> l.ok /\ got.ok, user |-> l.user,
                          time |-> [unix |-> l.unix, zone |-> l.zone, offset |-> got.offset]]
    BY Zenon DEF consumeUser, got
  <2>3. \A x, y, r : LET made == [ok |-> x, user |-> y, time |-> r]
                     IN  made.ok = x /\ made.user = y /\ made.time = r
    OBVIOUS
  <2>4. consumeUser(l) = [ok |-> TRUE, user |-> user, time |-> WrittenTime(t)]
    BY <1>2, <1>4, <2>1, <2>2
  <2> QED
    BY <2>3, <2>4
<1> QED
  BY <1>3, <1>4, <1>5

\* What the lemmas below take of o.
Readable(o, b) == IsCommit(o) /\ CommitMarshals(o) /\ Writable(o) /\ LaidOut(o, b)

LEMMA ReadableFields == ASSUME NEW o, NEW b, Readable(o, b) PROVE Fields(o)
  BY DEF Readable, IsCommit, Fields

LEMMA LaidOutKeys ==
    ASSUME NEW o, NEW b, LaidOut(o, b)
    PROVE  /\ HashRead(b[1], "tree", o.Tree)
           /\ \A i \in 1..Len(o.Parents) : HashRead(b[1 + i], "parent", o.Parents[i])
           /\ b[AuthorAt(o) + 1].key = "author" /\ b[AuthorAt(o) + 2].key = "committer"
           /\ \A i \in 1..Len(o.GPGSignature) :
                /\ b[SignatureAt(o) + i].key = SignatureKey(i)
                /\ b[SignatureAt(o) + i].text = o.GPGSignature[i]
<1>1. \A key, hash : HashRead(HexLine(key, hash), key, hash)
  BY DEF HashRead, HexLine
<1>2. \A key, user, t : UserLine(key, user, t).key = key
  BY DEF UserLine
<1>3. \A key, text : Key(key, text).key = key /\ Key(key, text).text = text
  BY DEF Key
<1>4. \A i : SignatureKey(i) = IF i = 1 THEN "gpgsig" ELSE Indent
  BY DEF SignatureKey
<1> QED
  BY <1>1, <1>2, <1>3, <1>4 DEF LaidOut

LEMMA ParentsFit ==
    ASSUME NEW o, NEW b, NEW c, Readable(o, b), Fields(c), ParentsRead(c, b)
    PROVE  /\ Len(c.Parents) <= Len(o.Parents) /\ c.Tree = o.Tree
           /\ \A i \in 1..Len(c.Parents) : c.Parents[i] = o.Parents[i]
<1> DEFINE n == Len(c.Parents)
           m == Len(o.Parents)
<1>1. n \in Nat /\ m \in Nat /\ AuthorAt(o) = 1 + m
  BY ReadableFields, Lengths DEF Fields, AuthorAt
<1>2. LaidOut(o, b)
  BY DEF Readable
<1>3. ASSUME n > m PROVE FALSE
  <2>1. m + 1 \in 1..n /\ 1 + (m + 1) = AuthorAt(o) + 1
    BY <1>1, <1>3
  <2>2. b[1 + (m + 1)].key = "parent"
    BY <2>1 DEF ParentsRead, HashRead
  <2> QED
    BY <1>2, <2>1, <2>2, LaidOutKeys
<1>4. c.Tree = o.Tree
  BY <1>2, LaidOutKeys DEF ParentsRead, HashRead
<1>5. ASSUME NEW i \in 1..n PROVE c.Parents[i] = o.Parents[i]
  <2>1. i \in 1..m
    BY <1>1, <1>3
  <2> QED
    BY <1>2, <2>1, LaidOutKeys DEF ParentsRead, HashRead
<1> QED
  BY <1>1, <1>3, <1>4, <1>5

LEMMA AuthorSame ==
    ASSUME NEW o, NEW b, NEW c, Readable(o, b), Fields(c), AuthorRead(c, b)
    PROVE  /\ c.Tree = o.Tree /\ c.Parents = o.Parents /\ AuthorAt(c) = AuthorAt(o)
           /\ c.Author = o.Author /\ c.AuthorTime = WrittenTime(o.AuthorTime)
<1> DEFINE n == Len(c.Parents)
           m == Len(o.Parents)
<1>1. n \in Nat /\ m \in Nat /\ AuthorAt(c) = 1 + n
  BY ReadableFields, Lengths DEF Fields, AuthorAt
<1>2. /\ n <= m /\ c.Tree = o.Tree
      /\ \A i \in 1..n : c.Parents[i] = o.Parents[i]
  BY ParentsFit DEF AuthorRead
<1>3. LaidOut(o, b) /\ IsCommit(o) /\ Writable(o)
  BY DEF Readable
<1>4. ASSUME n < m PROVE FALSE
  <2>1. n + 1 \in 1..m /\ 1 + (n + 1) = AuthorAt(c) + 1
    BY <1>1, <1>4
  <2>2. b[1 + (n + 1)].key = "parent"
    BY <1>3, <2>1, LaidOutKeys DEF HashRead
  <2> QED
    BY <2>1, <2>2 DEF AuthorRead, UserRead
<1>5. n = m
  BY <1>1, <1>2, <1>4
<1>6. c.Parents = o.Parents
  BY <1>2, <1>5, ReadableFields, SameSequence DEF Fields
<1>7. AuthorAt(c) = AuthorAt(o)
  BY <1>6 DEF AuthorAt
<1>8. b[AuthorAt(o) + 1] = UserLine("author", o.Author, o.AuthorTime)
  BY <1>3 DEF LaidOut
<1>9. /\ IsTime(o.AuthorTime)
      /\ \/ Magnitude(o.AuthorTime.offset) < HundredHours
         \/ parseTZOffset(o.AuthorTime.zone) = [ok |-> TRUE, offset |-> o.AuthorTime.offset]
  BY <1>3 DEF IsCommit, Writable
<1>10. /\ c.Author = consumeUser(b[AuthorAt(o) + 1]).user
       /\ c.AuthorTime = consumeUser(b[AuthorAt(o) + 1]).time
  BY <1>7 DEF AuthorRead, UserRead
<1> QED
  BY <1>2, <1>6, <1>7, <1>8, <1>9, <1>10, UserWritten

LEMMA CommitterSame ==
    ASSUME NEW o, NEW b, NEW c, Readable(o, b), Fields(c), CommitterRead(c, b)
    PROVE  /\ c.Committer = o.Committer /\ c.CommitTime = WrittenTime(o.CommitTime)
           /\ ExtraAt(c) = ExtraAt(o)
<1>1. AuthorAt(c) = AuthorAt(o)
  BY AuthorSame DEF CommitterRead
<1>2. b[AuthorAt(o) + 2] = UserLine("committer", o.Committer, o.CommitTime)
  BY DEF LaidOut, Readable
<1>3. /\ IsTime(o.CommitTime)
      /\ \/ Magnitude(o.CommitTime.offset) < HundredHours
         \/ parseTZOffset(o.CommitTime.zone) = [ok |-> TRUE, offset |-> o.CommitTime.offset]
  BY DEF IsCommit, Writable, Readable
<1>4. /\ c.Committer = consumeUser(b[AuthorAt(o) + 2]).user
      /\ c.CommitTime = consumeUser(b[AuthorAt(o) + 2]).time
  BY <1>1 DEF CommitterRead, UserRead
<1> QED
  BY <1>1, <1>2, <1>3, <1>4, UserWritten DEF ExtraAt

\* What follows the extra headers is not one, and there is something.
LEMMA AfterExtra ==
    ASSUME NEW o, NEW b, Readable(o, b)
    PROVE  ~IsExtra(b[SignatureAt(o) + 1]) /\ b[SignatureAt(o) + 1].key # "end"
<1>1. /\ Len(o.GPGSignature) \in Nat /\ SignatureAt(o) \in Nat
      /\ BlankAt(o) = SignatureAt(o) + Len(o.GPGSignature)
  BY ReadableFields, FieldPlaces, Lengths DEF Fields
<1>2. CASE Len(o.GPGSignature) = 0
  <2>1. BlankAt(o) = SignatureAt(o)
    BY <1>1, <1>2
  <2>2. b[SignatureAt(o) + 1] = Blank
    BY <2>1 DEF Readable, LaidOut
  <2>3. NoText # "end"
    BY Zenon DEF NoText
  <2> QED
    BY <2>2, <2>3 DEF IsExtra, Blank, Key
<1>3. CASE 1 \in 1..Len(o.GPGSignature)
  <2>1. b[SignatureAt(o) + 1].key = SignatureKey(1)
    BY <1>3, LaidOutKeys DEF Readable
  <2> QED
    BY <2>1 DEF SignatureKey, IsExtra
<1>4. Len(o.GPGSignature) = 0 \/ 1 \in 1..Len(o.GPGSignature)
  BY <1>1
<1> QED
  BY <1>2, <1>3, <1>4

LEMMA ExtraFit ==
    ASSUME NEW o, NEW b, NEW c, Readable(o, b), Fields(c), ExtraRead(c, b)
    PROVE  /\ Len(c.Extra) <= Len(o.Extra)
           /\ \A i \in 1..Len(c.Extra) : c.Extra[i] = o.Extra[i]
<1> DEFINE n == Len(c.Extra)
           m == Len(o.Extra)
<1>1. n \in Nat /\ m \in Nat /\ ExtraAt(o) \in Nat /\ SignatureAt(o) = ExtraAt(o) + m
  BY ReadableFields, FieldPlaces, Lengths DEF Fields
<1>2. /\ ExtraAt(c) = ExtraAt(o)
      /\ Has(b, ExtraAt(o), c.Extra) /\ Has(b, ExtraAt(o), o.Extra)
  BY CommitterSame DEF ExtraRead, LaidOut, Readable
<1>3. ASSUME n > m PROVE FALSE
  <2>1. m + 1 \in 1..n /\ ExtraAt(o) + (m + 1) = SignatureAt(o) + 1
    BY <1>1, <1>3
  <2>2. IsExtra(b[ExtraAt(o) + (m + 1)])
    BY <1>2, <2>1 DEF ExtraRead, Has
  <2> QED
    BY <2>1, <2>2, AfterExtra
<1>4. ASSUME NEW i \in 1..n PROVE c.Extra[i] = o.Extra[i]
  <2>1. i \in 1..m
    BY <1>1, <1>3
  <2> QED
    BY <1>2, <2>1 DEF Has
<1> QED
  BY <1>1, <1>3, <1>4

LEMMA ExtraSame ==
    ASSUME NEW o, NEW b, NEW c, Readable(o, b), Fields(c), ExtraRead(c, b),
           ~IsExtra(b[SignatureAt(c) + 1])
    PROVE  c.Extra = o.Extra /\ SignatureAt(c) = SignatureAt(o)
<1> DEFINE n == Len(c.Extra)
           m == Len(o.Extra)
<1>1. /\ n \in Nat /\ m \in Nat /\ ExtraAt(c) \in Nat /\ SignatureAt(c) = ExtraAt(c) + n
      /\ ExtraAt(c) = ExtraAt(o) /\ SignatureAt(o) = ExtraAt(o) + m
  BY ReadableFields, FieldPlaces, CommitterSame, Lengths DEF Fields, ExtraRead
<1>2. n <= m /\ \A i \in 1..n : c.Extra[i] = o.Extra[i]
  BY ExtraFit
<1>3. ASSUME n < m PROVE FALSE
  <2>1. n + 1 \in 1..m /\ ExtraAt(c) + (n + 1) = SignatureAt(c) + 1
    BY <1>1, <1>3
  <2>2. b[SignatureAt(c) + 1] = o.Extra[n + 1]
    BY <1>1, <2>1 DEF Readable, LaidOut, Has
  <2>3. IsExtra(o.Extra[n + 1])
    BY <2>1 DEF IsExtra, Readable, IsCommit, Writable, CommitMarshals, IsValid
  <2> QED
    BY <2>2, <2>3
<1>4. n = m
  BY <1>1, <1>2, <1>3
<1>5. c.Extra = o.Extra
  BY <1>2, <1>4, ReadableFields, SameSequence DEF Fields
<1> QED
  BY <1>1, <1>4, <1>5

LEMMA SignatureFit ==
    ASSUME NEW o, NEW b, NEW c, Readable(o, b), Fields(c), SignatureRead(c, b),
           SignatureAt(c) = SignatureAt(o)
    PROVE  /\ Len(c.GPGSignature) <= Len(o.GPGSignature)
           /\ \A i \in 1..Len(c.GPGSignature) : c.GPGSignature[i] = o.GPGSignature[i]
<1> DEFINE n == Len(c.GPGSignature)
           m == Len(o.GPGSignature)
<1>1. n \in Nat /\ m \in Nat /\ SignatureAt(o) \in Nat /\ BlankAt(o) = SignatureAt(o) + m
  BY ReadableFields, FieldPlaces, Lengths DEF Fields
<1>2. ASSUME n > m PROVE FALSE
  <2>1. m + 1 \in 1..n /\ SignatureAt(o) + (m + 1) = BlankAt(o) + 1
    BY <1>1, <1>2
  <2>2. b[SignatureAt(o) + (m + 1)].key = SignatureKey(m + 1)
    BY <2>1 DEF SignatureRead
  <2>3. b[BlankAt(o) + 1].key = NoText
    BY DEF Readable, LaidOut, Blank, Key
  <2>4. NoText # "gpgsig" /\ NoText # Indent
    BY Zenon DEF NoText, Indent
  <2> QED
    BY <2>1, <2>2, <2>3, <2>4 DEF SignatureKey
<1>3. ASSUME NEW i \in 1..n PROVE c.GPGSignature[i] = o.GPGSignature[i]
  <2>1. i \in 1..m
    BY <1>1, <1>2
  <2> QED
    BY <2>1, LaidOutKeys DEF SignatureRead, Readable
<1> QED
  BY <1>1, <1>2, <1>3

LEMMA AfterSignature ==
    ASSUME NEW c, NEW b, Fields(c), SignatureRead(c, b), ~Unsigned(c) \/ b[BlankAt(c) + 1] = Blank
    PROVE  ~IsExtra(b[SignatureAt(c) + 1])
<1>1. /\ Len(c.GPGSignature) \in Nat /\ SignatureAt(c) \in Nat
      /\ BlankAt(c) = SignatureAt(c) + Len(c.GPGSignature)
  BY FieldPlaces, Lengths DEF Fields
<1>2. CASE Unsigned(c)
  <2>1. BlankAt(c) = SignatureAt(c)
    BY <1>1, <1>2, EmptySequence DEF Unsigned
  <2> QED
    BY <1>2, <2>1 DEF IsExtra
<1>3. CASE ~Unsigned(c)
  <2>1. Len(c.GPGSignature) # 0
    BY <1>3, NoneLeft DEF Unsigned, Fields
  <2>2. 1 \in 1..Len(c.GPGSignature)
    BY <1>1, <2>1
  <2> QED
    BY <2>2 DEF SignatureRead, SignatureKey, IsExtra
<1> QED
  BY <1>2, <1>3

LEMMA SignatureSame ==
    ASSUME NEW o, NEW b, NEW c, Readable(o, b), Fields(c), BlankRead(c, b)
    PROVE  c.Extra = o.Extra /\ c.GPGSignature = o.GPGSignature /\ BlankAt(c) = BlankAt(o)
<1> DEFINE n == Len(c.GPGSignature)
           m == Len(o.GPGSignature)
<1>1. c.Extra = o.Extra /\ SignatureAt(c) = SignatureAt(o)
  BY ExtraSame, AfterSignature DEF BlankRead, SignatureRead
<1>2. n <= m /\ \A i \in 1..n : c.GPGSignature[i] = o.GPGSignature[i]
  BY <1>1, SignatureFit DEF BlankRead
<1>3. /\ n \in Nat /\ m \in Nat /\ SignatureAt(c) \in Nat
      /\ BlankAt(c) = SignatureAt(c) + n /\ BlankAt(o) = SignatureAt(o) + m
  BY ReadableFields, FieldPlaces, Lengths DEF Fields
<1>4. ASSUME n < m PROVE FALSE
  <2>1. n + 1 \in 1..m /\ SignatureAt(o) + (n + 1) = BlankAt(c) + 1
    BY <1>1, <1>3, <1>4
  <2>2. b[SignatureAt(o) + (n + 1)].key = SignatureKey(n + 1)
    BY <2>1, LaidOutKeys DEF Readable
  <2>3. b[BlankAt(c) + 1].key = NoText
    BY DEF BlankRead, Blank, Key
  <2>4. NoText # "gpgsig" /\ NoText # Indent
    BY Zenon DEF NoText, Indent
  <2> QED
    BY <2>1, <2>2, <2>3, <2>4 DEF SignatureKey
<1>5. n = m
  BY <1>2, <1>3, <1>4
<1>6. c.GPGSignature = o.GPGSignature
  BY <1>2, <1>5, ReadableFields, SameSequence DEF Fields
<1> QED
  BY <1>1, <1>3, <1>5, <1>6

LEMMA NextThere ==
    ASSUME NEW b, NEW k \in Nat, Rest(b, lines, k), k < Len(b)
    PROVE  Next1 = b[k + 1]
<1>1. lines # <<>>
  <2>1. lines = <<>> => Len(lines) = 0
    BY EmptySequence
  <2> QED
    BY <2>1 DEF Rest
<1> QED
  BY <1>1, TakeLine DEF Next1

LEMMA LaidOutPlaces ==
    ASSUME NEW o, NEW b, Readable(o, b)
    PROVE  /\ Len(b) \in Nat /\ BlankAt(o) < Len(b)
           /\ AuthorAt(o) \in Nat /\ SignatureAt(o) \in Nat /\ BlankAt(o) \in Nat
           /\ 1 <= AuthorAt(o) /\ AuthorAt(o) + 2 <= SignatureAt(o) /\ SignatureAt(o) <= BlankAt(o)
<1> DEFINE np == Len(o.Parents)
           ne == Len(o.Extra)
           ng == Len(o.GPGSignature)
           nm == Len(o.Message)
<1>1. /\ np \in Nat /\ ne \in Nat /\ ng \in Nat /\ nm \in Nat
      /\ AuthorAt(o) \in Nat /\ ExtraAt(o) \in Nat /\ SignatureAt(o) \in Nat /\ BlankAt(o) \in Nat
      /\ AuthorAt(o) = 1 + np /\ ExtraAt(o) = AuthorAt(o) + 2
      /\ SignatureAt(o) = ExtraAt(o) + ne /\ BlankAt(o) = SignatureAt(o) + ng
  BY ReadableFields, FieldPlaces, Lengths DEF Fields
<1>2. Len(b) = BlankAt(o) + 1 + nm
  BY DEF Readable, LaidOut
<1> HIDE DEF np, ne, ng, nm
<1> QED
  BY <1>1, <1>2

\* No line of it is refused.
LEMMA TreeTaken ==
    ASSUME NEW o, NEW b, Readable(o, b), Parsed("tree", commit, b, lines), consumeTree
    PROVE  commitState' # "refused"
<1>1. Next1 = b[0 + 1]
  BY LaidOutPlaces, NextThere DEF Parsed
<1>2. HashRead(Next1, "tree", o.Tree)
  BY <1>1, LaidOutKeys DEF Readable
<1> QED
  BY <1>2 DEF consumeTree, HashRead, Consumed

LEMMA ParentsNext ==
    ASSUME NEW o, NEW b, Readable(o, b), Parsed("parents", commit, b, lines)
    PROVE  \/ Next1.key = "parent" /\ Next1.ok
           \/ Next1.key = "author" /\ consumeUser(Next1).ok
<1> DEFINE n == Len(commit.Parents)
           m == Len(o.Parents)
<1>1. Fields(commit) /\ AtParents(commit, b, lines)
  BY DEF Parsed
<1>2. /\ n \in Nat /\ m \in Nat /\ AuthorAt(o) = 1 + m /\ AuthorAt(commit) = 1 + n
      /\ n <= m
  BY <1>1, ReadableFields, Lengths, ParentsFit DEF Fields, AuthorAt, AtParents
<1>3. Next1 = b[(1 + n) + 1]
  <2>1. AuthorAt(o) < Len(b) /\ Len(b) \in Nat
    <3>1. /\ Len(b) \in Nat /\ BlankAt(o) < Len(b)
          /\ AuthorAt(o) \in Nat /\ SignatureAt(o) \in Nat /\ BlankAt(o) \in Nat
          /\ AuthorAt(o) + 2 <= SignatureAt(o) /\ SignatureAt(o) <= BlankAt(o)
      BY LaidOutPlaces
    <3> QED
      BY <3>1
  <2>2. Rest(b, lines, AuthorAt(commit))
    BY <1>1 DEF AtParents
  <2> HIDE DEF n, m
  <2>3. 1 + n \in Nat /\ 1 + n < Len(b)
    BY <1>2, <2>1
  <2> QED
    BY <1>2, <2>2, <2>3, NextThere
<1>4. CASE n < m
  <2>1. n + 1 \in 1..m /\ 1 + (n + 1) = (1 + n) + 1
    BY <1>2, <1>4
  <2>2. HashRead(b[1 + (n + 1)], "parent", o.Parents[n + 1])
    BY <2>1, LaidOutKeys DEF Readable
  <2> QED
    BY <1>3, <2>1, <2>2 DEF HashRead
<1>5. CASE n = m
  <2>1. Next1 = UserLine("author", o.Author, o.AuthorTime)
    BY <1>2, <1>3, <1>5 DEF Readable, LaidOut
  <2>2. /\ IsTime(o.AuthorTime)
        /\ \/ Magnitude(o.AuthorTime.offset) < HundredHours
           \/ parseTZOffset(o.AuthorTime.zone) = [ok |-> TRUE, offset |-> o.AuthorTime.offset]
    BY DEF IsCommit, Writable, Readable
  <2> QED
    BY <2>1, <2>2, UserWritten
<1> QED
  BY <1>2, <1>4, <1>5

LEMMA CommitterTaken ==
    ASSUME NEW o, NEW b, Readable(o, b), Parsed("committer", commit, b, lines), consumeCommitter
    PROVE  commitState' # "refused"
<1>1. Fields(commit) /\ AtCommitter(commit, b, lines)
  BY DEF Parsed
<1>2. AuthorAt(commit) = AuthorAt(o)
  BY <1>1, AuthorSame DEF AtCommitter
<1>3. AuthorAt(o) + 1 \in Nat /\ AuthorAt(o) + 1 < Len(b) /\ (AuthorAt(o) + 1) + 1 = AuthorAt(o) + 2
  <2>1. /\ Len(b) \in Nat /\ BlankAt(o) < Len(b)
        /\ AuthorAt(o) \in Nat /\ SignatureAt(o) \in Nat /\ BlankAt(o) \in Nat
        /\ AuthorAt(o) + 2 <= SignatureAt(o) /\ SignatureAt(o) <= BlankAt(o)
    BY LaidOutPlaces
  <2> QED
    BY <2>1
<1>4. Rest(b, lines, AuthorAt(o) + 1)
  BY <1>1, <1>2 DEF AtCommitter
<1>5. Next1 = b[AuthorAt(o) + 2]
  BY <1>3, <1>4, NextThere
<1>6. Next1 = UserLine("committer", o.Committer, o.CommitTime)
  BY <1>5 DEF Readable, LaidOut
<1>7. /\ IsTime(o.CommitTime)
      /\ \/ Magnitude(o.CommitTime.offset) < HundredHours
         \/ parseTZOffset(o.CommitTime.zone) = [ok |-> TRUE, offset |-> o.CommitTime.offset]
  BY DEF IsCommit, Writable, Readable
<1>8. Next1.key = "committer" /\ consumeUser(Next1).ok
  BY <1>6, <1>7, UserWritten
<1> QED
  BY <1>8 DEF consumeCommitter, Consumed

LEMMA ExtraTaken ==
    ASSUME NEW o, NEW b, Readable(o, b), Parsed("extra", commit, b, lines), consumeExtra
    PROVE  commitState' # "refused"
<1> DEFINE n == Len(commit.Extra)
           m == Len(o.Extra)
<1>1. Fields(commit) /\ AtExtra(commit, b, lines)
  BY DEF Parsed
<1>2. /\ n \in Nat /\ m \in Nat /\ ExtraAt(o) \in Nat
      /\ SignatureAt(commit) = ExtraAt(commit) + n /\ SignatureAt(o) = ExtraAt(o) + m
  BY <1>1, ReadableFields, FieldPlaces, Lengths DEF Fields
<1>3. n <= m /\ ExtraAt(commit) = ExtraAt(o)
  BY <1>1, ExtraFit, CommitterSame DEF AtExtra, ExtraRead
<1>4. Next1 = b[(ExtraAt(o) + n) + 1]
  <2>1. Rest(b, lines, ExtraAt(o) + n)
    BY <1>1, <1>2, <1>3 DEF AtExtra
  <2>2. /\ Len(b) \in Nat /\ BlankAt(o) < Len(b) /\ BlankAt(o) \in Nat /\ SignatureAt(o) <= BlankAt(o)
    BY LaidOutPlaces
  <2> HIDE DEF n, m
  <2>3. ExtraAt(o) + n \in Nat /\ ExtraAt(o) + n < Len(b)
    BY <1>2, <1>3, <2>2
  <2> QED
    BY <2>1, <2>3, NextThere
<1>5. Next1.key # "end"
  <2>1. CASE n < m
    <3>1. n + 1 \in 1..m /\ ExtraAt(o) + (n + 1) = (ExtraAt(o) + n) + 1
      BY <1>2, <2>1
    <3>2. Next1 = o.Extra[n + 1]
      BY <1>4, <3>1 DEF Readable, LaidOut, Has
    <3> QED
      BY <3>1, <3>2 DEF Readable, IsCommit
  <2>2. CASE n = m
    BY <1>2, <1>4, <2>2, AfterExtra
  <2> QED
    BY <1>2, <1>3, <2>1, <2>2
<1> QED
  BY <1>5 DEF consumeExtra, Consumed

LEMMA SignatureTaken ==
    ASSUME NEW o, NEW b, Readable(o, b), Parsed("signature", commit, b, lines), SignatureEnds
    PROVE  commitState' # "refused"
<1> DEFINE n == Len(commit.GPGSignature)
           m == Len(o.GPGSignature)
<1>1. Fields(commit) /\ AtSignature(commit, b, lines)
  BY DEF Parsed
<1>2. SignatureAt(commit) = SignatureAt(o)
  BY <1>1, ExtraSame, AfterSignature DEF AtSignature, SignatureRead
<1>3. n <= m
  BY <1>1, <1>2, SignatureFit DEF AtSignature
<1>4. /\ n \in Nat /\ m \in Nat /\ SignatureAt(o) \in Nat
      /\ BlankAt(commit) = SignatureAt(o) + n /\ BlankAt(o) = SignatureAt(o) + m
  BY <1>1, <1>2, ReadableFields, FieldPlaces, Lengths DEF Fields
<1>5. n # 0
  BY <1>1, NoneLeft DEF AtSignature, Unsigned, Fields
<1>6. Next1 = b[(SignatureAt(o) + n) + 1]
  <2>1. Rest(b, lines, SignatureAt(o) + n)
    BY <1>1, <1>4 DEF AtSignature
  <2>2. Len(b) \in Nat /\ BlankAt(o) < Len(b) /\ BlankAt(o) \in Nat
    BY LaidOutPlaces
  <2> HIDE DEF n, m
  <2>3. SignatureAt(o) + n \in Nat /\ SignatureAt(o) + n < Len(b)
    BY <1>3, <1>4, <2>2
  <2> QED
    BY <2>1, <2>3, NextThere
<1>7. Next1 = Blank \/ Next1.key = Indent
  <2>1. CASE n < m
    <3>1. n + 1 \in 1..m /\ n + 1 # 1 /\ SignatureAt(o) + (n + 1) = (SignatureAt(o) + n) + 1
      <4> HIDE DEF n, m
      <4> QED
        BY <1>4, <1>5, <2>1
    <3> QED
      BY <1>6, <3>1, LaidOutKeys DEF Readable, SignatureKey
  <2>2. CASE n = m
    BY <1>4, <1>6, <2>2 DEF Readable, LaidOut
  <2> QED
    BY <1>3, <1>4, <2>1, <2>2
<1> QED
  BY <1>7 DEF SignatureEnds, Consumed

\* And in the end the Commit is o, as it was written.
LEMMA ReadAsWritten ==
    ASSUME NEW o, NEW b, NEW c, NEW ls, Readable(o, b), Parsed("parsed", c, b, ls)
    PROVE  c = Written(o)
<1>1. Fields(c) /\ BlankRead(c, b) /\ Rest(b, c.Message, BlankAt(c) + 1)
  BY DEF Parsed
<1>2. /\ c.Extra = o.Extra /\ c.GPGSignature = o.GPGSignature /\ BlankAt(c) = BlankAt(o)
  BY <1>1, SignatureSame
<1>3. /\ c.Committer = o.Committer /\ c.CommitTime = WrittenTime(o.CommitTime)
      /\ c.Tree = o.Tree /\ c.Parents = o.Parents
      /\ c.Author = o.Author /\ c.AuthorTime = WrittenTime(o.AuthorTime)
  BY <1>1, AuthorSame, CommitterSame DEF BlankRead, SignatureRead, ExtraRead, CommitterRead
<1>4. c.Message = o.Message
  <2>1. IsSequence(c.Message) /\ IsSequence(o.Message)
    BY <1>1, ReadableFields DEF Fields
  <2>2. BlankAt(o) \in Nat /\ Len(c.Message) \in Nat /\ Len(o.Message) \in Nat
    BY <2>1, Lengths, LaidOutPlaces
  <2>3. Len(b) = BlankAt(o) + 1 + Len(o.Message) /\ Has(b, BlankAt(o) + 1, o.Message)
    BY DEF Readable, LaidOut
  <2>4. Len(c.Message) = Len(o.Message)
    BY <1>1, <1>2, <2>2, <2>3 DEF Rest
  <2>5. \A i \in 1..Len(c.Message) : c.Message[i] = o.Message[i]
    BY <1>1, <1>2, <2>3, <2>4 DEF Rest, Has
  <2> QED
    BY <2>1, <2>4, <2>5, SameSequence
<1>5. Fields(o)
  BY ReadableFields
<1> QED
  BY <1>1, <1>2, <1>3, <1>4, <1>5 DEF Fields, Written

-----------------------------------------------------------------------------
(* What another program wrote, and was parsed, is written again.           *)

LEMMA PrefixOf ==
    ASSUME NEW S, NEW s \in Seq(S), NEW n \in 0..Len(s)
    PROVE  /\ Len(SubSeq(s, 1, n)) = n
           /\ \A i \in 1..n : SubSeq(s, 1, n)[i] = s[i]
  OBVIOUS

LEMMA PrefixAt ==
    ASSUME NEW s, IsSequence(s), NEW n \in 0..Len(s)
    PROVE  /\ Len(SubSeq(s, 1, n)) = n
           /\ \A i \in 1..n : SubSeq(s, 1, n)[i] = s[i]
<1> DEFINE S == {s[i] : i \in 1..Len(s)}
<1>1. \A i \in 1..Len(s) : s[i] \in S
  OBVIOUS
<1> HIDE DEF S
<1>2. s \in Seq(S)
  BY <1>1, InSet
<1> QED
  BY <1>2, PrefixOf

LEMMA ParsedPlaces ==
    ASSUME NEW c, NEW b, NEW ls, Parsed("parsed", c, b, ls)
    PROVE  /\ Len(b) \in Nat /\ Len(c.Message) \in Nat /\ Len(b) = (BlankAt(c) + 1) + Len(c.Message)
           /\ AuthorAt(c) \in Nat /\ ExtraAt(c) \in Nat /\ SignatureAt(c) \in Nat /\ BlankAt(c) \in Nat
           /\ AuthorAt(c) = 1 + Len(c.Parents) /\ AuthorAt(c) + 2 = ExtraAt(c)
           /\ ExtraAt(c) <= SignatureAt(c) /\ SignatureAt(c) <= BlankAt(c)
           /\ Len(c.Parents) \in Nat /\ Len(c.GPGSignature) \in Nat
           /\ BlankAt(c) = SignatureAt(c) + Len(c.GPGSignature)
<1> DEFINE ne == Len(c.Extra)
           ng == Len(c.GPGSignature)
           nm == Len(c.Message)
<1>1. Fields(c) /\ IsSequence(b) /\ Rest(b, c.Message, BlankAt(c) + 1)
  BY DEF Parsed
<1>2. /\ ne \in Nat /\ ng \in Nat /\ nm \in Nat /\ Len(b) \in Nat /\ Len(c.Parents) \in Nat
      /\ AuthorAt(c) \in Nat /\ ExtraAt(c) \in Nat /\ SignatureAt(c) \in Nat /\ BlankAt(c) \in Nat
      /\ AuthorAt(c) = 1 + Len(c.Parents) /\ ExtraAt(c) = AuthorAt(c) + 2
      /\ SignatureAt(c) = ExtraAt(c) + ne /\ BlankAt(c) = SignatureAt(c) + ng
  BY <1>1, FieldPlaces, Lengths DEF Fields
<1>3. nm + (BlankAt(c) + 1) = Len(b)
  BY <1>1 DEF Rest
<1> HIDE DEF ne, ng, nm
<1>4. /\ ExtraAt(c) <= SignatureAt(c) /\ SignatureAt(c) <= BlankAt(c)
      /\ Len(b) = (BlankAt(c) + 1) + nm
  BY <1>2, <1>3
<1> QED
  BY <1>2, <1>4 DEF ng, nm

LEMMA TimeRead ==
    ASSUME NEW l, NEW key, NEW user, NEW t, UserRead(l, key, user, t), IsSequence(l.zone)
    PROVE  /\ IsTime(t) /\ t.unix = l.unix /\ t.zone = l.zone
           /\ parseTZOffset(t.zone) = [ok |-> TRUE, offset |-> t.offset]
           /\ l.ok /\ user = l.user
<1> DEFINE got == parseTZOffset(l.zone)
<1>1. consumeUser(l) = [ok |-> l.ok /\ got.ok, user |-> l.user,
                        time |-> [unix |-> l.unix, zone |-> l.zone, offset |-> got.offset]]
  BY Zenon DEF consumeUser
<1>2. got = [ok |-> TRUE, offset |-> got.offset] \/ got = [ok |-> FALSE, offset |-> got.offset]
  BY DEF parseTZOffset
<1> HIDE DEF got
<1>3. \A x, y, r : LET made == [ok |-> x, user |-> y, time |-> r]
                   IN  made.ok = x /\ made.user = y /\ made.time = r
  OBVIOUS
<1>4. /\ l.ok /\ got.ok /\ user = l.user
      /\ t = [unix |-> l.unix, zone |-> l.zone, offset |-> got.offset]
  <2> DEFINE time == [unix |-> l.unix, zone |-> l.zone, offset |-> got.offset]
  <2>1. ASSUME ~(l.ok /\ got.ok) PROVE FALSE
    <3>1. consumeUser(l) = [ok |-> FALSE, user |-> l.user, time |-> time]
      <4>1. (l.ok /\ got.ok) = FALSE
        BY <2>1, Zenon
      <4> HIDE DEF time
      <4> QED
        BY <1>1, <4>1, Zenon DEF time
    <3> HIDE DEF time
    <3>2. consumeUser(l).ok = FALSE
      BY <3>1, <1>3, Zenon
    <3> QED
      BY <3>2 DEF UserRead
  <2>2. consumeUser(l) = [ok |-> TRUE, user |-> l.user, time |-> time]
    BY <1>1, <2>1
  <2> HIDE DEF time
  <2>3. consumeUser(l).user = l.user /\ consumeUser(l).time = time
    BY <2>2, <1>3
  <2>4. user = l.user /\ t = time
    BY <2>3 DEF UserRead
  <2> QED
    BY <2>1, <2>4 DEF time
<1>5. got.offset \in Int
  BY <1>4, ParsedMinutes DEF got
<1>6. got = [ok |-> TRUE, offset |-> got.offset]
  BY <1>2, <1>4
<1>7. t.unix = l.unix /\ t.zone = l.zone /\ t.offset = got.offset
  BY <1>4
<1>8. parseTZOffset(t.zone) = got
  BY <1>7 DEF got
<1> QED
  BY <1>4, <1>5, <1>6, <1>7, <1>8 DEF IsTime

LEMMA ForeignTimes ==
    ASSUME NEW b \in ForeignCommits, NEW c, NEW ls, Parsed("parsed", c, b, ls)
    PROVE  /\ AuthorAt(c) + 1 \in 1..Len(b) /\ AuthorAt(c) + 2 \in 1..Len(b)
           /\ IsLine(b[AuthorAt(c) + 1]) /\ IsLine(b[AuthorAt(c) + 2])
           /\ UserRead(b[AuthorAt(c) + 1], "author", c.Author, c.AuthorTime)
           /\ UserRead(b[AuthorAt(c) + 2], "committer", c.Committer, c.CommitTime)
           /\ IsSequence(b[AuthorAt(c) + 1].zone) /\ IsSequence(b[AuthorAt(c) + 2].zone)
<1>1. AuthorAt(c) + 1 \in 1..Len(b) /\ AuthorAt(c) + 2 \in 1..Len(b)
  BY ParsedPlaces
<1>2. IsLine(b[AuthorAt(c) + 1]) /\ IsLine(b[AuthorAt(c) + 2])
  BY <1>1, CommitAssumption
<1>3. /\ UserRead(b[AuthorAt(c) + 1], "author", c.Author, c.AuthorTime)
      /\ UserRead(b[AuthorAt(c) + 2], "committer", c.Committer, c.CommitTime)
  BY DEF Parsed, BlankRead, SignatureRead, ExtraRead, CommitterRead, AuthorRead
<1> QED
  BY <1>1, <1>2, <1>3 DEF IsLine, UserRead

LEMMA ForeignIsCommit ==
    ASSUME NEW b \in ForeignCommits, NEW c, NEW ls, Parsed("parsed", c, b, ls)
    PROVE  IsCommit(c)
<1>1. IsTime(c.AuthorTime) /\ IsTime(c.CommitTime)
  BY ForeignTimes, TimeRead
<1>2. Fields(c) /\ \A i \in 1..Len(c.Extra) : c.Extra[i].key # "end"
  BY DEF Parsed, BlankRead, SignatureRead, ExtraRead, IsExtra
<1> QED
  BY <1>1, <1>2 DEF Fields, IsCommit

NoNULIn(c) ==
    /\ ~HasNUL(c.Author)
    /\ ~HasNUL(c.Committer)
    /\ \A i \in 1..Len(c.Extra) : ~HasNUL(c.Extra[i].text)

(* The n places after the first a are among the first e.                   *)
Within(a, n, e) == \A i \in 1..n : a + i \in 1..e

LEMMA WithinIs == ASSUME NEW a \in Nat, NEW n \in Nat, NEW e \in Nat, a + n <= e PROVE Within(a, n, e)
  BY DEF Within

LEMMA ForeignMarshals ==
    ASSUME NEW b \in ForeignCommits, NEW c, NEW ls, Parsed("parsed", c, b, ls), NoNULIn(c)
    PROVE  CommitMarshals(c) /\ Writable(c)
<1>1. \A i \in 1..Len(c.Extra) : IsExtra(c.Extra[i])
  BY DEF Parsed, BlankRead, SignatureRead, ExtraRead
<1>2. IsValid(c.Extra)
  BY <1>1 DEF IsValid, NoNULIn, IsExtra
<1>3. ASSUME NEW i \in 1..Len(c.GPGSignature) PROVE c.GPGSignature[i] # "unterminated"
  <2> DEFINE l == b[SignatureAt(c) + i]
  <2>1. l.key = SignatureKey(i) /\ l.text = c.GPGSignature[i]
    BY DEF Parsed, BlankRead, SignatureRead
  <2>2. SignatureAt(c) + i \in 1..Len(b)
    <3>1. /\ Len(b) \in Nat /\ SignatureAt(c) \in Nat /\ Len(c.GPGSignature) \in Nat
          /\ BlankAt(c) \in Nat /\ Len(c.Message) \in Nat
          /\ BlankAt(c) = SignatureAt(c) + Len(c.GPGSignature)
          /\ Len(b) = (BlankAt(c) + 1) + Len(c.Message)
      BY ParsedPlaces
    <3>2. ASSUME NEW x \in Nat, NEW y \in Nat PROVE x <= (x + 1) + y
      OBVIOUS
    <3>3. BlankAt(c) <= (BlankAt(c) + 1) + Len(c.Message)
      BY <3>1, <3>2
    <3>4. SignatureAt(c) + Len(c.GPGSignature) <= Len(b)
      BY <3>1, <3>3
    <3>5. Within(SignatureAt(c), Len(c.GPGSignature), Len(b))
      BY <3>1, <3>4, WithinIs
    <3> QED
      BY <3>5 DEF Within
  <2>3. IsLine(l)
    BY <2>2, CommitAssumption
  <2> HIDE DEF l
  <2> QED
    BY <2>1, <2>3 DEF IsLine, SignatureKey
<1>4. /\ parseTZOffset(c.AuthorTime.zone) = [ok |-> TRUE, offset |-> c.AuthorTime.offset]
      /\ parseTZOffset(c.CommitTime.zone) = [ok |-> TRUE, offset |-> c.CommitTime.offset]
  BY ForeignTimes, TimeRead
<1>5. Writable(c)
  BY <1>1, <1>4 DEF Writable, IsExtra
<1> QED
  BY <1>2, <1>3, <1>5 DEF CommitMarshals, NoNULIn

LEMMA UserRewritten ==
    ASSUME NEW l, NEW key \in {"author", "committer"}, NEW user, NEW t,
           UserRead(l, key, user, t), IsLine(l), Canonical(l)
    PROVE  l = UserLine(key, user, t)
<1>1. l.key = key /\ l.canonical /\ IsSequence(l.zone)
  BY DEF UserRead, Canonical, IsLine
<1>2. /\ t.unix = l.unix /\ t.zone = l.zone
      /\ parseTZOffset(t.zone) = [ok |-> TRUE, offset |-> t.offset]
      /\ l.ok /\ user = l.user
  BY <1>1, TimeRead
<1>3. tzOffset(t) = l.zone
  <2>1. parseTZOffset(t.zone).ok /\ parseTZOffset(t.zone).offset = t.offset
    BY <1>2
  <2> QED
    BY <1>2, <2>1, Zenon DEF tzOffset
<1>4. l = [key |-> l.key, user |-> l.user, unix |-> l.unix, ok |-> TRUE,
           canonical |-> TRUE, zone |-> l.zone]
  BY <1>1, <1>2 DEF IsLine
<1> QED
  BY <1>1, <1>2, <1>3, <1>4 DEF UserLine

LEMMA HashRewritten ==
    ASSUME NEW l, NEW key \in {"tree", "parent"}, NEW hash,
           HashRead(l, key, hash), IsLine(l), Canonical(l)
    PROVE  l = HexLine(key, hash)
  BY DEF HashRead, IsLine, Canonical

LEMMA ForeignRewritten ==
    ASSUME NEW b \in ForeignCommits, NEW c, NEW ls, Parsed("parsed", c, b, ls),
           \A i \in 1..(BlankAt(c) + 1) : Canonical(b[i])
    PROVE  MarshalLines(c) = b
<1>1. /\ Len(b) \in Nat /\ Len(b) = (BlankAt(c) + 1) + Len(c.Message)
      /\ BlankAt(c) \in Nat /\ AuthorAt(c) \in Nat /\ Len(c.GPGSignature) \in Nat
      /\ AuthorAt(c) = 1 + Len(c.Parents) /\ Len(c.Parents) \in Nat
      /\ AuthorAt(c) + 2 <= BlankAt(c)
      /\ SignatureAt(c) \in Nat /\ BlankAt(c) = SignatureAt(c) + Len(c.GPGSignature)
      /\ Len(c.Message) \in Nat
  <2>1. /\ Len(b) \in Nat /\ Len(c.Message) \in Nat /\ Len(b) = (BlankAt(c) + 1) + Len(c.Message)
        /\ AuthorAt(c) \in Nat /\ ExtraAt(c) \in Nat /\ SignatureAt(c) \in Nat /\ BlankAt(c) \in Nat
        /\ AuthorAt(c) = 1 + Len(c.Parents) /\ AuthorAt(c) + 2 = ExtraAt(c)
        /\ ExtraAt(c) <= SignatureAt(c) /\ SignatureAt(c) <= BlankAt(c)
        /\ Len(c.Parents) \in Nat /\ Len(c.GPGSignature) \in Nat
        /\ BlankAt(c) = SignatureAt(c) + Len(c.GPGSignature)
    BY ParsedPlaces
  <2>2. AuthorAt(c) + 2 <= BlankAt(c)
    <3>1. \A x, y, z \in Nat : x <= y /\ y <= z => x <= z
      OBVIOUS
    <3>2. ExtraAt(c) <= BlankAt(c)
      BY <2>1, <3>1
    <3> QED
      BY <2>1, <3>2
  <2> QED
    BY <2>1, <2>2
<1> DEFINE n == BlankAt(c) + 1
<1>2. /\ Within(0, n, Len(b)) /\ 1 \in 1..n
      /\ Within(1, Len(c.Parents), n) /\ Within(AuthorAt(c), 2, n)
      /\ Within(SignatureAt(c), Len(c.GPGSignature), n)
  <2>1. ASSUME NEW k \in Nat, NEW a \in Nat, NEW p \in Nat, NEW g \in Nat, NEW z \in Nat,
               NEW t \in Nat, a = 1 + p, a + 2 <= k, k = z + g
        PROVE  /\ k + 1 \in Nat /\ (k + 1) + t \in Nat /\ 0 + (k + 1) <= (k + 1) + t /\ 1 \in 1..(k + 1)
               /\ 1 + p <= k + 1 /\ a + 2 <= k + 1 /\ z + g <= k + 1
    BY <2>1
  <2>2. /\ n \in Nat /\ Len(b) \in Nat /\ 0 + n <= Len(b) /\ 1 \in 1..n
        /\ 1 + Len(c.Parents) <= n /\ AuthorAt(c) + 2 <= n
        /\ SignatureAt(c) + Len(c.GPGSignature) <= n
    <3>1. /\ BlankAt(c) + 1 \in Nat /\ (BlankAt(c) + 1) + Len(c.Message) \in Nat
          /\ 0 + (BlankAt(c) + 1) <= (BlankAt(c) + 1) + Len(c.Message) /\ 1 \in 1..(BlankAt(c) + 1)
          /\ 1 + Len(c.Parents) <= BlankAt(c) + 1 /\ AuthorAt(c) + 2 <= BlankAt(c) + 1
          /\ SignatureAt(c) + Len(c.GPGSignature) <= BlankAt(c) + 1
      BY <1>1, <2>1
    <3> QED
      BY <1>1, <3>1
  <2> HIDE DEF n
  <2>3. 0 \in Nat /\ 1 \in Nat /\ 2 \in Nat
    OBVIOUS
  <2> QED
    BY <1>1, <2>2, <2>3, WithinIs
<1>3. ASSUME NEW i \in 1..n PROVE IsLine(b[i]) /\ Canonical(b[i])
  <2>1. 0 + i \in 1..Len(b) /\ 0 + i = i
    BY <1>2 DEF Within
  <2> QED
    BY <2>1, CommitAssumption
<1>4. b[1] = HexLine("tree", c.Tree)
  <2>1. 1 \in 1..n
    BY <1>2
  <2>2. HashRead(b[1], "tree", c.Tree)
    BY DEF Parsed, BlankRead, SignatureRead, ExtraRead, CommitterRead, AuthorRead, ParentsRead
  <2> QED
    BY <1>3, <2>1, <2>2, HashRewritten
<1>5. ASSUME NEW i \in 1..Len(c.Parents) PROVE b[1 + i] = HexLine("parent", c.Parents[i])
  <2>1. 1 + i \in 1..n
    BY <1>2 DEF Within
  <2>2. HashRead(b[1 + i], "parent", c.Parents[i])
    BY DEF Parsed, BlankRead, SignatureRead, ExtraRead, CommitterRead, AuthorRead, ParentsRead
  <2> QED
    BY <1>3, <2>1, <2>2, HashRewritten
<1>6. /\ b[AuthorAt(c) + 1] = UserLine("author", c.Author, c.AuthorTime)
      /\ b[AuthorAt(c) + 2] = UserLine("committer", c.Committer, c.CommitTime)
  <2>1. AuthorAt(c) + 1 \in 1..n /\ AuthorAt(c) + 2 \in 1..n
    <3>1. 1 \in 1..2 /\ 2 \in 1..2
      OBVIOUS
    <3> HIDE DEF n
    <3> QED
      BY <1>2, <3>1 DEF Within
  <2> QED
    BY <1>3, <2>1, ForeignTimes, UserRewritten
<1>7. Has(b, ExtraAt(c), c.Extra) /\ b[BlankAt(c) + 1] = Blank
  BY DEF Parsed, BlankRead, SignatureRead, ExtraRead
<1>8. ASSUME NEW i \in 1..Len(c.GPGSignature)
      PROVE  b[SignatureAt(c) + i] = Key(IF i = 1 THEN "gpgsig" ELSE Indent, c.GPGSignature[i])
  <2>1. b[SignatureAt(c) + i].key = SignatureKey(i) /\ b[SignatureAt(c) + i].text = c.GPGSignature[i]
    BY DEF Parsed, BlankRead, SignatureRead
  <2>2. SignatureAt(c) + i \in 1..n
    BY <1>2 DEF Within
  <2>3. IsLine(b[SignatureAt(c) + i])
    BY <1>3, <2>2
  <2> QED
    BY <2>1, <2>3 DEF IsLine, SignatureKey
<1>9. Has(b, BlankAt(c) + 1, c.Message)
  BY DEF Parsed, Rest, Has
<1>10. IsSequence(b) /\ Len(b) = BlankAt(c) + 1 + Len(c.Message)
  BY <1>1 DEF Parsed
<1>11. LaidOut(c, b)
  BY <1>4, <1>5, <1>6, <1>7, <1>8, <1>9, <1>10, Zenon DEF LaidOut
<1>12. IsCommit(c)
  BY ForeignIsCommit
<1> QED
  BY <1>11, <1>12, MarshalLaidOut, LaidOutUnique

-----------------------------------------------------------------------------
(* What is true of the bytes that are parsed, and of what was read so far. *)

ReadSoFar ==
    commitState # "refused" => Parsed(commitState, commit, commitOrigin.bytes, lines)

CommitInv ==
    /\ commitOrigin.by \in {"caller", "foreign", "marshal"}
    /\ commitOrigin.by = "caller" => IsCommit(commit) /\ commitState = "given"
    /\ commitOrigin.by = "foreign" =>
         commitOrigin.bytes \in ForeignCommits /\ commitState # "given" /\ ReadSoFar
    /\ commitOrigin.by = "marshal" =>
         /\ IsCommit(commitOrigin.commit) /\ CommitMarshals(commitOrigin.commit)
         /\ LaidOut(commitOrigin.commit, commitOrigin.bytes)
         /\ Writable(commitOrigin.commit) => commitState # "refused"
         /\ commitState # "given" /\ ReadSoFar

\* At the first line.
LEMMA NothingRead ==
    ASSUME NEW b, IsSequence(b)
    PROVE  Parsed("tree", NoCommit, b, b)
<1>1. Rest(b, b, 0)
  <2>1. Len(b) \in Nat
    BY Lengths
  <2>2. \A i \in 1..Len(b) : 0 + i = i
    BY <2>1
  <2> QED
    BY <2>1, <2>2 DEF Rest
<1> QED
  BY <1>1, NoFields DEF Parsed

LEMMA CommitStarts == CommitInit => CommitInv
<1> SUFFICES ASSUME CommitInit PROVE CommitInv
  OBVIOUS
<1>1. CASE /\ commit \in GivenCommits /\ lines = <<>> /\ commitState = "given"
           /\ commitOrigin = From("caller", <<>>, commit)
  BY <1>1, CommitAssumption DEF CommitInv, From
<1>2. CASE /\ commit = NoCommit /\ lines \in ForeignCommits /\ commitState = "tree"
           /\ commitOrigin = From("foreign", lines, NoCommit)
  <2>1. commitOrigin.by = "foreign" /\ commitOrigin.bytes = lines
    BY <1>2 DEF From
  <2>2. Parsed("tree", commit, lines, lines)
    BY <1>2, CommitAssumption, NothingRead
  <2> QED
    BY <1>2, <2>1, <2>2 DEF CommitInv, ReadSoFar
<1> QED
  BY <1>1, <1>2 DEF CommitInit

\* One line, or the message.
ReadsOn ==
    \/ consumeTree \/ consumeParent \/ consumeAuthor \/ consumeCommitter
    \/ consumeExtra \/ consumeGPGSig \/ consumeSignature \/ SignatureEnds
    \/ consumeMessage

LEMMA ReadsLine ==
    ASSUME NEW b, commitState # "refused" => Parsed(commitState, commit, b, lines), ReadsOn
    PROVE  /\ commitOrigin' = commitOrigin /\ commitState # "refused" /\ commitState # "given"
           /\ commitState' # "given"
           /\ commitState' # "refused" => Parsed(commitState', commit', b, lines')
<1>1. CASE consumeTree
  <2>1. commitState = "tree" /\ commitOrigin' = commitOrigin /\ commitState' \in {"parents", "refused"}
    BY <1>1 DEF consumeTree, Consumed, Refused
  <2> QED
    BY <1>1, <2>1, ReadTree
<1>2. CASE consumeParent
  <2>1. commitState = "parents" /\ commitOrigin' = commitOrigin /\ commitState' \in {"parents", "refused"}
    BY <1>2 DEF consumeParent, Consumed, Refused
  <2> QED
    BY <1>2, <2>1, ReadParent
<1>3. CASE consumeAuthor
  <2>1. commitState = "parents" /\ commitOrigin' = commitOrigin /\ commitState' \in {"committer", "refused"}
    BY <1>3 DEF consumeAuthor, Consumed, Refused
  <2> QED
    BY <1>3, <2>1, ReadAuthor
<1>4. CASE consumeCommitter
  <2>1. commitState = "committer" /\ commitOrigin' = commitOrigin /\ commitState' \in {"extra", "refused"}
    BY <1>4 DEF consumeCommitter, Consumed, Refused
  <2> QED
    BY <1>4, <2>1, ReadCommitter
<1>5. CASE consumeExtra
  <2>1. commitState = "extra" /\ commitOrigin' = commitOrigin /\ commitState' \in {"extra", "message", "refused"}
    BY <1>5 DEF consumeExtra, Consumed, Refused
  <2> QED
    BY <1>5, <2>1, ReadExtra
<1>6. CASE consumeGPGSig
  <2>1. commitState = "extra" /\ commitOrigin' = commitOrigin /\ commitState' = "signature"
    BY <1>6 DEF consumeGPGSig, Consumed
  <2> QED
    BY <1>6, <2>1, ReadGPGSig
<1>7. CASE consumeSignature
  <2>1. commitState = "signature" /\ commitOrigin' = commitOrigin /\ commitState' = "signature"
    BY <1>7 DEF consumeSignature, Consumed
  <2> QED
    BY <1>7, <2>1, ReadSignature
<1>8. CASE SignatureEnds
  <2>1. commitState = "signature" /\ commitOrigin' = commitOrigin /\ commitState' \in {"message", "refused"}
    BY <1>8 DEF SignatureEnds, Consumed, Refused
  <2> QED
    BY <1>8, <2>1, ReadSignatureEnds
<1>9. CASE consumeMessage
  <2>1. commitState = "message" /\ commitOrigin' = commitOrigin /\ commitState' = "parsed"
    BY <1>9 DEF consumeMessage
  <2> QED
    BY <1>9, <2>1, ReadMessage
<1> QED
  BY <1>1, <1>2, <1>3, <1>4, <1>5, <1>6, <1>7, <1>8, <1>9 DEF ReadsOn

LEMMA NoLineRefused ==
    ASSUME NEW o, NEW b, Readable(o, b), Parsed(commitState, commit, b, lines), ReadsOn
    PROVE  commitState' # "refused"
<1>1. CASE consumeTree
  BY <1>1, TreeTaken DEF consumeTree
<1>2. CASE consumeParent
  BY <1>2, ParentsNext DEF consumeParent, Consumed
<1>3. CASE consumeAuthor
  BY <1>3, ParentsNext DEF consumeAuthor, Consumed
<1>4. CASE consumeCommitter
  BY <1>4, CommitterTaken DEF consumeCommitter
<1>5. CASE consumeExtra
  BY <1>5, ExtraTaken DEF consumeExtra
<1>6. CASE consumeGPGSig \/ consumeSignature \/ consumeMessage
  BY <1>6 DEF consumeGPGSig, consumeSignature, consumeMessage, Consumed
<1>7. CASE SignatureEnds
  BY <1>7, SignatureTaken DEF SignatureEnds
<1> QED
  BY <1>1, <1>2, <1>3, <1>4, <1>5, <1>6, <1>7 DEF ReadsOn

LEMMA CommitSteps == CommitInv /\ [CommitNext]_commitVars => CommitInv'
<1> SUFFICES ASSUME CommitInv, [CommitNext]_commitVars PROVE CommitInv'
  OBVIOUS
<1>1. CASE CommitMarshalBinary
  <2>1. /\ commitState \in {"given", "parsed"} /\ commitOrigin.by # "marshal"
        /\ CommitMarshals(commit) /\ lines' = MarshalLines(commit)
        /\ commitOrigin' = From("marshal", lines', commit)
        /\ commit' = NoCommit /\ commitState' = "tree"
    BY <1>1 DEF CommitMarshalBinary
  <2>2. IsCommit(commit)
    <3>1. CASE commitOrigin.by = "caller"
      BY <3>1 DEF CommitInv
    <3>2. CASE commitOrigin.by = "foreign"
      <4>1. commitState = "parsed" /\ commitOrigin.bytes \in ForeignCommits
        BY <2>1, <3>2 DEF CommitInv
      <4>2. Parsed("parsed", commit, commitOrigin.bytes, lines)
        BY <3>2, <4>1 DEF CommitInv, ReadSoFar
      <4> QED
        BY <4>1, <4>2, ForeignIsCommit
    <3> QED
      BY <2>1, <3>1, <3>2 DEF CommitInv
  <2>3. commitOrigin'.by = "marshal" /\ commitOrigin'.bytes = lines' /\ commitOrigin'.commit = commit
    BY <2>1 DEF From
  <2>4. LaidOut(commit, lines') /\ IsSequence(lines')
    BY <2>1, <2>2, MarshalLaidOut DEF LaidOut
  <2>5. Parsed("tree", commit', lines', lines')
    BY <2>1, <2>4, NothingRead
  <2>6. ReadSoFar'
    BY <2>1, <2>3, <2>5 DEF ReadSoFar
  <2> QED
    BY <2>1, <2>2, <2>3, <2>4, <2>6 DEF CommitInv
<1>2. CASE ReadsOn
  <2> DEFINE b == commitOrigin.bytes
             o == commitOrigin.commit
  <2>1. commitOrigin.by # "caller"
    <3>1. ASSUME commitState = "given" PROVE FALSE
      BY <1>2, <3>1 DEF ReadsOn, consumeTree, consumeParent, consumeAuthor, consumeCommitter,
        consumeExtra, consumeGPGSig, consumeSignature, SignatureEnds, consumeMessage
    <3> QED
      BY <3>1 DEF CommitInv
  <2>2. commitState # "refused" => Parsed(commitState, commit, b, lines)
    BY <2>1 DEF CommitInv, ReadSoFar
  <2>3. /\ commitOrigin' = commitOrigin /\ commitState # "refused" /\ commitState' # "given"
        /\ commitState' # "refused" => Parsed(commitState', commit', b, lines')
    <3> HIDE DEF b
    <3> QED
      BY <1>2, <2>2, ReadsLine
  <2>4. ReadSoFar'
    BY <2>3 DEF ReadSoFar
  <2>5. ASSUME commitOrigin.by = "marshal", Writable(o) PROVE commitState' # "refused"
    <3>1. Readable(o, b)
      BY <2>5 DEF CommitInv, Readable
    <3> HIDE DEF o, b
    <3> QED
      BY <1>2, <2>2, <2>3, <3>1, NoLineRefused
  <2> QED
    BY <2>1, <2>3, <2>4, <2>5 DEF CommitInv
<1>3. CASE UNCHANGED commitVars
  BY <1>3 DEF commitVars, CommitInv, ReadSoFar
<1> QED
  BY <1>1, <1>2, <1>3 DEF CommitNext, ReadsOn

LEMMA CommitReadsBack == CommitInv => CommitRoundTrip
<1> SUFFICES ASSUME CommitInv PROVE CommitRoundTrip
  OBVIOUS
<1> DEFINE b == commitOrigin.bytes
           o == commitOrigin.commit
           header == SubSeq(b, 1, Len(b) - Len(commit.Message))
<1>1. ASSUME commitOrigin.by = "marshal", Writable(o)
      PROVE  commitState # "refused" /\ (commitState = "parsed" => commit = Written(o))
  <2>1. Readable(o, b) /\ commitState # "refused" /\ Parsed(commitState, commit, b, lines)
    BY <1>1 DEF CommitInv, ReadSoFar, Readable
  <2> HIDE DEF o, b
  <2> QED
    BY <2>1, ReadAsWritten
<1>2. ASSUME commitOrigin.by = "foreign", commitState = "parsed"
      PROVE  b \in ForeignCommits /\ Parsed("parsed", commit, b, lines)
  BY <1>2 DEF CommitInv, ReadSoFar
<1>3. ASSUME commitOrigin.by = "foreign", commitState = "parsed", NoNULIn(commit)
      PROVE  CommitMarshals(commit) /\ Writable(commit)
  BY <1>2, <1>3, ForeignMarshals
<1>4. ASSUME commitOrigin.by = "foreign", commitState = "parsed",
             \A i \in 1..Len(header) : Canonical(header[i])
      PROVE  MarshalLines(commit) = b
  <2>1. b \in ForeignCommits /\ Parsed("parsed", commit, b, lines)
    BY <1>2, <1>4
  <2> HIDE DEF b
  <2>2. /\ IsSequence(b) /\ BlankAt(commit) + 1 \in 0..Len(b)
        /\ Len(b) - Len(commit.Message) = BlankAt(commit) + 1
    <3>1. /\ Len(b) \in Nat /\ Len(commit.Message) \in Nat /\ BlankAt(commit) \in Nat
          /\ Len(b) = (BlankAt(commit) + 1) + Len(commit.Message)
      BY <2>1, ParsedPlaces
    <3> QED
      BY <2>1, <3>1 DEF Parsed
  <2>3. /\ Len(header) = BlankAt(commit) + 1
        /\ \A i \in 1..(BlankAt(commit) + 1) : header[i] = b[i]
    BY <2>2, PrefixAt
  <2> HIDE DEF header
  <2>4. \A i \in 1..(BlankAt(commit) + 1) : Canonical(b[i])
    <3> TAKE i \in 1..(BlankAt(commit) + 1)
    <3>1. i \in 1..Len(header) /\ header[i] = b[i]
      BY <2>3
    <3>2. Canonical(header[i])
      BY <1>4, <3>1
    <3> QED
      BY <3>1, <3>2
  <2> QED
    BY <2>1, <2>4, ForeignRewritten
<1> QED
  BY <1>1, <1>3, <1>4, Zenon DEF CommitRoundTrip, NoNULIn

THEOREM CommitsReadBack == CommitSpec => []CommitRoundTrip
<1> QED
  BY CommitStarts, CommitSteps, CommitReadsBack, PTL DEF CommitSpec

-----------------------------------------------------------------------------
(* Both, among what may become of bytes.                                   *)

LEMMA EachAlone ==
    [BytesNext]_bytesVars =>
        /\ what' = what
        /\ what = "tree" => [TreeNext]_treeVars
        /\ what = "commit" => [CommitNext]_commitVars
        /\ what # "tree" => UNCHANGED treeVars
<1> SUFFICES ASSUME [BytesNext]_bytesVars
             PROVE  /\ what' = what
                    /\ what = "tree" => [TreeNext]_treeVars
                    /\ what = "commit" => [CommitNext]_commitVars
                    /\ what # "tree" => UNCHANGED treeVars
  OBVIOUS
<1>1. CASE InPack
  BY <1>1 DEF InPack
<1>2. CASE InTree /\ (AppendEntry \/ Sort \/ MarshalBinary \/ ParseTreeEntry \/ ParseTreeEnds)
  BY <1>2, Zenon DEF InTree, TreeNext
<1>3. CASE /\ InCommit
           /\ \/ CommitMarshalBinary
              \/ consumeTree \/ consumeParent \/ consumeAuthor \/ consumeCommitter
              \/ consumeExtra \/ consumeGPGSig \/ consumeSignature \/ SignatureEnds
              \/ consumeMessage
  BY <1>3, Zenon DEF InCommit, CommitNext
<1>4. CASE UNCHANGED bytesVars
  BY <1>4 DEF bytesVars
<1> QED
  BY <1>1, <1>2, <1>3, <1>4, Zenon DEF BytesNext, InStream

LEMMA TreesAlone == BytesSpec /\ what = "tree" => TreeSpec /\ [](what = "tree")
<1>1. BytesInit /\ what = "tree" => TreeInit
  BY DEF BytesInit
<1>2. what = "tree" /\ [BytesNext]_bytesVars => (what = "tree")' /\ [TreeNext]_treeVars
  BY EachAlone
<1> QED
  BY <1>1, <1>2, PTL DEF BytesSpec, TreeSpec

LEMMA CommitsAlone == BytesSpec /\ what = "commit" => CommitSpec /\ [](what = "commit")
<1>1. BytesInit /\ what = "commit" => CommitInit
  BY DEF BytesInit
<1>2. what = "commit" /\ [BytesNext]_bytesVars => (what = "commit")' /\ [CommitNext]_commitVars
  BY EachAlone
<1> QED
  BY <1>1, <1>2, PTL DEF BytesSpec, CommitSpec

LEMMA PacksAlone == BytesSpec /\ what = "pack" => [](what = "pack" /\ treeState = "idle")
<1>1. BytesInit /\ what = "pack" => treeState = "idle"
  BY DEF BytesInit, TreeIdle
<1>2. (what = "pack" /\ treeState = "idle") /\ [BytesNext]_bytesVars => (what = "pack" /\ treeState = "idle")'
  BY EachAlone DEF treeVars
<1> QED
  BY <1>1, <1>2, PTL DEF BytesSpec

LEMMA CommitIdleTree == BytesSpec /\ what = "commit" => [](treeState = "idle")
<1>1. BytesInit /\ what = "commit" => treeState = "idle"
  BY DEF BytesInit, TreeIdle
<1>2. (what = "commit" /\ treeState = "idle") /\ [BytesNext]_bytesVars => (what = "commit" /\ treeState = "idle")'
  BY EachAlone DEF treeVars
<1> QED
  BY <1>1, <1>2, PTL DEF BytesSpec

(***************************************************************************)
(* What is serialized is read back as it was, and what was parsed has the  *)
(* bytes, and so the SHA1, of what it was parsed from: Tree and Commit,    *)
(* MarshalBinary and UnmarshalBinary.                                      *)
(***************************************************************************)
THEOREM ObjectsRoundTrip == BytesSpec => []RoundTrip
<1>1. what = "tree" /\ TreeRoundTrip => RoundTrip
  BY DEF RoundTrip
<1>2. what = "commit" /\ CommitRoundTrip => RoundTrip
  BY DEF RoundTrip
<1>3. what = "pack" /\ treeState = "idle" => RoundTrip
  BY DEF RoundTrip
<1>4. BytesInit => what = "pack" \/ what = "tree" \/ what = "commit"
  BY DEF BytesInit
<1> QED
  BY <1>1, <1>2, <1>3, <1>4, TreesAlone, CommitsAlone, PacksAlone, TreeReadsBack, CommitsReadBack,
     PTL DEF BytesSpec

(***************************************************************************)
(* A tree that was accepted has no two entries of a name, and Search finds *)
(* every entry by its name, whatever else becomes of bytes.                *)
(***************************************************************************)
THEOREM ObjectsSearch == BytesSpec => []SearchExact
<1>1. treeState = "idle" => SearchExact
  BY DEF SearchExact
<1>2. what = "pack" /\ treeState = "idle" => SearchExact
  BY <1>1
<1>4. BytesInit => what = "pack" \/ what = "tree" \/ what = "commit"
  BY DEF BytesInit
<1> QED
  BY <1>1, <1>2, <1>4, TreesAlone, CommitIdleTree, PacksAlone, TreeSearchExact, PTL DEF BytesSpec

=============================================================================
