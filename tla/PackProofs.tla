----------------------------- MODULE PackProofs -----------------------------
(***************************************************************************)
(* Proofs about the package packfile.                                      *)
(*                                                                         *)
(* Packfiles of any objects: a number is read back as it was written.      *)
(* PackInv says where each object is from what the writer was asked for,   *)
(* so that the reader, which finds its way by the numbers and by the ends  *)
(* of zlib's streams alone, is known to be in the object that is next, or  *)
(* to have seen that something is wrong.                                   *)
(*                                                                         *)
(* Random access, to a pack that came whole or cut: the file of an index   *)
(* gives back the index, a delta its base's pieces, and the walk from an   *)
(* object goes from base to base, so that the ranks of what it comes to    *)
(* fall and it ends.  On the way back each delta gives the content that    *)
(* the writer's caller meant.                                              *)
(***************************************************************************)
EXTENDS ObjectProofs, FiniteSetTheorems

-----------------------------------------------------------------------------
(* Recursive functions whose values rest on values at smaller numbers.     *)

\* f is that function on D, with step[x][v] where down[x] has v.
Recurs(f, D, Stop, first, down, step) ==
    f = [x \in D |-> IF x \in Stop THEN first[x] ELSE step[x][f[down[x]]]]

Descends(A, Stop, down) == \A x \in A : x \notin Stop => down[x] \in A /\ down[x] < x

Agree(f, g, A) == \A x \in A : f[x] = g[x]

LEMMA RecursionUnique ==
    ASSUME NEW D, NEW E, D \subseteq Nat, NEW Stop, NEW first, NEW down, NEW step,
           NEW f, NEW g, Recurs(f, D, Stop, first, down, step),
           Recurs(g, E, Stop, first, down, step),
           Descends(D \cap E, Stop, down)
    PROVE  Agree(f, g, D \cap E)
<1> DEFINE Differ == {x \in D \cap E : f[x] # g[x]}
<1>1. SUFFICES ASSUME Differ # {} PROVE FALSE
  BY DEF Agree
<1>2. PICK x \in Differ : \A y \in Differ : x <= y
  BY <1>1, LeastNumber
<1>3. x \in D /\ x \in E /\ f[x] # g[x] /\ x \in Nat
  OBVIOUS
<1>4. /\ f[x] = IF x \in Stop THEN first[x] ELSE step[x][f[down[x]]]
      /\ g[x] = IF x \in Stop THEN first[x] ELSE step[x][g[down[x]]]
  BY <1>3 DEF Recurs
<1>5. x \notin Stop /\ f[down[x]] # g[down[x]]
  BY <1>3, <1>4
<1>6. down[x] \in D /\ down[x] \in E /\ down[x] < x
  BY <1>3, <1>5 DEF Descends
<1>7. down[x] \in Differ /\ down[x] \in Nat
  BY <1>5, <1>6
<1> QED
  BY <1>2, <1>3, <1>6, <1>7

LEMMA EmptyFunction ==
    ASSUME NEW S, NEW Stop, NEW first, NEW down, NEW step
    PROVE  \E f : f \in [{} -> S] /\ Recurs(f, {}, Stop, first, down, step)
<1>1. [x \in {} |-> 0] \in [{} -> S]
  OBVIOUS
<1>2. Recurs([x \in {} |-> 0], {}, Stop, first, down, step)
  BY DEF Recurs
<1> QED
  BY <1>1, <1>2

LEMMA Recursion ==
    ASSUME NEW D, D \subseteq Nat, NEW S, NEW Stop, NEW first, NEW down, NEW step,
           \A x \in D : x \in Stop => first[x] \in S,
           \A x \in D : x \notin Stop => down[x] \in D /\ down[x] < x,
           \A x \in D, v \in S : x \notin Stop => step[x][v] \in S
    PROVE  \E f \in [D -> S] : Recurs(f, D, Stop, first, down, step)
<1> DEFINE Below(n) == {x \in D : x < n}
           Fits(f, n) == f \in [Below(n) -> S] /\ Recurs(f, Below(n), Stop, first, down, step)
           Missing == {n \in Nat : ~ \E f : Fits(f, n)}
<1>1. \E f : Fits(f, 0)
  <2>1. Below(0) = {}
    <3>1. \A x \in Nat : ~(x < 0)
      OBVIOUS
    <3> QED
      BY <3>1, Zenon
  <2>2. PICK f : f \in [{} -> S] /\ Recurs(f, {}, Stop, first, down, step)
    BY EmptyFunction
  <2> HIDE DEF Below
  <2>3. Fits(f, 0)
    BY <2>1, <2>2
  <2> HIDE DEF Fits
  <2> QED
    BY <2>3
<1>2. ASSUME NEW n \in Nat, NEW g, Fits(g, n)
      PROVE  \E f : Fits(f, n + 1)
  <2> DEFINE f == [x \in Below(n + 1) |-> IF x \in Stop THEN first[x] ELSE step[x][g[down[x]]]]
  <2>1. ASSUME NEW x \in Below(n + 1), x \notin Stop PROVE down[x] \in Below(n) /\ down[x] \in Below(n + 1)
    <3>1. x \in D /\ x < n + 1 /\ x \in Nat /\ down[x] \in D /\ down[x] < x /\ down[x] \in Nat
      BY <2>1
    <3> QED
      BY <3>1
  <2>2. ASSUME NEW x \in Below(n) PROVE f[x] = g[x]
    <3>1. x \in Below(n + 1)
      OBVIOUS
    <3> QED
      BY <3>1, <1>2 DEF Recurs
  <2>3. ASSUME NEW x \in Below(n + 1) PROVE f[x] = IF x \in Stop THEN first[x] ELSE step[x][f[down[x]]]
    BY <2>1, <2>2
  <2>4. ASSUME NEW x \in Below(n + 1) PROVE f[x] \in S
    <3>1. CASE x \in Stop
      BY <3>1
    <3>2. CASE x \notin Stop
      <4>1. g[down[x]] \in S
        BY <2>1, <3>2, <1>2
      <4> QED
        BY <3>2, <4>1
    <3> QED
      BY <3>1, <3>2
  <2>5. f = [x \in Below(n + 1) |-> IF x \in Stop THEN first[x] ELSE step[x][f[down[x]]]]
    BY <2>3
  <2>6. f \in [Below(n + 1) -> S]
    BY <2>4
  <2> HIDE DEF f
  <2>7. Fits(f, n + 1)
    BY <2>5, <2>6 DEF Recurs
  <2> QED
    BY <2>7
<1>3. \A n \in Nat : \E f : Fits(f, n)
  <2>1. SUFFICES ASSUME Missing # {} PROVE FALSE
    OBVIOUS
  <2>2. Missing \subseteq Nat
    OBVIOUS
  <2> HIDE DEF Fits
  <2>3. PICK n \in Missing : \A m \in Missing : n <= m
    BY <2>1, <2>2, LeastNumber
  <2>4. n \in Nat /\ n # 0
    BY <1>1
  <2>5. n - 1 \in Nat /\ n - 1 \notin Missing /\ (n - 1) + 1 = n
    BY <2>3, <2>4
  <2>6. PICK g : Fits(g, n - 1)
    BY <2>5
  <2>7. \E f : Fits(f, (n - 1) + 1)
    BY <1>2, <2>5, <2>6
  <2> QED
    BY <2>3, <2>5, <2>7
<1> DEFINE Pick(n) == CHOOSE f : Fits(f, n)
           F == [x \in D |-> Pick(x + 1)[x]]
<1>4. \A n \in Nat : Fits(Pick(n), n)
  BY <1>3
<1>5. ASSUME NEW x \in D
      PROVE  /\ F[x] \in S
             /\ F[x] = IF x \in Stop THEN first[x] ELSE step[x][F[down[x]]]
  <2>1. x \in Nat /\ x + 1 \in Nat /\ x \in Below(x + 1)
    OBVIOUS
  <2>2. Fits(Pick(x + 1), x + 1)
    BY <1>4, <2>1
  <2> DEFINE g == Pick(x + 1)
  <2>3. F[x] = g[x]
    OBVIOUS
  <2>4. g[x] \in S /\ g[x] = IF x \in Stop THEN first[x] ELSE step[x][g[down[x]]]
    <3> HIDE DEF g
    <3> SUFFICES ASSUME Fits(g, x + 1)
                 PROVE  g[x] \in S /\ g[x] = IF x \in Stop THEN first[x] ELSE step[x][g[down[x]]]
      BY <2>2 DEF g
    <3> QED
      BY <2>1 DEF Recurs
  <2>5. ASSUME x \notin Stop PROVE F[down[x]] = g[down[x]]
    <3> DEFINE y == down[x]
               h == Pick(y + 1)
    <3>1. y \in D /\ y \in Nat /\ y < x /\ y + 1 \in Nat /\ y \in Below(y + 1) /\ y \in Below(x + 1)
      <4> HIDE DEF g, F, h, Pick, Fits
      <4>1. y \in D /\ y < x
        BY <2>5
      <4> HIDE DEF y
      <4>2. y \in Nat /\ y < x + 1 /\ y < y + 1
        BY <4>1, <2>1
      <4> QED
        BY <4>1, <4>2
    <3>2. Fits(h, y + 1)
      BY <1>4, <3>1
    <3>3. F[y] = h[y]
      BY <3>1
    <3>4. ASSUME NEW z \in Below(y + 1) \cap Below(x + 1), z \notin Stop
          PROVE  down[z] \in Below(y + 1) \cap Below(x + 1) /\ down[z] < z
      <4>1. z \in D /\ z \in Nat /\ z < y + 1 /\ z < x + 1 /\ down[z] \in D /\ down[z] < z /\ down[z] \in Nat
        BY <3>4
      <4> QED
        BY <4>1, <3>1
    <3>5. Recurs(h, Below(y + 1), Stop, first, down, step) /\ Recurs(g, Below(x + 1), Stop, first, down, step)
      BY <2>2, <3>2
    <3>6. Below(y + 1) \subseteq Nat
      OBVIOUS
    <3> DEFINE A == Below(y + 1)
               B == Below(x + 1)
    <3>7. Agree(h, g, A \cap B)
      <4>1. /\ Recurs(h, A, Stop, first, down, step) /\ Recurs(g, B, Stop, first, down, step)
            /\ A \subseteq Nat
            /\ Descends(A \cap B, Stop, down)
        BY <3>4, <3>5, <3>6 DEF Descends
      <4> HIDE DEF h, g, A, B
      <4> QED
        BY <4>1, RecursionUnique, Zenon
    <3> HIDE DEF h, g, Below, y
    <3> QED
      BY <3>1, <3>3, <3>7 DEF y, Agree
  <2> HIDE DEF g, F
  <2> QED
    BY <2>3, <2>4, <2>5
<1> HIDE DEF F
<1>6. F = [x \in D |-> F[x]]
  BY DEF F
<1>7. F = [x \in D |-> IF x \in Stop THEN first[x] ELSE step[x][F[down[x]]]]
  BY <1>5, <1>6
<1>8. F \in [D -> S]
  BY <1>5, <1>6
<1> QED
  BY <1>7, <1>8 DEF Recurs

-----------------------------------------------------------------------------
(* The numbers of a packfile.                                              *)

LEMMA Divided ==
    ASSUME NEW r \in Nat, r > 1, NEW x \in Nat
    PROVE  /\ x % r \in 0..r - 1 /\ x \div r \in Nat
           /\ x = r * (x \div r) + (x % r)
           /\ x > 0 => x \div r < x
           /\ x >= r => x \div r > 0
           /\ x < r => x \div r = 0 /\ x % r = x
           /\ ((x % r) + r) % r = x % r
  OBVIOUS

LEMMA VarintIs ==
    /\ varint \in [Nat -> Seq(Nat)]
    /\ \A x \in Nat : varint[x] = IF x < Radix THEN <<x>>
                                  ELSE <<(x % Radix) + Radix>> \o varint[x \div Radix]
<1> DEFINE Stop == {x \in Nat : x < Radix}
           first == [x \in Nat |-> <<x>>]
           down == [x \in Nat |-> x \div Radix]
           step == [x \in Nat |-> [s \in Seq(Nat) |-> <<(x % Radix) + Radix>> \o s]]
           Is(f) == f = [x \in Nat |-> IF x < Radix THEN <<x>>
                                       ELSE <<(x % Radix) + Radix>> \o f[x \div Radix]]
<1>1. \A x \in Nat : first[x] \in Seq(Nat)
  OBVIOUS
<1>2. ASSUME NEW x \in Nat, x \notin Stop PROVE down[x] \in Nat /\ down[x] < x
  <2>1. x > 0 /\ Radix \in Nat /\ Radix > 1
    BY <1>2, CodecAssumption
  <2> QED
    BY <2>1, Divided
<1>3. ASSUME NEW x \in Nat, NEW s \in Seq(Nat) PROVE step[x][s] \in Seq(Nat)
  <2>1. (x % Radix) + Radix \in Nat
    BY CodecAssumption, Divided
  <2> QED
    BY <2>1
<1>4. PICK f : f \in [Nat -> Seq(Nat)] /\ Recurs(f, Nat, Stop, first, down, step)
  <2> HIDE DEF Stop, first, down, step
  <2> QED
    BY <1>1, <1>2, <1>3, Recursion
<1>5. Is(f)
  <2>1. ASSUME NEW x \in Nat PROVE f[x] = IF x < Radix THEN <<x>>
                                          ELSE <<(x % Radix) + Radix>> \o f[x \div Radix]
    <3>1. f[x] = IF x \in Stop THEN first[x] ELSE step[x][f[down[x]]]
      BY <1>4 DEF Recurs
    <3>2. CASE x < Radix
      BY <3>1, <3>2
    <3>3. CASE ~(x < Radix)
      <4>1. x \div Radix \in Nat /\ f[x \div Radix] \in Seq(Nat)
        BY <1>2, <1>4, <3>3
      <4> QED
        BY <3>1, <3>3, <4>1
    <3> QED
      BY <3>2, <3>3
  <2> QED
    BY <1>4, <2>1
<1>6. Is(varint)
  BY <1>5 DEF varint
<1>7. \A x \in Nat : varint[x] = IF x < Radix THEN <<x>>
                                 ELSE <<(x % Radix) + Radix>> \o varint[x \div Radix]
  BY <1>6
<1>8. \A x \in Nat : varint[x] \in Seq(Nat)
  <2> DEFINE Wrong == {x \in Nat : varint[x] \notin Seq(Nat)}
  <2>1. SUFFICES ASSUME Wrong # {} PROVE FALSE
    OBVIOUS
  <2>2. PICK x \in Wrong : \A y \in Wrong : x <= y
    BY <2>1, LeastNumber
  <2>3. CASE x \in Stop
    BY <1>1, <1>7, <2>3
  <2>4. CASE x \notin Stop
    <3> DEFINE y == x \div Radix
    <3>1. y \in Nat /\ y < x
      BY <1>2, <2>4
    <3>2. varint[y] \in Seq(Nat)
      BY <2>2, <3>1
    <3>3. step[x][varint[y]] \in Seq(Nat)
      BY <1>3, <3>2
    <3>4. varint[x] = step[x][varint[y]]
      BY <1>7, <2>4, <3>2
    <3> QED
      BY <3>3, <3>4
  <2> QED
    BY <2>3, <2>4
<1> QED
  BY <1>6, <1>7, <1>8

LEMMA DigitsIs ==
    /\ offsetDigits \in [Nat -> Seq(Nat)]
    /\ \A x \in Nat : offsetDigits[x] =
         IF x \div Radix = 0 THEN <<>>
         ELSE offsetDigits[(x \div Radix) - 1] \o <<(((x \div Radix) - 1) % Radix) + Radix>>
<1> DEFINE Stop == {x \in Nat : x \div Radix = 0}
           first == [x \in Nat |-> <<>>]
           down == [x \in Nat |-> (x \div Radix) - 1]
           step == [x \in Nat |-> [s \in Seq(Nat) |-> s \o <<(((x \div Radix) - 1) % Radix) + Radix>>]]
           Is(f) == f = [x \in Nat |-> IF x \div Radix = 0 THEN <<>>
                                       ELSE f[(x \div Radix) - 1] \o <<(((x \div Radix) - 1) % Radix) + Radix>>]
<1>1. \A x \in Nat : first[x] \in Seq(Nat)
  OBVIOUS
<1>2. ASSUME NEW x \in Nat, x \notin Stop PROVE down[x] \in Nat /\ down[x] < x
  <2>1. Radix \in Nat /\ Radix > 1
    BY CodecAssumption
  <2>2. x \div Radix \in Nat /\ x \div Radix # 0 /\ (x > 0 => x \div Radix < x) /\ (x < Radix => x \div Radix = 0)
    BY <1>2, <2>1, Divided
  <2>3. x > 0
    BY <2>1, <2>2
  <2> QED
    BY <2>2, <2>3
<1>3. ASSUME NEW x \in Nat, x \notin Stop, NEW s \in Seq(Nat) PROVE step[x][s] \in Seq(Nat)
  <2>1. (x \div Radix) - 1 \in Nat
    BY <1>2, <1>3
  <2>2. (((x \div Radix) - 1) % Radix) + Radix \in Nat
    BY <2>1, CodecAssumption, Divided
  <2> QED
    BY <2>2
<1>4. PICK f : f \in [Nat -> Seq(Nat)] /\ Recurs(f, Nat, Stop, first, down, step)
  <2> HIDE DEF Stop, first, down, step
  <2> QED
    BY <1>1, <1>2, <1>3, Recursion
<1>5. Is(f)
  <2>1. ASSUME NEW x \in Nat
        PROVE  f[x] = IF x \div Radix = 0 THEN <<>>
                      ELSE f[(x \div Radix) - 1] \o <<(((x \div Radix) - 1) % Radix) + Radix>>
    <3>1. f[x] = IF x \in Stop THEN first[x] ELSE step[x][f[down[x]]]
      BY <1>4 DEF Recurs
    <3>2. CASE x \in Stop
      BY <3>1, <3>2
    <3>3. CASE x \notin Stop
      <4>1. down[x] \in Nat /\ f[down[x]] \in Seq(Nat)
        BY <1>2, <1>4, <3>3
      <4> QED
        BY <3>1, <3>3, <4>1
    <3> QED
      BY <3>2, <3>3
  <2> QED
    BY <1>4, <2>1
<1>6. Is(offsetDigits)
  BY <1>5 DEF offsetDigits
<1>7. \A x \in Nat : offsetDigits[x] =
        IF x \div Radix = 0 THEN <<>>
        ELSE offsetDigits[(x \div Radix) - 1] \o <<(((x \div Radix) - 1) % Radix) + Radix>>
  BY <1>6
<1>8. \A x \in Nat : offsetDigits[x] \in Seq(Nat)
  <2> DEFINE Wrong == {x \in Nat : offsetDigits[x] \notin Seq(Nat)}
  <2>1. SUFFICES ASSUME Wrong # {} PROVE FALSE
    OBVIOUS
  <2>2. PICK x \in Wrong : \A y \in Wrong : x <= y
    BY <2>1, LeastNumber
  <2>3. CASE x \in Stop
    BY <1>1, <1>7, <2>3
  <2>4. CASE x \notin Stop
    <3>1. down[x] \in Nat /\ down[x] < x
      BY <1>2, <2>4
    <3>2. offsetDigits[down[x]] \in Seq(Nat)
      BY <2>2, <3>1
    <3>3. step[x][offsetDigits[down[x]]] \in Seq(Nat)
      BY <1>3, <2>4, <3>2
    <3>4. offsetDigits[x] = step[x][offsetDigits[down[x]]]
      BY <1>7, <2>4, <3>2
    <3> QED
      BY <3>3, <3>4
  <2> QED
    BY <2>3, <2>4
<1> QED
  BY <1>6, <1>7, <1>8

(* A loop over the numbers up to n that starts with zero.                  *)
Loops(f, n, zero, step) == f = [m \in 0..n |-> IF m = 0 THEN zero ELSE step[m][f[m - 1]]]

LEMMA LoopStep ==
    ASSUME NEW N \in Nat, NEW f, NEW zero, NEW step, Loops(f, N, zero, step), N \in 0..N, N # 0
    PROVE  f[N] = step[N][f[N - 1]]
  BY Zenon DEF Loops

LEMMA LoopEnds ==
    ASSUME NEW n \in Nat, NEW S, NEW zero \in S, NEW step,
           \A m \in 1..n, v \in S : step[m][v] \in S
    PROVE  \E f \in [0..n -> S] : Loops(f, n, zero, step)
<1> DEFINE D == 0..n
           Stop == {0}
           first == [m \in 0..n |-> zero]
           down == [m \in 0..n |-> m - 1]
<1>1. D \subseteq Nat /\ \A m \in D : m \in Stop => first[m] \in S
  OBVIOUS
<1>2. \A m \in D : m \notin Stop => down[m] \in D /\ down[m] < m
  OBVIOUS
<1>3. \A m \in D, v \in S : m \notin Stop => step[m][v] \in S
  OBVIOUS
<1>4. PICK f \in [D -> S] : Recurs(f, D, Stop, first, down, step)
  <2> HIDE DEF D, Stop, first, down
  <2> QED
    BY <1>1, <1>2, <1>3, Recursion
<1>5. ASSUME NEW m \in D PROVE f[m] = IF m = 0 THEN zero ELSE step[m][f[m - 1]]
  BY <1>4 DEF Recurs
<1> QED
  BY <1>5 DEF Loops

LEMMA LoopsSame ==
    ASSUME NEW n \in Nat, NEW f, NEW zero, NEW step, Loops(f, n, zero, step),
           NEW m \in Nat, m <= n, NEW g, NEW change, Loops(g, m, zero, change),
           Agree(step, change, 1..m)
    PROVE  f[m] = g[m]
<1> DEFINE Wrong == {k \in 0..m : f[k] # g[k]}
<1>1. SUFFICES ASSUME Wrong # {} PROVE FALSE
  OBVIOUS
<1>2. Wrong \subseteq Nat
  OBVIOUS
<1>3. PICK k \in Wrong : \A j \in Wrong : k <= j
  BY <1>1, <1>2, LeastNumber
<1>4. k \in 0..m /\ k \in 0..n
  OBVIOUS
<1>5. /\ f[k] = IF k = 0 THEN zero ELSE step[k][f[k - 1]]
      /\ g[k] = IF k = 0 THEN zero ELSE change[k][g[k - 1]]
  BY <1>4 DEF Loops
<1>6. k \in 1..m /\ f[k - 1] # g[k - 1]
  BY <1>3, <1>4, <1>5 DEF Agree
<1>7. k - 1 \in Wrong
  BY <1>6
<1> QED
  BY <1>3, <1>6, <1>7

UvarintStep(b) == [m \in 1..Len(b) |-> [acc \in Nat |-> (b[Len(b) + 1 - m] % Radix) + (Radix * acc)]]

LEMMA UvarintIs ==
    ASSUME NEW b \in Seq(Nat)
    PROVE  \E v \in [0..Len(b) -> Nat] :
             Loops(v, Len(b), 0, UvarintStep(b)) /\ uvarint(b) = v[Len(b)]
<1> DEFINE n == Len(b)
           step == UvarintStep(b)
           Is(v) == v = [m \in 0..n |-> IF m = 0 THEN 0
                                        ELSE (b[n + 1 - m] % Radix) + (Radix * v[m - 1])]
<1>1. n \in Nat
  OBVIOUS
<1>2. ASSUME NEW m \in 1..n, NEW acc \in Nat
      PROVE  step[m][acc] \in Nat /\ step[m][acc] = (b[n + 1 - m] % Radix) + (Radix * acc)
  <2>1. n + 1 - m \in 1..n
    BY <1>1
  <2>2. b[n + 1 - m] \in Nat
    BY <2>1
  <2>3. step[m][acc] = (b[n + 1 - m] % Radix) + (Radix * acc)
    BY DEF UvarintStep
  <2>4. ASSUME NEW c \in Nat PROVE Radix * acc \in Nat /\ c % Radix \in Nat
    BY CodecAssumption, Divided
  <2>5. \A c, d \in Nat : c + d \in Nat
    OBVIOUS
  <2> QED
    BY <2>2, <2>3, <2>4, <2>5
<1> HIDE DEF step
<1>3. PICK v \in [0..n -> Nat] : Loops(v, n, 0, step)
  BY <1>1, <1>2, LoopEnds
<1>4. Is(v)
  <2>1. ASSUME NEW m \in 0..n
        PROVE  v[m] = IF m = 0 THEN 0 ELSE (b[n + 1 - m] % Radix) + (Radix * v[m - 1])
    <3>1. v[m] = IF m = 0 THEN 0 ELSE step[m][v[m - 1]]
      BY <1>3 DEF Loops
    <3>2. m # 0 => m \in 1..n /\ m - 1 \in 0..n
      BY <1>1
    <3>3. m # 0 => v[m - 1] \in Nat
      BY <3>2
    <3> QED
      BY <1>2, <3>1, <3>2, <3>3
  <2> QED
    BY <2>1
<1>5. PICK w : Is(w) /\ uvarint(b) = w[n]
  <2>1. Is(CHOOSE w : Is(w))
    BY <1>4
  <2>2. uvarint(b) = (CHOOSE w : Is(w))[n]
    BY DEF uvarint
  <2> QED
    BY <2>1, <2>2
<1>6. \A m \in 0..n : w[m] = v[m]
  <2> DEFINE Wrong == {m \in 0..n : w[m] # v[m]}
  <2>1. SUFFICES ASSUME Wrong # {} PROVE FALSE
    OBVIOUS
  <2>2. Wrong \subseteq Nat
    OBVIOUS
  <2>3. PICK m \in Wrong : \A j \in Wrong : m <= j
    BY <2>1, <2>2, LeastNumber
  <2>4. /\ w[m] = IF m = 0 THEN 0 ELSE (b[n + 1 - m] % Radix) + (Radix * w[m - 1])
        /\ v[m] = IF m = 0 THEN 0 ELSE (b[n + 1 - m] % Radix) + (Radix * v[m - 1])
    BY <1>4, <1>5
  <2>5. m # 0 /\ w[m - 1] # v[m - 1]
    BY <2>3, <2>4
  <2>6. m - 1 \in Wrong /\ m - 1 < m
    BY <2>5
  <2> QED
    BY <2>3, <2>6
<1>7. uvarint(b) = v[n]
  BY <1>1, <1>5, <1>6
<1> QED
  BY <1>3, <1>7 DEF step

LEMMA UvarintOfNone == uvarint(<<>>) = 0
<1>1. <<>> \in Seq(Nat) /\ Len(<<>>) = 0
  OBVIOUS
<1>2. PICK v \in [0..0 -> Nat] : Loops(v, 0, 0, UvarintStep(<<>>)) /\ uvarint(<<>>) = v[0]
  BY <1>1, UvarintIs
<1> QED
  BY <1>2 DEF Loops

LEMMA UvarintOf ==
    ASSUME NEW x \in Nat, NEW t \in Seq(Nat)
    PROVE  /\ uvarint(t) \in Nat
           /\ uvarint(<<x>> \o t) = (x % Radix) + (Radix * uvarint(t))
<1> DEFINE s == <<x>> \o t
           n == Len(t)
<1>1. /\ s \in Seq(Nat) /\ Len(s) = n + 1 /\ n \in Nat /\ s[1] = x
      /\ \A i \in 1..n : s[1 + i] = t[i]
  OBVIOUS
<1> HIDE DEF s
<1>2. PICK w \in [0..n -> Nat] : Loops(w, n, 0, UvarintStep(t)) /\ uvarint(t) = w[n]
  BY UvarintIs
<1>3. PICK v \in [0..n + 1 -> Nat] : Loops(v, n + 1, 0, UvarintStep(s)) /\ uvarint(s) = v[n + 1]
  BY <1>1, UvarintIs
<1>4. ASSUME NEW k \in 1..n PROVE UvarintStep(s)[k] = UvarintStep(t)[k]
  <2>1. n + 1 - k \in 1..n /\ (n + 1) + 1 - k = 1 + (n + 1 - k) /\ k \in 1..n + 1
    BY <1>1
  <2>2. s[(n + 1) + 1 - k] = t[n + 1 - k]
    BY <1>1, <2>1
  <2>3. /\ UvarintStep(s)[k] = [acc \in Nat |-> (s[(n + 1) + 1 - k] % Radix) + (Radix * acc)]
        /\ UvarintStep(t)[k] = [acc \in Nat |-> (t[n + 1 - k] % Radix) + (Radix * acc)]
    BY <1>1, <2>1 DEF UvarintStep
  <2> QED
    BY <2>2, <2>3
<1>5. v[n] = w[n]
  <2> DEFINE N == n + 1
             a == UvarintStep(s)
             c == UvarintStep(t)
  <2>1. N \in Nat /\ n \in Nat /\ n <= N
    BY <1>1
  <2>2. Loops(v, N, 0, a)
    BY <1>3
  <2>3. Loops(w, n, 0, c)
    BY <1>2
  <2>4. Agree(a, c, 1..n)
    BY <1>4 DEF Agree
  <2> HIDE DEF n, N, a, c
  <2> QED
    BY <2>1, <2>2, <2>3, <2>4, LoopsSame
<1>6. n + 1 \in 0..n + 1 /\ n + 1 # 0 /\ n + 1 \in 1..n + 1 /\ (n + 1) - 1 = n /\ (n + 1) + 1 - (n + 1) = 1
  <2>1. n \in Nat
    BY <1>1
  <2> HIDE DEF n
  <2> QED
    BY <2>1
<1>7. v[n + 1] = UvarintStep(s)[n + 1][v[n]]
  <2> DEFINE N == n + 1
             a == UvarintStep(s)
  <2>1. Loops(v, N, 0, a) /\ N \in 0..N /\ N # 0 /\ N - 1 = n
    BY <1>3, <1>6
  <2> HIDE DEF n, N, a
  <2>2. v[N] = a[N][v[N - 1]]
    BY <2>1, Zenon DEF Loops
  <2>3. v[N] = a[N][v[n]]
    BY <2>1, <2>2
  <2> QED
    BY <2>3 DEF N, a
<1>8. UvarintStep(s)[n + 1] = [acc \in Nat |-> (x % Radix) + (Radix * acc)]
  <2> DEFINE N == n + 1
  <2>1. Len(s) = N /\ N \in 1..N /\ N + 1 - N = 1 /\ s[1] = x
    BY <1>1, <1>6
  <2> HIDE DEF n, N
  <2>2. UvarintStep(s)[N] = [acc \in Nat |-> (s[N + 1 - N] % Radix) + (Radix * acc)]
    BY <2>1 DEF UvarintStep
  <2>3. UvarintStep(s)[N] = [acc \in Nat |-> (x % Radix) + (Radix * acc)]
    BY <2>1, <2>2
  <2> QED
    BY <2>3 DEF N
<1>9. w[n] \in Nat
  BY <1>1, <1>2
<1>10. [acc \in Nat |-> (x % Radix) + (Radix * acc)][w[n]] = (x % Radix) + (Radix * w[n])
  BY <1>9
<1>11. uvarint(s) = (x % Radix) + (Radix * w[n])
  BY <1>3, <1>5, <1>7, <1>8, <1>10, Zenon
<1> QED
  BY <1>2, <1>9, <1>11, Zenon DEF s

(***************************************************************************)
(* What appendVarint wrote uvarint reads back, of any size.                *)
(***************************************************************************)
THEOREM UvarintOfVarint == \A x \in Nat : uvarint(varint[x]) = x
<1> DEFINE Wrong == {x \in Nat : uvarint(varint[x]) # x}
<1>1. SUFFICES ASSUME Wrong # {} PROVE FALSE
  OBVIOUS
<1>2. PICK x \in Wrong : \A y \in Wrong : x <= y
  BY <1>1, LeastNumber
<1>3. Radix \in Nat /\ Radix > 1 /\ x \in Nat
  BY CodecAssumption
<1>4. CASE x < Radix
  <2>1. varint[x] = <<x>> /\ x % Radix = x
    BY <1>3, <1>4, VarintIs, Divided
  <2>2. <<x>> = <<x>> \o <<>> /\ <<>> \in Seq(Nat)
    OBVIOUS
  <2>3. uvarint(<<x>> \o <<>>) = (x % Radix) + (Radix * uvarint(<<>>))
    BY <1>3, <2>2, UvarintOf
  <2> QED
    BY <1>2, <1>3, <2>1, <2>2, <2>3, UvarintOfNone
<1>5. CASE ~(x < Radix)
  <2> DEFINE y == x \div Radix
             d == (x % Radix) + Radix
  <2>1. /\ y \in Nat /\ y < x /\ d \in Nat
        /\ d % Radix = x % Radix /\ x = Radix * y + (x % Radix)
    <3>1. /\ x % Radix \in 0..Radix - 1 /\ x \div Radix \in Nat
          /\ x = Radix * (x \div Radix) + (x % Radix)
          /\ x > 0 => x \div Radix < x
          /\ ((x % Radix) + Radix) % Radix = x % Radix
      BY <1>3, Divided
    <3> QED
      BY <1>3, <1>5, <3>1
  <2>2. varint[x] = <<d>> \o varint[y] /\ varint[y] \in Seq(Nat)
    BY <1>3, <1>5, <2>1, VarintIs
  <2>3. uvarint(varint[y]) = y
    BY <1>2, <2>1
  <2> HIDE DEF y, d
  <2>4. uvarint(varint[x]) = (d % Radix) + (Radix * y)
    BY <2>1, <2>2, <2>3, UvarintOf
  <2>5. uvarint(varint[x]) = x
    BY <1>3, <2>1, <2>4
  <2> QED
    BY <1>2, <2>5
<1> QED
  BY <1>4, <1>5

LEMMA HeadTail ==
    ASSUME NEW x, NEW S, x \in S, NEW t \in Seq(S)
    PROVE  Head(<<x>> \o t) = x /\ Tail(<<x>> \o t) = t
  OBVIOUS

(***************************************************************************)
(* The size in an object's header is read as it was written: of            *)
(* appendLengthType the first byte holds four bits and the others a varint.*)
(***************************************************************************)
THEOREM LengthRead ==
    ASSUME NEW n \in Nat
    PROVE  readLengthType(appendLengthType(n)) = n
<1>1. Nibble \in Nat /\ Nibble > 1
  BY CodecAssumption
<1>2. /\ n % Nibble \in 0..Nibble - 1 /\ n \div Nibble \in Nat
      /\ n = Nibble * (n \div Nibble) + (n % Nibble)
      /\ n < Nibble => n % Nibble = n
      /\ ((n % Nibble) + Nibble) % Nibble = n % Nibble
  BY <1>1, Divided
<1>3. CASE n < Nibble
  <2>1. appendLengthType(n) = <<n>> /\ Head(<<n>>) = n
    BY <1>1, <1>3 DEF appendLengthType
  <2> QED
    BY <1>2, <1>3, <2>1 DEF readLengthType
<1>4. CASE ~(n < Nibble)
  <2> DEFINE d == (n % Nibble) + Nibble
             t == varint[n \div Nibble]
  <2>1. d \in Nat /\ ~(d < Nibble) /\ d % Nibble = n % Nibble
    BY <1>1, <1>2
  <2>2. t \in Seq(Nat) /\ uvarint(t) = n \div Nibble
    BY <1>2, VarintIs, UvarintOfVarint
  <2>3. appendLengthType(n) = <<d>> \o t
    BY <1>1, <1>4 DEF appendLengthType
  <2> DEFINE q == n \div Nibble
             l == n % Nibble
  <2> HIDE DEF d, t
  <2>4. Head(<<d>> \o t) = d /\ Tail(<<d>> \o t) = t
    BY <2>1, <2>2, HeadTail
  <2>5. readLengthType(<<d>> \o t) = (n % Nibble) + (Nibble * (n \div Nibble))
    BY <2>1, <2>2, <2>4 DEF readLengthType
  <2>6. l + (Nibble * q) = n
    <3>1. l \in Nat /\ q \in Nat /\ n = Nibble * q + l
      BY <1>1, <1>2
    <3> HIDE DEF l, q
    <3> QED
      BY <1>1, <3>1
  <2> QED
    BY <2>3, <2>5, <2>6
<1> QED
  BY <1>3, <1>4

LEMMA PowerIs == power[0] = 1 /\ \A n \in Nat : power[n] \in Nat /\ power[n + 1] = Radix * power[n]
<1> DEFINE Stop == {0}
           first == [n \in Nat |-> 1]
           down == [n \in Nat |-> n - 1]
           step == [n \in Nat |-> [v \in Nat |-> Radix * v]]
           Is(f) == f = [n \in Nat |-> IF n = 0 THEN 1 ELSE Radix * f[n - 1]]
<1>1. \A n \in Nat : first[n] \in Nat
  OBVIOUS
<1>2. \A n \in Nat : n \notin Stop => down[n] \in Nat /\ down[n] < n
  OBVIOUS
<1>3. \A n \in Nat, v \in Nat : step[n][v] \in Nat /\ step[n][v] = Radix * v
  <2>1. Radix \in Nat
    BY CodecAssumption
  <2>2. \A v \in Nat : Radix * v \in Nat
    BY <2>1
  <2> QED
    BY <2>2
<1>4. PICK f : f \in [Nat -> Nat] /\ Recurs(f, Nat, Stop, first, down, step)
  <2> HIDE DEF Stop, first, down, step
  <2> QED
    BY <1>1, <1>2, <1>3, Recursion
<1>5. Is(f)
  <2>1. ASSUME NEW n \in Nat PROVE f[n] = IF n = 0 THEN 1 ELSE Radix * f[n - 1]
    <3>1. f[n] = IF n = 0 THEN 1 ELSE step[n][f[n - 1]]
      BY <1>4 DEF Recurs
    <3>2. n # 0 => f[n - 1] \in Nat
      BY <1>4
    <3> QED
      BY <1>3, <3>1, <3>2
  <2> QED
    BY <1>4, <2>1
<1>6. Is(power)
  BY <1>5 DEF power
<1>7. power[0] = 1 /\ \A n \in Nat : power[n + 1] = Radix * power[n]
  BY <1>6
<1>8. \A n \in Nat : power[n] \in Nat
  <2> DEFINE Wrong == {n \in Nat : power[n] \notin Nat}
  <2>1. SUFFICES ASSUME Wrong # {} PROVE FALSE
    OBVIOUS
  <2>2. PICK n \in Wrong : \A m \in Wrong : n <= m
    BY <2>1, LeastNumber
  <2>3. n # 0 /\ n - 1 \in Nat /\ n - 1 < n /\ (n - 1) + 1 = n
    BY <1>7
  <2>4. power[n - 1] \in Nat
    BY <2>2, <2>3
  <2>5. power[n] = Radix * power[n - 1]
    BY <1>7, <2>3
  <2> QED
    BY <2>4, <2>5, CodecAssumption
<1> QED
  BY <1>7, <1>8

BitsStep(b) == [m \in 1..Len(b) |-> [acc \in Nat |-> (Radix * acc) + (b[m] % Radix)]]
AccumStep(n) == [m \in 1..n |-> [acc \in Nat |-> IF m < 2 THEN 0 ELSE acc + power[m - 1]]]

(* What the loop of readOffset makes of the bytes b, of any number.        *)
Reads(b, v) ==
    \E bits \in [0..Len(b) -> Nat], accum \in [0..Len(b) -> Nat] :
      /\ Loops(bits, Len(b), 0, BitsStep(b))
      /\ Loops(accum, Len(b), 0, AccumStep(Len(b)))
      /\ v = bits[Len(b)] + accum[Len(b)]

LEMMA BitsNat ==
    ASSUME NEW b \in Seq(Nat), NEW m \in 1..Len(b), NEW acc \in Nat
    PROVE  /\ BitsStep(b)[m][acc] = (Radix * acc) + (b[m] % Radix)
           /\ BitsStep(b)[m][acc] \in Nat
<1>1. BitsStep(b)[m][acc] = (Radix * acc) + (b[m] % Radix)
  BY DEF BitsStep
<1>2. b[m] \in Nat
  OBVIOUS
<1>3. ASSUME NEW c \in Nat PROVE Radix * acc \in Nat /\ c % Radix \in Nat
  BY CodecAssumption, Divided
<1>4. \A c, d \in Nat : c + d \in Nat
  OBVIOUS
<1> QED
  BY <1>1, <1>2, <1>3, <1>4

LEMMA AccumNat ==
    ASSUME NEW n \in Nat, NEW m \in 1..n, NEW acc \in Nat
    PROVE  /\ AccumStep(n)[m][acc] = IF m < 2 THEN 0 ELSE acc + power[m - 1]
           /\ AccumStep(n)[m][acc] \in Nat
<1>1. AccumStep(n)[m][acc] = IF m < 2 THEN 0 ELSE acc + power[m - 1]
  BY DEF AccumStep
<1>2. m - 1 \in Nat
  OBVIOUS
<1>3. power[m - 1] \in Nat
  BY <1>2, PowerIs
<1> QED
  BY <1>1, <1>3

LEMMA OffsetReads ==
    ASSUME NEW b \in Seq(Nat)
    PROVE  \E v \in Nat : /\ Reads(b, v)
                          /\ readOffset(b) = IF Len(b) > MaxOffsetBytes THEN -1 ELSE v
<1> DEFINE n == Len(b)
           IsBits(f) == f = [m \in 0..n |-> IF m = 0 THEN 0 ELSE (Radix * f[m - 1]) + (b[m] % Radix)]
           IsAccum(f) == f = [m \in 0..n |-> IF m < 2 THEN 0 ELSE f[m - 1] + power[m - 1]]
           B == BitsStep(b)
           A == AccumStep(n)
<1>1. n \in Nat
  OBVIOUS
<1>2. \A m \in 1..n, acc \in Nat : B[m][acc] = (Radix * acc) + (b[m] % Radix) /\ B[m][acc] \in Nat
  BY BitsNat
<1>3. \A m \in 1..n, acc \in Nat : A[m][acc] = (IF m < 2 THEN 0 ELSE acc + power[m - 1]) /\ A[m][acc] \in Nat
  BY <1>1, AccumNat
<1> HIDE DEF B, A
<1>4. PICK f \in [0..n -> Nat] : Loops(f, n, 0, B)
  BY <1>1, <1>2, LoopEnds
<1>5. PICK g \in [0..n -> Nat] : Loops(g, n, 0, A)
  BY <1>1, <1>3, LoopEnds
<1>6. IsBits(f)
  <2>1. ASSUME NEW m \in 0..n PROVE f[m] = IF m = 0 THEN 0 ELSE (Radix * f[m - 1]) + (b[m] % Radix)
    <3>1. f[m] = IF m = 0 THEN 0 ELSE B[m][f[m - 1]]
      BY <1>4 DEF Loops
    <3>2. m # 0 => m \in 1..n /\ m - 1 \in 0..n
      BY <1>1
    <3>3. m # 0 => f[m - 1] \in Nat
      BY <3>2
    <3> QED
      BY <1>2, <3>1, <3>2, <3>3
  <2> QED
    BY <2>1
<1>7. IsAccum(g)
  <2>1. ASSUME NEW m \in 0..n PROVE g[m] = IF m < 2 THEN 0 ELSE g[m - 1] + power[m - 1]
    <3>1. g[m] = IF m = 0 THEN 0 ELSE A[m][g[m - 1]]
      BY <1>5 DEF Loops
    <3>2. m # 0 => m \in 1..n /\ m - 1 \in 0..n
      BY <1>1
    <3>3. m # 0 => g[m - 1] \in Nat
      BY <3>2
    <3> QED
      BY <1>3, <3>1, <3>2, <3>3
  <2> QED
    BY <2>1
<1>8. PICK h : IsBits(h) /\ h = CHOOSE x : IsBits(x)
  BY <1>6
<1>9. PICK k : IsAccum(k) /\ k = CHOOSE x : IsAccum(x)
  BY <1>7
<1>10. readOffset(b) = IF n > MaxOffsetBytes THEN -1 ELSE h[n] + k[n]
  <2>1. readOffset(b) = IF n > MaxOffsetBytes THEN -1
                        ELSE (CHOOSE x : IsBits(x))[n] + (CHOOSE x : IsAccum(x))[n]
    BY DEF readOffset
  <2> HIDE DEF IsBits, IsAccum
  <2> QED
    BY <1>8, <1>9, <2>1
<1>11. h[n] = f[n]
  <2> DEFINE Wrong == {m \in 0..n : h[m] # f[m]}
  <2>1. SUFFICES ASSUME Wrong # {} PROVE FALSE
    BY <1>1
  <2>2. Wrong \subseteq Nat
    OBVIOUS
  <2>3. PICK m \in Wrong : \A j \in Wrong : m <= j
    BY <2>1, <2>2, LeastNumber
  <2>4. /\ h[m] = IF m = 0 THEN 0 ELSE (Radix * h[m - 1]) + (b[m] % Radix)
        /\ f[m] = IF m = 0 THEN 0 ELSE (Radix * f[m - 1]) + (b[m] % Radix)
    BY <1>6, <1>8
  <2>5. m # 0 /\ h[m - 1] # f[m - 1]
    BY <2>3, <2>4
  <2>6. m - 1 \in Wrong /\ m - 1 < m
    BY <2>5
  <2> QED
    BY <2>3, <2>6
<1>12. k[n] = g[n]
  <2> DEFINE Wrong == {m \in 0..n : k[m] # g[m]}
  <2>1. SUFFICES ASSUME Wrong # {} PROVE FALSE
    BY <1>1
  <2>2. Wrong \subseteq Nat
    OBVIOUS
  <2>3. PICK m \in Wrong : \A j \in Wrong : m <= j
    BY <2>1, <2>2, LeastNumber
  <2>4. /\ k[m] = IF m < 2 THEN 0 ELSE k[m - 1] + power[m - 1]
        /\ g[m] = IF m < 2 THEN 0 ELSE g[m - 1] + power[m - 1]
    BY <1>7, <1>9
  <2>5. ~(m < 2) /\ k[m - 1] # g[m - 1]
    BY <2>3, <2>4
  <2>6. m - 1 \in Wrong /\ m - 1 < m
    BY <2>5
  <2> QED
    BY <2>3, <2>6
<1> DEFINE v == f[n] + g[n]
<1>13. v \in Nat
  BY <1>1
<1>14. Reads(b, v)
  BY <1>4, <1>5 DEF Reads, A, B
<1>15. readOffset(b) = IF n > MaxOffsetBytes THEN -1 ELSE v
  BY <1>10, <1>11, <1>12
<1> HIDE DEF v
<1> QED
  BY <1>13, <1>14, <1>15

(* The digits of a number.                                                 *)
LEMMA Digit ==
    ASSUME NEW x \in Nat
    PROVE  /\ Radix \in Nat /\ Radix > 1
           /\ x % Radix \in 0..Radix - 1 /\ x % Radix \in Nat
           /\ x \div Radix \in Nat
           /\ x = Radix * (x \div Radix) + (x % Radix)
           /\ x > 0 => x \div Radix < x
           /\ x < Radix => x \div Radix = 0 /\ x % Radix = x
           /\ (x % Radix) + Radix \in Nat
           /\ ((x % Radix) + Radix) % Radix = x % Radix
<1>1. Radix \in Nat /\ Radix > 1
  BY CodecAssumption
<1>2. /\ x % Radix \in 0..Radix - 1 /\ x \div Radix \in Nat
      /\ x = Radix * (x \div Radix) + (x % Radix)
      /\ x > 0 => x \div Radix < x
      /\ x < Radix => x \div Radix = 0 /\ x % Radix = x
      /\ ((x % Radix) + Radix) % Radix = x % Radix
  BY <1>1, Divided
<1> DEFINE r == x % Radix
<1>3. r \in 0..Radix - 1
  BY <1>2
<1> HIDE DEF r
<1>4. r \in Nat /\ r + Radix \in Nat
  BY <1>1, <1>3
<1> QED
  BY <1>1, <1>2, <1>4 DEF r

LEMMA Horner ==
    ASSUME NEW r \in Nat, NEW a \in Nat, NEW b \in Nat, NEW c \in Nat
    PROVE  /\ r * (a + 1) + r * b = r * ((a + b) + 1)
           /\ (r * a + c) + r * (b + 1) = r * ((a + b) + 1) + c
  OBVIOUS

LEMMA AccumHorner ==
    ASSUME NEW n \in Nat, NEW g \in [0..n -> Nat], Loops(g, n, 0, AccumStep(n)), NEW m \in 1..n
    PROVE  g[m] + power[m] = Radix * (g[m] + 1)
<1> DEFINE Wrong == {k \in 1..n : g[k] + power[k] # Radix * (g[k] + 1)}
<1>1. Radix \in Nat /\ \A k \in Nat : power[k] \in Nat /\ power[k + 1] = Radix * power[k]
  BY CodecAssumption, PowerIs
<1>2. ASSUME NEW k \in 1..n PROVE g[k] = IF k < 2 THEN 0 ELSE g[k - 1] + power[k - 1]
  <2>1. k \in 0..n /\ k # 0 /\ k - 1 \in 0..n
    OBVIOUS
  <2>2. g[k] = AccumStep(n)[k][g[k - 1]] /\ g[k - 1] \in Nat
    BY <2>1 DEF Loops
  <2> QED
    BY <2>2, AccumNat
<1>3. SUFFICES ASSUME Wrong # {} PROVE FALSE
  OBVIOUS
<1>4. Wrong \subseteq Nat
  OBVIOUS
<1>5. PICK k \in Wrong : \A j \in Wrong : k <= j
  BY <1>3, <1>4, LeastNumber
<1>6. CASE k = 1
  <2>1. g[1] = 0
    BY <1>2, <1>6
  <2>2. power[0 + 1] = Radix * 1
    BY <1>1, PowerIs
  <2>3. 0 + 1 = 1 /\ \A r \in Nat : r * 1 = r /\ r = r * (0 + 1)
    OBVIOUS
  <2>4. power[1] = Radix
    BY <1>1, <2>2, <2>3
  <2>5. 0 + Radix = Radix /\ Radix * (0 + 1) = Radix
    BY <1>1, <2>3
  <2>6. g[1] + power[1] = Radix * (g[1] + 1)
    BY <2>1, <2>4, <2>5
  <2> QED
    BY <1>5, <1>6, <2>6
<1>7. CASE k # 1
  <2> DEFINE j == k - 1
  <2>1. j \in 1..n /\ j < k /\ k \in 1..n /\ ~(k < 2) /\ k = j + 1 /\ j \in Nat
    BY <1>7
  <2>2. g[j] + power[j] = Radix * (g[j] + 1)
    BY <1>5, <2>1
  <2>3. g[k] = g[j] + power[j]
    BY <1>2, <2>1
  <2>4. power[k] = Radix * power[j]
    <3>1. power[j + 1] = Radix * power[j]
      BY <1>1, <2>1
    <3> QED
      BY <2>1, <3>1
  <2> HIDE DEF j
  <2>5. g[j] \in Nat /\ power[j] \in Nat
    <3>1. j \in 0..n
      BY <2>1
    <3> QED
      BY <1>1, <2>1, <3>1
  <2>6. Radix * (g[j] + 1) + Radix * power[j] = Radix * ((g[j] + power[j]) + 1)
    <3>1. \A a, b, c \in Nat : Radix * (a + 1) + Radix * b = Radix * ((a + b) + 1)
      BY <1>1, Horner
    <3> QED
      BY <2>5, <3>1
  <2>7. g[k] + power[k] = Radix * (g[k] + 1)
    BY <2>2, <2>3, <2>4, <2>6, Zenon
  <2> QED
    BY <1>5, <2>7
<1> QED
  BY <1>6, <1>7

LEMMA ReadsFirst ==
    ASSUME NEW d \in Nat
    PROVE  Reads(<<d>>, d % Radix)
<1> DEFINE b == <<d>>
<1>1. b \in Seq(Nat) /\ Len(b) = 1 /\ b[1] = d
  OBVIOUS
<1> HIDE DEF b
<1>2. PICK v \in Nat : Reads(b, v)
  BY <1>1, OffsetReads
<1>3. PICK f \in [0..1 -> Nat], g \in [0..1 -> Nat] :
        Loops(f, 1, 0, BitsStep(b)) /\ Loops(g, 1, 0, AccumStep(1)) /\ v = f[1] + g[1]
  BY <1>1, <1>2 DEF Reads
<1>4. f[0] = 0 /\ f[1] = BitsStep(b)[1][f[0]] /\ g[0] = 0 /\ g[1] = AccumStep(1)[1][g[0]]
  <2>1. 0 \in 0..1 /\ 1 \in 0..1 /\ 1 # 0 /\ 1 - 1 = 0
    OBVIOUS
  <2> QED
    BY <1>3, <2>1 DEF Loops
<1>5. BitsStep(b)[1][0] = (Radix * 0) + (d % Radix)
  <2>1. 1 \in 1..Len(b) /\ 0 \in Nat
    BY <1>1
  <2>2. BitsStep(b)[1][0] = (Radix * 0) + (b[1] % Radix)
    BY <1>1, <2>1, BitsNat
  <2> QED
    BY <1>1, <2>2
<1>6. AccumStep(1)[1][0] = 0
  BY AccumNat
<1>7. d % Radix \in Nat /\ Radix \in Nat
  BY Digit
<1>8. v = d % Radix
  BY <1>3, <1>4, <1>5, <1>6, <1>7
<1> QED
  BY <1>2, <1>8 DEF b

(* One byte more.                                                          *)
LEMMA ReadsNext ==
    ASSUME NEW s \in Seq(Nat), Len(s) > 0, NEW v \in Nat, Reads(s, v), NEW d \in Nat
    PROVE  Reads(Append(s, d), (Radix * (v + 1)) + (d % Radix))
<1> DEFINE t == Append(s, d)
           n == Len(s)
           N == n + 1
<1>1. /\ t \in Seq(Nat) /\ Len(t) = N /\ t[N] = d /\ \A i \in 1..n : t[i] = s[i]
      /\ n \in Nat /\ N \in Nat /\ n <= N /\ N = n + 1 /\ n >= 1
  OBVIOUS
<1> HIDE DEF t, n, N
<1>2. PICK f, g :
        f \in [0..n -> Nat] /\ g \in [0..n -> Nat] /\ Loops(f, n, 0, BitsStep(s)) /\ Loops(g, n, 0, AccumStep(n)) /\ v = f[n] + g[n]
  BY DEF Reads, n
<1>3. PICK w \in Nat : Reads(t, w)
  BY <1>1, OffsetReads
<1>4. PICK h, k :
        h \in [0..N -> Nat] /\ k \in [0..N -> Nat] /\ Loops(h, N, 0, BitsStep(t)) /\ Loops(k, N, 0, AccumStep(N)) /\ w = h[N] + k[N]
  BY <1>1, <1>3 DEF Reads
<1>5. Agree(BitsStep(t), BitsStep(s), 1..n)
  <2>1. ASSUME NEW m \in 1..n PROVE BitsStep(t)[m] = BitsStep(s)[m]
    <3>1. m \in 1..N /\ t[m] = s[m]
      BY <1>1
    <3>2. BitsStep(t)[m] = [acc \in Nat |-> (Radix * acc) + (t[m] % Radix)]
      BY <1>1, <3>1 DEF BitsStep
    <3>3. BitsStep(s)[m] = [acc \in Nat |-> (Radix * acc) + (s[m] % Radix)]
      BY DEF BitsStep, n
    <3> QED
      BY <3>1, <3>2, <3>3
  <2> QED
    BY <2>1 DEF Agree
<1>6. Agree(AccumStep(N), AccumStep(n), 1..n)
  <2>1. \A m \in 1..n : m \in 1..N
    BY <1>1
  <2> QED
    BY <2>1 DEF AccumStep, Agree
<1>7. h[n] = f[n]
  <2>1. Loops(h, N, 0, BitsStep(t)) /\ Loops(f, n, 0, BitsStep(s))
    BY <1>2, <1>4
  <2>2. n \in Nat /\ N \in Nat /\ n <= N
    BY <1>1
  <2> QED
    BY <1>5, <2>1, <2>2, LoopsSame
<1>8. k[n] = g[n]
  <2>1. Loops(k, N, 0, AccumStep(N)) /\ Loops(g, n, 0, AccumStep(n))
    BY <1>2, <1>4
  <2>2. n \in Nat /\ N \in Nat /\ n <= N
    BY <1>1
  <2> QED
    BY <1>6, <2>1, <2>2, LoopsSame
<1>9. N \in 1..N /\ N # 0 /\ N \in 0..N /\ N - 1 = n /\ n \in 0..n /\ ~(N < 2)
  BY <1>1
<1>10. h[N] = BitsStep(t)[N][h[n]] /\ k[N] = AccumStep(N)[N][k[n]]
  <2>1. Loops(h, N, 0, BitsStep(t)) /\ Loops(k, N, 0, AccumStep(N))
    BY <1>4
  <2>2. N \in Nat /\ N \in 0..N /\ N # 0
    BY <1>1, <1>9
  <2>3. h[N] = BitsStep(t)[N][h[N - 1]]
    BY <2>1, <2>2, LoopStep
  <2>4. k[N] = AccumStep(N)[N][k[N - 1]]
    BY <2>1, <2>2, LoopStep
  <2> QED
    BY <1>9, <2>3, <2>4, Zenon
<1>11. f[n] \in Nat /\ g[n] \in Nat
  BY <1>2, <1>9
<1>12. h[N] = (Radix * f[n]) + (d % Radix)
  <2>1. N \in 1..Len(t) /\ t[N] = d /\ t \in Seq(Nat) /\ f[n] \in Nat
    BY <1>1, <1>9, <1>11
  <2>2. BitsStep(t)[N][f[n]] = (Radix * f[n]) + (t[N] % Radix)
    BY <2>1, BitsNat
  <2> QED
    BY <1>7, <1>10, <2>1, <2>2
<1>13. k[N] = g[n] + power[n]
  <2>1. AccumStep(N)[N][g[n]] = IF N < 2 THEN 0 ELSE g[n] + power[N - 1]
    BY <1>1, <1>9, <1>11, AccumNat
  <2> QED
    BY <1>8, <1>9, <1>10, <2>1
<1>14. g[n] + power[n] = Radix * (g[n] + 1)
  <2>1. n \in 1..n
    BY <1>1
  <2> QED
    BY <1>1, <1>2, <2>1, AccumHorner
<1>15. Radix \in Nat /\ d % Radix \in Nat
  BY Digit
<1>16. w = (Radix * (v + 1)) + (d % Radix)
  <2>1. w = ((Radix * f[n]) + (d % Radix)) + Radix * (g[n] + 1)
    BY <1>4, <1>12, <1>13, <1>14, Zenon
  <2>2. ((Radix * f[n]) + (d % Radix)) + Radix * (g[n] + 1) = Radix * ((f[n] + g[n]) + 1) + (d % Radix)
    BY <1>11, <1>15, Horner
  <2> QED
    BY <1>2, <2>1, <2>2, Zenon
<1> QED
  BY <1>3, <1>16 DEF t

LEMMA ReadsOnce ==
    ASSUME NEW b \in Seq(Nat), NEW v, NEW w, Reads(b, v), Reads(b, w)
    PROVE  v = w
<1> DEFINE n == Len(b)
<1>1. n \in Nat /\ n <= n
  OBVIOUS
<1> HIDE DEF n
<1>2. PICK f, g : Loops(f, n, 0, BitsStep(b)) /\ Loops(g, n, 0, AccumStep(n)) /\ v = f[n] + g[n]
  BY DEF Reads, n
<1>3. PICK h, k : Loops(h, n, 0, BitsStep(b)) /\ Loops(k, n, 0, AccumStep(n)) /\ w = h[n] + k[n]
  BY DEF Reads, n
<1>4. \A step : Agree(step, step, 1..n)
  BY DEF Agree
<1>5. f[n] = h[n]
  BY <1>1, <1>2, <1>3, <1>4, LoopsSame
<1>6. g[n] = k[n]
  BY <1>1, <1>2, <1>3, <1>4, LoopsSame
<1> QED
  BY <1>2, <1>3, <1>5, <1>6

LEMMA ReadsDigits ==
    ASSUME NEW x \in Nat, NEW d \in Nat, d % Radix = x % Radix
    PROVE  Reads(Append(offsetDigits[x], d), x)
<1> DEFINE Right(y) == \A c \in Nat : c % Radix = y % Radix => Reads(Append(offsetDigits[y], c), y)
           Wrong == {y \in Nat : ~Right(y)}
<1>1. Radix \in Nat /\ Radix > 1
  BY CodecAssumption
<1>2. ASSUME NEW y \in Nat, y \div Radix = 0 PROVE Right(y)
  <2>1. offsetDigits[y] = <<>> /\ y = y % Radix
    <3>1. y = Radix * (y \div Radix) + (y % Radix) /\ y % Radix \in Nat
      BY Digit
    <3> DEFINE r == y % Radix
    <3>2. r \in Nat /\ y = Radix * 0 + r
      BY <1>2, <3>1
    <3> HIDE DEF r
    <3>3. y = r
      BY <1>1, <3>2
    <3> QED
      BY <1>2, <3>3, DigitsIs DEF r
  <2>2. ASSUME NEW c \in Nat, c % Radix = y % Radix PROVE Reads(Append(<<>>, c), y)
    <3>1. Append(<<>>, c) = <<c>>
      OBVIOUS
    <3> QED
      BY <2>1, <2>2, <3>1, ReadsFirst
  <2> QED
    BY <2>1, <2>2
<1>3. ASSUME NEW y \in Nat, y \div Radix # 0, Right((y \div Radix) - 1) PROVE Right(y)
  <2> DEFINE q == y \div Radix
             z == q - 1
             e == (z % Radix) + Radix
             s == Append(offsetDigits[z], e)
  <2>1. q \in Nat /\ z \in Nat /\ q = z + 1
    <3>1. q \in Nat /\ q # 0 /\ z = q - 1
      BY <1>3, Digit
    <3> HIDE DEF q, z
    <3> QED
      BY <3>1
  <2>2. e \in Nat /\ e % Radix = z % Radix
    BY <2>1, Digit
  <2>3. offsetDigits[z] \in Seq(Nat) /\ s \in Seq(Nat) /\ Len(s) > 0
    BY <2>1, <2>2, DigitsIs
  <2>4. Reads(s, z)
    BY <1>3, <2>2
  <2>5. offsetDigits[y] = s
    <3>1. offsetDigits[y] = offsetDigits[z] \o <<e>>
      BY <1>3, DigitsIs
    <3> HIDE DEF z, e
    <3> QED
      BY <2>2, <2>3, <3>1
  <2>6. y = Radix * q + (y % Radix)
    BY Digit
  <2> HIDE DEF q, z, e, s
  <2>7. ASSUME NEW c \in Nat, c % Radix = y % Radix PROVE Reads(Append(s, c), y)
    <3>1. Reads(Append(s, c), (Radix * (z + 1)) + (c % Radix))
      BY <2>1, <2>3, <2>4, ReadsNext
    <3> QED
      BY <2>1, <2>6, <2>7, <3>1
  <2> QED
    BY <2>5, <2>7
<1>4. \A y \in Nat : Right(y)
  <2>1. SUFFICES ASSUME Wrong # {} PROVE FALSE
    OBVIOUS
  <2> HIDE DEF Right
  <2>2. PICK y \in Wrong : \A z \in Wrong : y <= z
    BY <2>1, LeastNumber
  <2>3. y \in Nat /\ ~Right(y)
    OBVIOUS
  <2>4. y \div Radix # 0
    BY <1>2, <2>3
  <2>5. (y \div Radix) - 1 \in Nat /\ (y \div Radix) - 1 < y
    <3>1. y \div Radix \in Nat /\ (y > 0 => y \div Radix < y) /\ (y < Radix => y \div Radix = 0)
      BY <2>3, Digit
    <3> QED
      BY <1>1, <2>3, <2>4, <3>1
  <2>6. Right((y \div Radix) - 1)
    BY <2>2, <2>5
  <2> QED
    BY <1>3, <2>3, <2>4, <2>6
<1> QED
  BY <1>4

(***************************************************************************)
(* A distance to the base of a delta is read as it was written, unless it  *)
(* is of more bytes than readOffset takes.                                 *)
(***************************************************************************)
THEOREM OffsetRead ==
    ASSUME NEW distance \in Nat, Len(appendOffset(distance)) <= MaxOffsetBytes
    PROVE  readOffset(appendOffset(distance)) = distance
<1> DEFINE d == distance % Radix
           b == Append(offsetDigits[distance], d)
<1>1. d \in Nat /\ d % Radix = distance % Radix
  <2>1. /\ distance % Radix \in 0..Radix - 1 /\ Radix \in Nat /\ Radix > 1
    BY Digit
  <2>2. d \in Nat /\ d < Radix
    BY <2>1
  <2> HIDE DEF d
  <2>3. d % Radix = d
    BY <2>1, <2>2, Digit
  <2> QED
    BY <2>2, <2>3 DEF d
<1>2. offsetDigits[distance] \in Seq(Nat) /\ b \in Seq(Nat)
  BY <1>1, DigitsIs
<1>3. Reads(b, distance)
  BY <1>1, ReadsDigits
<1>4. appendOffset(distance) = b
  <2> HIDE DEF d
  <2>1. appendOffset(distance) = offsetDigits[distance] \o <<d>>
    BY DEF appendOffset, d
  <2> QED
    BY <1>1, <1>2, <2>1
<1> HIDE DEF b
<1>5. PICK v \in Nat : Reads(b, v) /\ readOffset(b) = IF Len(b) > MaxOffsetBytes THEN -1 ELSE v
  BY <1>2, OffsetReads
<1>6. v = distance
  BY <1>2, <1>3, <1>5, ReadsOnce
<1>7. ~(Len(b) > MaxOffsetBytes)
  <2>1. Len(b) \in Nat /\ MaxOffsetBytes \in Nat /\ Len(b) <= MaxOffsetBytes
    BY <1>2, <1>4, CodecAssumption
  <2> QED
    BY <2>1
<1> QED
  BY <1>4, <1>5, <1>6, <1>7

-----------------------------------------------------------------------------
(* What a pack is, from what the caller of its writer meant: the inductive *)
(* invariant.                                                              *)

(* Where object i of the objects m is, and how long.                       *)
Offset(m, i) == m[i].hdr.offset
Size(m, i)   == m[i].hdr.size
Units(m, i)  == m[i].data
Token(m, i)  == ObjectToken(m[i].hdr.offset, m[i].hdr)

(* Tokens up to the end of object i; of the file's header if i is 0.       *)
After(m, i) == IF i = 0 THEN 1 ELSE Offset(m, i) + Size(m, i) + 2

Placed(m, i) ==
    /\ Offset(m, i) = After(m, i - 1)
    /\ Offset(m, i) \in 1..(1 + ((i - 1) * (MaxSize + 2)))
    /\ Size(m, i) \in 0..MaxSize

Described(h) ==
    /\ h = [offset |-> h.offset, type |-> h.type, size |-> h.size, base |-> h.base]
    /\ h.type = "OffsetDelta" => h.base \in 1..(h.offset - 1)
    /\ NonDelta(h.type) => h.base = 0

AllMeant(m) ==
    /\ IsSequence(m) /\ Len(m) <= MaxObjects
    /\ \A i \in 1..Len(m) :
         /\ Placed(m, i)
         /\ Described(m[i].hdr)
         /\ IsSequence(Units(m, i)) /\ Len(Units(m, i)) = Size(m, i)

(* f has of object i its header and k units of its data, or all of it.     *)
Begun(m, f, i, k) ==
    /\ Offset(m, i) + 1 + k <= Len(f)
    /\ f[Offset(m, i) + 1] = Token(m, i)
    /\ \A j \in 1..k : f[Offset(m, i) + 1 + j] = DataToken(Units(m, i)[j])

Ended(m, f, i) ==
    /\ Begun(m, f, i, Size(m, i))
    /\ After(m, i) <= Len(f)
    /\ f[After(m, i)] = EndToken

IsWriter(w) ==
    w \in [left : Nat, remaining : Nat, open : BOOLEAN, extra : BOOLEAN, closed : BOOLEAN]

(* The file has no more than what was asked for, unless a header too many  *)
(* was.                                                                    *)
Exact(m, f, w) ==
    LET n == Len(m)
    IN  IF w.closed
          THEN Len(f) = After(m, n) + 1 /\ f[Len(f)] = SumToken(SubSeq(f, 1, After(m, n)))
        ELSE IF n = 0 THEN w.remaining = 0 /\ Len(f) <= 1
        ELSE /\ w.remaining <= Size(m, n)
             /\ Len(f) = After(m, n) - 1 - w.remaining
             /\ Begun(m, f, n, Size(m, n) - w.remaining)

WrittenSoFar(m, f, w) ==
    LET n == Len(m)
    IN  /\ IsSequence(f)
        /\ IsWriter(w)
        /\ w.left + n <= MaxObjects
        /\ w.open <=> n > 0
        /\ \A i \in 1..n : i # n \/ w.closed \/ w.extra => Ended(m, f, i)
        /\ f # <<>> => f[1] = HeadToken(w.left + n)
        /\ f = <<>> => n = 0 /\ ~ w.closed /\ ~ w.extra
        /\ w.closed \/ w.extra => w.left = 0 /\ w.remaining = 0 /\ After(m, n) <= Len(f)
        /\ ~ w.extra => Exact(m, f, w)

(* The size in the header of object i, which is right in a file as it was  *)
(* sent.                                                                   *)
SizeTold(m, f, i) == readLengthType(f[Offset(m, i) + 1].size)
Sound(m, f, i) == SizeTold(m, f, i) = Size(m, i)

(* What came of object i, as far as it came.                               *)
HeaderCame(m, f, i) ==
    LET t == f[Offset(m, i) + 1]
    IN  t.kind = "object" /\ t.type = Token(m, i).type /\ t.base = Token(m, i).base
          /\ SizeTold(m, f, i) \in Nat

Came(m, f, i) ==
    /\ Offset(m, i) < Len(f) => HeaderCame(m, f, i)
    /\ \A j \in 1..Size(m, i) :
         Offset(m, i) + 1 + j <= Len(f) => f[Offset(m, i) + 1 + j] = DataToken(Units(m, i)[j])
    /\ After(m, i) <= Len(f) => f[After(m, i)] = EndToken

WholeFile(m, f) ==
    /\ Len(f) = After(m, Len(m)) + 1
    /\ f[Len(f)] = SumToken(SubSeq(f, 1, After(m, Len(m))))
    /\ \A i \in 1..Len(m) : Sound(m, f, i) /\ After(m, i) <= Len(f)

Arrived(m, f, s, w) ==
    /\ IsSequence(f)
    /\ Len(f) > 0 => f[1] = HeadToken(Len(m))
    /\ \A i \in 1..Len(m) : Came(m, f, i)
    /\ f = s /\ ~ w.extra => WholeFile(m, f)
    /\ f # s /\ ~ w.extra => \/ Len(f) <= After(m, Len(m))
                             \/ \E i \in 1..Len(m) : ~ Sound(m, f, i)

(* What the reader's caller got of object i.                               *)
HeaderSeen(m, f, h, i) ==
    h = [offset |-> Offset(m, i), type |-> m[i].hdr.type, size |-> SizeTold(m, f, i),
         base |-> m[i].hdr.base]

DataSeen(m, d, i) ==
    /\ IsSequence(d) /\ Len(d) <= Size(m, i)
    /\ \A j \in 1..Len(d) : d[j] = Units(m, i)[j]

Got(m, f, g, i) ==
    /\ g \in [hdr : {g.hdr}, data : {g.data}, ended : BOOLEAN]
    /\ Offset(m, i) < Len(f)
    /\ HeaderSeen(m, f, g.hdr, i)
    /\ DataSeen(m, g.data, i)
    /\ g.ended => Len(g.data) = Size(m, i) /\ Sound(m, f, i)

(* Where the reader is in object i, the last it saw.                       *)
InData(m, f, g, r, i) ==
    LET n == r.at - (Offset(m, i) + 1)
    IN  /\ r.z = "open"
        /\ n \in 0..Size(m, i)
        /\ r.remaining = SizeTold(m, f, i) - n
        /\ r.remaining >= 0 => Len(g.data) = n

PastData(m, f, g, r, i) ==
    /\ r.z = "ended"
    /\ r.at = After(m, i)
    /\ r.remaining = SizeTold(m, f, i) - Size(m, i)
    /\ r.remaining >= 0 => Len(g.data) = Size(m, i)

Inside(m, f, g, r, i) ==
    /\ r.left = Len(m) - i
    /\ r.at <= Len(f)
    /\ InData(m, f, g, r, i) \/ PastData(m, f, g, r, i)

Bad(m, f, i) == ~ Sound(m, f, i) \/ Len(f) < After(m, i)

Idle(s, r, d) ==
    s = <<>> /\ d \notin {"EOF", "error", "bad object"} /\ r.at = 0 /\ r.z = "none"

AtObject(m, f, s, r, d) ==
    IF Len(s) = 0 THEN Idle(s, r, d)
    ELSE /\ Inside(m, f, s[Len(s)], r, Len(s))
         /\ d = "bad object" => Bad(m, f, Len(s))

AtEnd(m, f, s, r) ==
    /\ Len(s) = Len(m)
    /\ \A j \in 1..Len(m) : Sound(m, f, j)
    /\ r.at = After(m, Len(m)) + 1
    /\ r.at <= Len(f)

AllGot(m, f, s) ==
    /\ IsSequence(s) /\ Len(s) <= Len(m)
    /\ \A j \in 1..Len(s) : Got(m, f, s[j], j)
    /\ \A j \in 1..Len(s) : j # Len(s) => Sound(m, f, j)

IsReader(r) ==
    r \in [at : Nat, left : Nat, z : {"none", "open", "ended"}, remaining : Int]

PackInv ==
    /\ AllMeant(meant)
    /\ IsReader(reader)
    /\ phase \in {"writing", "serial", "random"}
    /\ phase # "serial" => Idle(seen, reader, said)
    /\ phase = "writing" => WrittenSoFar(meant, file, writer)
    /\ phase = "serial" =>
         /\ Arrived(meant, file, sent, writer)
         /\ AllGot(meant, file, seen)
         /\ said \notin {"error", "EOF"} => AtObject(meant, file, seen, reader, said)
         /\ said = "error" => file # sent \/ writer.extra
         /\ said = "EOF" => AtEnd(meant, file, seen, reader)

-----------------------------------------------------------------------------
(* Parts of sequences, and the places of the objects.                      *)

LEMMA PartOf ==
    ASSUME NEW S, NEW s \in Seq(S), NEW a \in Nat, NEW n \in Nat, a + n <= Len(s)
    PROVE  /\ SubSeq(s, a + 1, a + n) \in Seq(S) /\ Len(SubSeq(s, a + 1, a + n)) = n
           /\ \A i \in 1..n : SubSeq(s, a + 1, a + n)[i] = s[a + i]
<1> DEFINE b == a + 1
           e == a + n
<1>1. b \in Nat /\ e \in Nat /\ b >= 1 /\ e <= Len(s) /\ e = b + n - 1
  OBVIOUS
<1>2. \A i \in 1..n : b + i - 1 = a + i /\ b + i - 1 \in b..e
  OBVIOUS
<1> HIDE DEF b, e
<1>3. SubSeq(s, b, e) \in Seq(S) /\ Len(SubSeq(s, b, e)) = n
  BY <1>1
<1>4. \A i \in 1..n : SubSeq(s, b, e)[i] = s[b + i - 1]
  BY <1>1
<1> QED
  BY <1>2, <1>3, <1>4 DEF b, e

LEMMA PartAt ==
    ASSUME NEW s, IsSequence(s), NEW a \in Nat, NEW n \in Nat, a + n <= Len(s)
    PROVE  LET p == SubSeq(s, a + 1, a + n)
           IN  IsSequence(p) /\ Len(p) = n /\ \A i \in 1..n : p[i] = s[a + i]
<1> DEFINE S == {s[i] : i \in 1..Len(s)}
<1>1. \A i \in 1..Len(s) : s[i] \in S
  OBVIOUS
<1> HIDE DEF S
<1>2. s \in Seq(S)
  BY <1>1, InSet
<1> QED
  BY <1>2, PartOf, SequencesAre

LEMMA StartAt ==
    ASSUME NEW s, IsSequence(s), NEW n \in Nat, n <= Len(s)
    PROVE  LET p == SubSeq(s, 1, n)
           IN  IsSequence(p) /\ Len(p) = n /\ \A i \in 1..n : p[i] = s[i]
<1>1. 0 + 1 = 1 /\ 0 + n = n /\ \A i \in 1..n : 0 + i = i
  OBVIOUS
<1>2. 0 \in Nat /\ 0 + n <= Len(s)
  BY <1>1
<1>3. LET p == SubSeq(s, 0 + 1, 0 + n)
      IN  IsSequence(p) /\ Len(p) = n /\ \A i \in 1..n : p[i] = s[0 + i]
  BY <1>2, PartAt
<1> DEFINE p == SubSeq(s, 1, n)
<1>4. IsSequence(p) /\ Len(p) = n /\ \A i \in 1..n : p[i] = s[0 + i]
  <2>1. SubSeq(s, 0 + 1, 0 + n) = p
    BY <1>1
  <2> QED
    BY <1>3, <2>1, Zenon
<1> HIDE DEF p
<1>5. \A i \in 1..n : p[i] = s[i]
  BY <1>1, <1>4
<1> QED
  BY <1>4, <1>5 DEF p

LEMMA StartOfAppend ==
    ASSUME NEW s, NEW x, IsSequence(s)
    PROVE  SubSeq(Append(s, x), 1, Len(s)) = s
<1> DEFINE t == Append(s, x)
           n == Len(s)
           p == SubSeq(t, 1, n)
<1>1. IsSequence(t) /\ Len(t) = n + 1 /\ n \in Nat /\ \A i \in 1..n : t[i] = s[i]
  BY AppendAt, Lengths
<1> HIDE DEF t, n
<1>2. IsSequence(p) /\ Len(p) = n /\ \A i \in 1..n : p[i] = t[i]
  <2>1. n <= Len(t)
    BY <1>1
  <2> QED
    BY <1>1, <2>1, StartAt
<1> HIDE DEF p
<1>3. p = s
  BY <1>1, <1>2, SameSequence DEF n
<1> QED
  BY <1>3 DEF p, t, n

(* The places of the objects.                                              *)
LEMMA Farther ==
    ASSUME NEW k \in Nat, NEW i \in Nat, i > 0, NEW size \in Nat, size <= k,
           NEW o \in Nat, o <= 1 + ((i - 1) * (k + 2))
    PROVE  o + size + 2 <= 1 + (i * (k + 2))
<1>1. (i - 1) * (k + 2) + (k + 2) = i * (k + 2)
  OBVIOUS
<1> DEFINE a == (i - 1) * (k + 2)
           b == i * (k + 2)
<1>2. a \in Nat /\ b \in Nat /\ a + (k + 2) = b /\ o <= 1 + a
  <2>1. i - 1 \in Nat /\ k + 2 \in Nat
    OBVIOUS
  <2> QED
    BY <1>1, <2>1
<1> HIDE DEF a, b
<1>3. o + size + 2 <= 1 + b
  BY <1>2
<1> QED
  BY <1>3 DEF b

LEMMA Place ==
    ASSUME NEW m, AllMeant(m), NEW i \in 1..Len(m)
    PROVE  /\ Len(m) \in Nat /\ i - 1 \in Nat
           /\ Offset(m, i) \in Nat /\ Offset(m, i) >= 1
           /\ Size(m, i) \in Nat /\ Size(m, i) <= MaxSize
           /\ Offset(m, i) = After(m, i - 1)
           /\ After(m, i) = Offset(m, i) + Size(m, i) + 2
           /\ After(m, i) \in Nat
           /\ Offset(m, i) <= 1 + ((i - 1) * (MaxSize + 2))
           /\ IsSequence(Units(m, i)) /\ Len(Units(m, i)) = Size(m, i)
           /\ Described(m[i].hdr)
<1>1. Len(m) \in Nat /\ MaxSize \in Nat
  BY StreamAssumption DEF AllMeant, IsSequence
<1>2. /\ Placed(m, i) /\ Described(m[i].hdr)
      /\ IsSequence(Units(m, i)) /\ Len(Units(m, i)) = Size(m, i)
  BY DEF AllMeant
<1>3. i \in Nat /\ i # 0 /\ i - 1 \in Nat
  BY <1>1
<1> DEFINE bound == (i - 1) * (MaxSize + 2)
<1>4. bound \in Nat
  BY <1>1, <1>3
<1>5. /\ Offset(m, i) = After(m, i - 1) /\ Offset(m, i) \in 1..(1 + bound)
      /\ Size(m, i) \in 0..MaxSize
  BY <1>2 DEF Placed
<1>6. After(m, i) = Offset(m, i) + Size(m, i) + 2
  BY <1>3 DEF After
<1> HIDE DEF bound
<1>7. /\ Offset(m, i) \in Nat /\ Offset(m, i) >= 1 /\ Offset(m, i) <= 1 + bound
      /\ Size(m, i) \in Nat /\ Size(m, i) <= MaxSize
  BY <1>1, <1>4, <1>5
<1>8. After(m, i) \in Nat
  BY <1>6, <1>7
<1> QED
  BY <1>1, <1>2, <1>3, <1>5, <1>6, <1>7, <1>8 DEF bound

LEMMA AfterAll ==
    ASSUME NEW m, AllMeant(m), NEW i \in 0..Len(m)
    PROVE  /\ After(m, i) \in Nat /\ After(m, i) >= 1
           /\ After(m, i) <= 1 + (i * (MaxSize + 2))
<1>1. Len(m) \in Nat /\ MaxSize \in Nat
  BY StreamAssumption DEF AllMeant, IsSequence
<1>2. CASE i = 0
  BY <1>1, <1>2 DEF After
<1>3. CASE i # 0
  <2>1. i \in 1..Len(m) /\ i \in Nat /\ i > 0
    BY <1>1, <1>3
  <2>2. /\ Offset(m, i) \in Nat /\ Size(m, i) \in Nat /\ Size(m, i) <= MaxSize
        /\ After(m, i) = Offset(m, i) + Size(m, i) + 2
        /\ Offset(m, i) <= 1 + ((i - 1) * (MaxSize + 2))
    BY <2>1, Place
  <2>3. After(m, i) <= 1 + (i * (MaxSize + 2))
    BY <1>1, <2>1, <2>2, Farther
  <2> QED
    BY <2>2, <2>3
<1> QED
  BY <1>2, <1>3

(* Objects meant after those of m are none of theirs.                      *)
LEMMA MeantKept ==
    ASSUME NEW m, AllMeant(m), NEW x, NEW i \in 1..Len(m)
    PROVE  LET q == Append(m, x)
           IN  /\ q[i] = m[i] /\ Offset(q, i) = Offset(m, i) /\ Size(q, i) = Size(m, i)
               /\ Units(q, i) = Units(m, i) /\ Token(q, i) = Token(m, i)
               /\ After(q, i) = After(m, i) /\ After(q, i - 1) = After(m, i - 1)
<1> DEFINE q == Append(m, x)
<1>1. IsSequence(m)
  BY DEF AllMeant
<1>2. \A j \in 1..Len(m) : q[j] = m[j]
  BY <1>1, AppendAt
<1>3. Len(m) \in Nat
  BY <1>1, Lengths
<1> HIDE DEF q
<1>4. \A j \in 1..Len(m) : Offset(q, j) = Offset(m, j) /\ Size(q, j) = Size(m, j)
  BY <1>2 DEF Offset, Size
<1>5. Units(q, i) = Units(m, i) /\ Token(q, i) = Token(m, i)
  BY <1>2 DEF Units, Token
<1>6. \A j \in 0..Len(m) : After(q, j) = After(m, j)
  <2>1. \A j \in 0..Len(m) : j = 0 \/ j \in 1..Len(m)
    BY <1>3
  <2> QED
    BY <1>4, <2>1 DEF After
<1>7. i \in 0..Len(m) /\ i - 1 \in 0..Len(m)
  BY <1>3
<1> QED
  BY <1>2, <1>4, <1>5, <1>6, <1>7 DEF q

-----------------------------------------------------------------------------
(* The writer: whatever the pieces in which it gets the data, the objects  *)
(* are where it says they are.                                             *)

(* g goes on where f ends.                                                 *)
Kept(f, g) ==
    /\ IsSequence(f) /\ IsSequence(g) /\ Len(f) <= Len(g)
    /\ \A j \in 1..Len(f) : g[j] = f[j]

LEMMA KeptByAppend == ASSUME NEW f, NEW x, IsSequence(f) PROVE Kept(f, Append(f, x))
<1>1. Len(f) \in Nat
  BY Lengths
<1> QED
  BY <1>1, AppendAt DEF Kept

LEMMA BegunKept ==
    ASSUME NEW m, AllMeant(m), NEW i \in 1..Len(m), NEW f, NEW g, Kept(f, g),
           NEW k \in Nat, Begun(m, f, i, k)
    PROVE  Begun(m, g, i, k)
<1>1. Offset(m, i) \in Nat /\ Len(f) \in Nat /\ Len(g) \in Nat
  BY Place, Lengths DEF Kept
<1>2. Offset(m, i) + 1 + k <= Len(f) /\ Len(f) <= Len(g) /\ \A j \in 1..Len(f) : g[j] = f[j]
  BY DEF Begun, Kept
<1>3. Offset(m, i) + 1 \in 1..Len(f)
  BY <1>1, <1>2
<1>4. \A j \in 1..k : Offset(m, i) + 1 + j \in 1..Len(f)
  BY <1>1, <1>2
<1>5. Offset(m, i) + 1 + k <= Len(g)
  BY <1>1, <1>2
<1> QED
  BY <1>2, <1>3, <1>4, <1>5 DEF Begun

LEMMA EndedKept ==
    ASSUME NEW m, AllMeant(m), NEW i \in 1..Len(m), NEW f, NEW g, Kept(f, g), Ended(m, f, i)
    PROVE  Ended(m, g, i)
<1>1. /\ Size(m, i) \in Nat /\ After(m, i) \in Nat /\ After(m, i) >= 1
      /\ Len(f) \in Nat /\ Len(g) \in Nat
  <2>1. /\ Offset(m, i) \in Nat /\ Size(m, i) \in Nat
        /\ After(m, i) = Offset(m, i) + Size(m, i) + 2
    BY Place
  <2> QED
    BY <2>1, Lengths DEF Kept
<1>2. Begun(m, g, i, Size(m, i))
  BY <1>1, BegunKept DEF Ended
<1>3. /\ After(m, i) <= Len(f) /\ f[After(m, i)] = EndToken
      /\ Len(f) <= Len(g) /\ \A j \in 1..Len(f) : g[j] = f[j]
  BY DEF Ended, Kept
<1>4. After(m, i) \in 1..Len(f) /\ After(m, i) <= Len(g)
  BY <1>1, <1>3
<1> QED
  BY <1>2, <1>3, <1>4 DEF Ended

LEMMA EndedMore ==
    ASSUME NEW m, AllMeant(m), NEW i \in 1..Len(m), NEW x, NEW f, Ended(m, f, i)
    PROVE  Ended(Append(m, x), f, i)
<1> DEFINE q == Append(m, x)
<1>1. /\ Offset(q, i) = Offset(m, i) /\ Size(q, i) = Size(m, i)
      /\ Units(q, i) = Units(m, i) /\ Token(q, i) = Token(m, i) /\ After(q, i) = After(m, i)
  BY MeantKept
<1> HIDE DEF q
<1>2. Ended(q, f, i)
  BY <1>1 DEF Ended, Begun
<1> QED
  BY <1>2 DEF q

LEMMA FileHeader ==
    ASSUME AllMeant(meant), WrittenSoFar(meant, file, writer)
    PROVE  LET f == WithFileHeader
               n == Len(meant)
           IN  /\ IsSequence(f) /\ Len(f) \in Nat /\ Len(f) >= 1
               /\ f[1] = HeadToken(writer.left + n)
               /\ n > 0 \/ writer.extra => f = file
               /\ n = 0 /\ ~ writer.extra /\ ~ writer.closed => Len(f) = 1
<1> DEFINE f == WithFileHeader
           n == Len(meant)
<1>1. n \in Nat /\ IsSequence(file) /\ writer.left \in Nat
  BY Lengths DEF AllMeant, WrittenSoFar, IsWriter
<1>2. /\ file # <<>> => file[1] = HeadToken(writer.left + n)
      /\ file = <<>> => n = 0 /\ ~ writer.extra
  BY DEF WrittenSoFar
<1>3. n = 0 /\ ~ writer.extra /\ ~ writer.closed => Len(file) <= 1
  BY DEF WrittenSoFar, Exact
<1> HIDE DEF n
<1>4. CASE file = <<>>
  <2>1. f = <<HeadToken(writer.left)>>
    BY <1>4 DEF WithFileHeader
  <2>2. IsSequence(f) /\ Len(f) = 1 /\ f[1] = HeadToken(writer.left)
    BY <2>1, Singleton
  <2>3. n = 0 /\ ~ writer.extra /\ writer.left + 0 = writer.left
    BY <1>1, <1>2, <1>4
  <2> HIDE DEF f
  <2> QED
    BY <2>2, <2>3 DEF f, n
<1>5. CASE file # <<>>
  <2>1. f = file
    BY <1>5 DEF WithFileHeader
  <2>2. Len(file) \in Nat /\ Len(file) # 0
    BY <1>1, <1>5, NoneLeft, Lengths
  <2>3. ASSUME n = 0, ~ writer.extra, ~ writer.closed PROVE Len(file) = 1
    <3>1. Len(file) <= 1
      BY <1>3, <2>3
    <3> QED
      BY <2>2, <3>1
  <2> HIDE DEF f
  <2> QED
    BY <1>1, <1>2, <1>5, <2>1, <2>2, <2>3 DEF f, n
<1> QED
  BY <1>4, <1>5

(* What the file is when the stream of the object before is ended.         *)
Bodied(m, f, w) ==
    /\ IsSequence(f) /\ Len(f) \in Nat /\ Len(f) >= 1
    /\ f[1] = HeadToken(w.left + Len(m))
    /\ After(m, Len(m)) <= Len(f)
    /\ \A i \in 1..Len(m) : Ended(m, f, i)
    /\ ~ w.extra => Len(f) = After(m, Len(m))

LEMMA Body ==
    ASSUME AllMeant(meant), WrittenSoFar(meant, file, writer), ~ writer.closed,
           writer.remaining = 0
    PROVE  Bodied(meant, PreviousEnded(WithFileHeader), writer)
<1> DEFINE f == WithFileHeader
           n == Len(meant)
           b == PreviousEnded(f)
<1>1. /\ IsSequence(f) /\ Len(f) \in Nat /\ Len(f) >= 1
      /\ f[1] = HeadToken(writer.left + n)
      /\ n > 0 \/ writer.extra => f = file
      /\ n = 0 /\ ~ writer.extra => Len(f) = 1
  BY FileHeader
<1>2. n \in Nat
  BY Lengths DEF AllMeant
<1>3. writer.open <=> n > 0
  BY DEF WrittenSoFar
<1>4. \A i \in 1..n : i # n \/ writer.extra => Ended(meant, file, i)
  BY DEF WrittenSoFar
<1>5. writer.extra => After(meant, n) <= Len(file)
  BY DEF WrittenSoFar
<1>6. n # 0 /\ ~ writer.extra =>
        Len(file) = After(meant, n) - 1 - 0 /\ Begun(meant, file, n, Size(meant, n) - 0)
  BY DEF WrittenSoFar, Exact
<1> HIDE DEF f, n
<1>7. CASE n = 0
  <2>1. b = f
    BY <1>3, <1>7 DEF PreviousEnded
  <2>2. After(meant, n) = 1 /\ \A i \in 1..n : FALSE
    BY <1>7 DEF After
  <2>3. Bodied(meant, f, writer)
    BY <1>1, <1>7, <2>2 DEF Bodied, n
  <2> QED
    BY <2>1, <2>3 DEF f
<1>8. CASE n # 0
  <2>1. b = Append(file, EndToken) /\ f = file
    BY <1>1, <1>2, <1>3, <1>8 DEF PreviousEnded
  <2> HIDE DEF b
  <2>2. /\ IsSequence(b) /\ Len(b) = Len(file) + 1 /\ b[Len(file) + 1] = EndToken
        /\ b[1] = file[1] /\ Kept(file, b) /\ Len(file) \in Nat /\ Len(b) \in Nat /\ Len(b) >= 1
    <3>1. 1 \in 1..Len(file)
      BY <1>1, <2>1
    <3> QED
      BY <1>1, <2>1, <3>1, AppendAt, KeptByAppend
  <2>3. n \in 1..Len(meant)
    BY <1>2, <1>8 DEF n
  <2>4. /\ Size(meant, n) \in Nat /\ After(meant, n) \in Nat
    BY <2>3, Place
  <2>5. ASSUME NEW i \in 1..n, i # n \/ writer.extra PROVE Ended(meant, b, i)
    <3>1. i \in 1..Len(meant) /\ Ended(meant, file, i)
      BY <1>4, <2>5 DEF n
    <3> QED
      BY <2>2, <3>1, EndedKept
  <2>6. ASSUME ~ writer.extra PROVE Len(b) = After(meant, n) /\ Ended(meant, b, n)
    <3>1. Size(meant, n) - 0 = Size(meant, n) /\ Len(file) = After(meant, n) - 1 - 0
      BY <1>6, <1>8, <2>4, <2>6
    <3>2. Begun(meant, file, n, Size(meant, n))
      BY <1>6, <1>8, <2>6, <3>1
    <3>3. Begun(meant, b, n, Size(meant, n))
      BY <2>2, <2>3, <2>4, <3>2, BegunKept
    <3>4. Len(file) + 1 = After(meant, n) /\ After(meant, n) <= Len(b)
      BY <2>2, <2>4, <3>1
    <3> QED
      BY <2>2, <3>3, <3>4 DEF Ended
  <2>7. After(meant, n) <= Len(b)
    BY <1>5, <2>2, <2>4, <2>6
  <2>8. \A i \in 1..n : Ended(meant, b, i)
    BY <2>5, <2>6
  <2>9. Bodied(meant, b, writer)
    BY <1>1, <2>1, <2>2, <2>6, <2>7, <2>8 DEF Bodied, n
  <2> QED
    BY <2>9 DEF b, f
<1> QED
  BY <1>7, <1>8

LEMMA StillWriting ==
    ASSUME PackInv, phase = "writing", UNCHANGED <<phase, reader, seen, said>>,
           AllMeant(meant'), WrittenSoFar(meant', file', writer')
    PROVE  PackInv'
<1>1. Idle(seen, reader, said) /\ IsReader(reader)
  BY DEF PackInv
<1>2. IsReader(reader') /\ Idle(seen', reader', said') /\ phase' = "writing"
  BY <1>1
<1> QED
  BY <1>2 DEF PackInv

LEMMA HeaderMeant ==
    ASSUME NEW m, AllMeant(m), Len(m) < MaxObjects,
           NEW h, NEW d, Described(h), h.offset = After(m, Len(m)), h.size = Len(d),
           IsSequence(d), Len(d) <= MaxSize
    PROVE  LET q == Append(m, [hdr |-> h, data |-> d])
               n == Len(m) + 1
           IN  /\ AllMeant(q) /\ Len(q) = n
               /\ Offset(q, n) = h.offset /\ Size(q, n) = Len(d) /\ Units(q, n) = d
               /\ Token(q, n) = ObjectToken(h.offset, h)
               /\ After(q, n) = h.offset + Len(d) + 2
<1> DEFINE q == Append(m, [hdr |-> h, data |-> d])
           n == Len(m) + 1
<1>1. /\ IsSequence(q) /\ Len(q) = n /\ q[n] = [hdr |-> h, data |-> d]
      /\ Len(m) \in Nat /\ n \in Nat /\ n # 0 /\ n - 1 = Len(m) /\ MaxObjects \in Nat
      /\ Len(d) \in Nat /\ MaxSize \in Nat
  <2>1. IsSequence(m) /\ Len(m) \in Nat
    BY Lengths DEF AllMeant
  <2> QED
    BY <2>1, AppendAt, Lengths, StreamAssumption
<1>2. \A i \in 1..Len(m) :
        /\ q[i] = m[i] /\ Offset(q, i) = Offset(m, i) /\ Size(q, i) = Size(m, i)
        /\ Units(q, i) = Units(m, i) /\ Token(q, i) = Token(m, i)
        /\ After(q, i) = After(m, i) /\ After(q, i - 1) = After(m, i - 1)
  BY MeantKept
<1> HIDE DEF q, n
<1>3. q[n].hdr = h /\ q[n].data = d
  BY <1>1
<1>4. /\ Offset(q, n) = h.offset /\ Size(q, n) = Len(d) /\ Units(q, n) = d
      /\ Token(q, n) = ObjectToken(h.offset, h)
  BY <1>3 DEF Offset, Size, Units, Token
<1>5. After(q, n) = h.offset + Len(d) + 2
  BY <1>1, <1>4 DEF After
<1>6. After(q, n - 1) = After(m, n - 1)
  <2>1. CASE Len(m) = 0
    BY <1>1, <2>1 DEF After
  <2>2. CASE Len(m) # 0
    <3>1. Len(m) \in 1..Len(m)
      BY <1>1, <2>2
    <3> QED
      BY <1>1, <1>2, <3>1
  <2> QED
    BY <2>1, <2>2
<1>7. Placed(q, n)
  <2>1. /\ After(m, Len(m)) \in Nat /\ After(m, Len(m)) >= 1
        /\ After(m, Len(m)) <= 1 + (Len(m) * (MaxSize + 2))
    <3>1. Len(m) \in 0..Len(m)
      BY <1>1
    <3> QED
      BY <3>1, AfterAll
  <2>2. Len(m) * (MaxSize + 2) = (n - 1) * (MaxSize + 2)
    BY <1>1
  <2> DEFINE bound == (n - 1) * (MaxSize + 2)
  <2>3. bound \in Nat
    BY <1>1
  <2>4. h.offset \in Nat /\ h.offset >= 1 /\ h.offset <= 1 + bound
    BY <2>1, <2>2
  <2> HIDE DEF bound
  <2>5. h.offset \in 1..(1 + bound)
    BY <2>3, <2>4
  <2>6. Len(d) \in 0..MaxSize
    BY <1>1
  <2> QED
    BY <1>1, <1>4, <1>6, <2>5, <2>6 DEF Placed, bound
<1>8. ASSUME NEW i \in 1..Len(m) PROVE Placed(q, i) /\ Described(q[i].hdr)
        /\ IsSequence(Units(q, i)) /\ Len(Units(q, i)) = Size(q, i)
  <2>1. Placed(m, i) /\ Described(m[i].hdr)
        /\ IsSequence(Units(m, i)) /\ Len(Units(m, i)) = Size(m, i)
    BY DEF AllMeant
  <2> QED
    BY <1>2, <2>1 DEF Placed
<1>9. \A i \in 1..n : i \in 1..Len(m) \/ i = n
  BY <1>1 DEF n
<1>10. Len(q) <= MaxObjects
  BY <1>1 DEF n
<1>11. AllMeant(q)
  BY <1>1, <1>3, <1>4, <1>7, <1>8, <1>9, <1>10 DEF AllMeant
<1> QED
  BY <1>1, <1>4, <1>5, <1>11 DEF q, n

LEMMA HeaderWritten ==
    ASSUME NEW m, AllMeant(m), NEW w, IsWriter(w), NEW b, Bodied(m, b, w),
           ~ w.extra, ~ w.closed, w.left > 0, w.left + Len(m) <= MaxObjects,
           NEW h, NEW d, Described(h), h.offset = Len(b), h.size = Len(d),
           IsSequence(d), Len(d) <= MaxSize
    PROVE  LET q == Append(m, [hdr |-> h, data |-> d])
               g == Append(b, ObjectToken(Len(b), h))
               v == [w EXCEPT !.left = @ - 1, !.open = TRUE, !.remaining = h.size]
           IN  AllMeant(q) /\ WrittenSoFar(q, g, v)
<1> DEFINE q == Append(m, [hdr |-> h, data |-> d])
           g == Append(b, ObjectToken(Len(b), h))
           v == [w EXCEPT !.left = @ - 1, !.open = TRUE, !.remaining = h.size]
           n == Len(m) + 1
<1>1. /\ Len(m) \in Nat /\ n \in Nat /\ n # 0 /\ n > 0 /\ MaxObjects \in Nat
      /\ Len(d) \in Nat /\ w.left \in Nat /\ Len(b) \in Nat
  BY Lengths, StreamAssumption DEF AllMeant, IsWriter, Bodied
<1>2. IsSequence(b) /\ Len(b) >= 1 /\ b[1] = HeadToken(w.left + Len(m))
      /\ Len(b) = After(m, Len(m)) /\ \A i \in 1..Len(m) : Ended(m, b, i)
  BY DEF Bodied
<1>3. /\ AllMeant(q) /\ Len(q) = n
      /\ Offset(q, n) = Len(b) /\ Size(q, n) = Len(d) /\ Units(q, n) = d
      /\ Token(q, n) = ObjectToken(Len(b), h)
      /\ After(q, n) = Len(b) + Len(d) + 2
  <2>1. Len(m) < MaxObjects
    BY <1>1
  <2> QED
    BY <1>2, <2>1, HeaderMeant
<1>4. /\ IsSequence(g) /\ Len(g) = Len(b) + 1 /\ g[Len(b) + 1] = ObjectToken(Len(b), h)
      /\ g[1] = b[1] /\ Kept(b, g)
  <2>1. 1 \in 1..Len(b)
    BY <1>1, <1>2
  <2> QED
    BY <1>2, <2>1, AppendAt, KeptByAppend
<1>5. /\ v.left = w.left - 1 /\ v.open = TRUE /\ v.remaining = Len(d) /\ ~ v.extra /\ ~ v.closed
      /\ IsWriter(v)
  <2>1. w.left - 1 \in Nat /\ h.size = Len(d) /\ h.size \in Nat
    BY <1>1
  <2> QED
    BY <2>1 DEF IsWriter
<1>6. ASSUME NEW i \in 1..Len(m) PROVE Ended(q, g, i)
  <2>1. Ended(m, g, i)
    BY <1>2, <1>4, EndedKept
  <2> QED
    BY <2>1, EndedMore
<1>7. n = Len(m) + 1
  OBVIOUS
<1> HIDE DEF q, g, v, n
<1>8. /\ Size(q, n) = Len(d) /\ After(q, n) = Len(b) + Len(d) + 2 /\ Offset(q, n) = Len(b)
      /\ Len(g) = Len(b) + 1 /\ v.remaining = Len(d) /\ v.left = w.left - 1
  BY <1>3, <1>4, <1>5
<1>9. Begun(q, g, n, Size(q, n) - v.remaining)
  <2>1. Size(q, n) - v.remaining = 0
    BY <1>1, <1>8
  <2>2. Offset(q, n) + 1 + 0 <= Len(g) /\ \A j \in 1..0 : FALSE
    BY <1>1, <1>8
  <2>3. Begun(q, g, n, 0)
    BY <1>3, <1>4, <2>2 DEF Begun
  <2> QED
    BY <2>1, <2>3
<1>10. v.left + n = w.left + Len(m) /\ v.left + n <= MaxObjects
  <2>1. \A l, k \in Nat : (l - 1) + (k + 1) = l + k
    OBVIOUS
  <2>2. (w.left - 1) + (Len(m) + 1) = w.left + Len(m)
    BY <1>1, <2>1
  <2> QED
    BY <1>8, <1>7, <2>2
<1>11. Exact(q, g, v)
  <2>1. v.remaining <= Size(q, n) /\ Len(g) = After(q, n) - 1 - v.remaining
    BY <1>1, <1>8
  <2> QED
    BY <1>1, <1>3, <1>5, <1>9, <2>1 DEF Exact
<1>12. g # <<>>
  BY <1>1, <1>4, EmptySequence
<1>13. \A i \in 1..n : i # n => Ended(q, g, i)
  <2>1. \A l \in Nat : \A i \in 1..(l + 1) : i # l + 1 => i \in 1..l
    OBVIOUS
  <2>2. \A i \in 1..n : i # n => i \in 1..Len(m)
    BY <1>1, <1>7, <2>1
  <2> QED
    BY <1>6, <2>2
<1>14. WrittenSoFar(q, g, v)
  BY <1>1, <1>2, <1>3, <1>4, <1>5, <1>10, <1>11, <1>12, <1>13 DEF WrittenSoFar
<1> QED
  BY <1>3, <1>14 DEF q, g, v, n

LEMMA WritingIs ==
    ASSUME PackInv, Writing
    PROVE  /\ phase = "writing" /\ AllMeant(meant) /\ WrittenSoFar(meant, file, writer)
           /\ IsWriter(writer) /\ ~ writer.closed /\ Len(meant) \in Nat
           /\ writer.left + Len(meant) <= MaxObjects
           /\ writer.extra => writer.left = 0 /\ writer.remaining = 0
  BY Lengths DEF PackInv, Writing, WrittenSoFar, AllMeant

LEMMA WriteHeaderKeeps ==
    ASSUME PackInv, NEW o \in Objects, WriteHeader(o)
    PROVE  PackInv'
<1> DEFINE start == PreviousEnded(WithFileHeader)
           hdr == [offset |-> Len(start), type |-> o.type, size |-> Len(o.data), base |-> BaseOf(o)]
<1>1. /\ Writing /\ writer.remaining = 0 /\ writer.left > 0 /\ CanMean(o)
      /\ file' = Append(start, ObjectToken(Len(start), hdr))
      /\ writer' = [writer EXCEPT !.left = @ - 1, !.open = TRUE, !.remaining = hdr.size]
      /\ meant' = Append(meant, [hdr |-> hdr, data |-> o.data])
      /\ UNCHANGED <<phase, reader, seen, said>>
  BY DEF WriteHeader
<1>2. /\ phase = "writing" /\ AllMeant(meant) /\ WrittenSoFar(meant, file, writer)
      /\ IsWriter(writer) /\ ~ writer.closed /\ Len(meant) \in Nat
      /\ writer.left + Len(meant) <= MaxObjects
      /\ writer.extra => writer.left = 0
  BY <1>1, WritingIs
<1>3. Bodied(meant, start, writer)
  BY <1>1, <1>2, Body
<1>4. /\ Len(o.data) \in 0..MaxSize /\ IsSequence(o.data) /\ Len(o.data) <= MaxSize
      /\ NonDelta(o.type) => o.baseID = 0
  <2>1. IsObject(o) /\ MaxSize \in Nat
    BY StreamAssumption
  <2>2. Len(o.data) \in 0..MaxSize /\ o.data = [n \in 1..Len(o.data) |-> o.data[n]]
    BY <2>1 DEF IsObject
  <2>3. Len(o.data) \in Nat /\ Len(o.data) <= MaxSize
    BY <2>1, <2>2
  <2> QED
    BY <2>1, <2>2, <2>3 DEF IsObject, IsSequence
<1>5. ~ writer.extra
  <2>1. writer.left \in Nat
    BY <1>2 DEF IsWriter
  <2> QED
    BY <1>1, <1>2, <2>1
<1> HIDE DEF start
<1>6. ASSUME o.type = "OffsetDelta" PROVE BaseOf(o) \in 1..(Len(start) - 1)
  <2>1. o.baseNo \in DOMAIN meant
    BY <1>1, <1>6 DEF CanMean
  <2>2. o.baseNo \in 1..Len(meant)
    BY <1>2, <2>1 DEF AllMeant, IsSequence
  <2>3. BaseOf(o) = Offset(meant, o.baseNo)
    BY <1>6 DEF BaseOf, Offset
  <2> DEFINE i == o.baseNo
  <2>4. /\ Offset(meant, i) \in Nat /\ Offset(meant, i) >= 1 /\ Size(meant, i) \in Nat
        /\ After(meant, i) = Offset(meant, i) + Size(meant, i) + 2
    BY <1>2, <2>2, Place
  <2>5. After(meant, i) <= Len(start) /\ Len(start) \in Nat
    BY <1>3, <2>2 DEF Bodied, Ended
  <2> HIDE DEF i
  <2>6. Offset(meant, i) \in 1..(Len(start) - 1)
    BY <2>4, <2>5
  <2> QED
    BY <2>3, <2>6 DEF i
<1>7. NonDelta(o.type) => BaseOf(o) = 0
  <2>1. NonDelta(o.type) => o.type # "OffsetDelta"
    BY DEF NonDelta
  <2> QED
    BY <1>4, <2>1 DEF BaseOf
<1>8. Described(hdr)
  BY <1>6, <1>7 DEF Described
<1>9. hdr.offset = Len(start) /\ hdr.size = Len(o.data)
  OBVIOUS
<1> HIDE DEF hdr
<1>10. AllMeant(meant') /\ WrittenSoFar(meant', file', writer')
  BY <1>1, <1>2, <1>3, <1>4, <1>5, <1>8, <1>9, HeaderWritten
<1> QED
  BY <1>1, <1>2, <1>10, StillWriting

LEMMA WriteHeaderTooManyKeeps == ASSUME PackInv, WriteHeaderTooMany PROVE PackInv'
<1> DEFINE b == PreviousEnded(WithFileHeader)
           w == [writer EXCEPT !.extra = TRUE]
<1>1. /\ Writing /\ writer.remaining = 0 /\ writer.left = 0
      /\ file' = b /\ writer' = w /\ meant' = meant
      /\ UNCHANGED <<phase, reader, seen, said>>
  BY DEF WriteHeaderTooMany
<1>2. /\ phase = "writing" /\ AllMeant(meant) /\ WrittenSoFar(meant, file, writer)
      /\ IsWriter(writer) /\ ~ writer.closed /\ Len(meant) \in Nat
      /\ writer.left + Len(meant) <= MaxObjects
  BY <1>1, WritingIs
<1>3. Bodied(meant, b, writer)
  BY <1>1, <1>2, Body
<1>4. writer.open <=> Len(meant) > 0
  BY <1>2 DEF WrittenSoFar
<1>5. /\ IsWriter(w) /\ w.left = writer.left /\ w.left = 0 /\ w.remaining = 0 /\ w.open = writer.open
      /\ w.extra /\ ~ w.closed
  BY <1>1, <1>2 DEF IsWriter
<1> HIDE DEF b, w
<1>6. b # <<>>
  BY <1>3, EmptySequence DEF Bodied
<1>7. WrittenSoFar(meant, b, w)
  BY <1>2, <1>3, <1>4, <1>5, <1>6 DEF WrittenSoFar, Bodied
<1>8. AllMeant(meant') /\ WrittenSoFar(meant', file', writer')
  BY <1>1, <1>2, <1>7
<1> QED
  BY <1>1, <1>2, <1>8, StillWriting

LEMMA CloseWriterKeeps == ASSUME PackInv, CloseWriter PROVE PackInv'
<1> DEFINE b == PreviousEnded(WithFileHeader)
           w == [writer EXCEPT !.closed = TRUE]
           g == Append(b, SumToken(b))
           n == Len(meant)
<1>1. /\ Writing /\ writer.remaining = 0 /\ writer.left = 0
      /\ file' = g /\ writer' = w /\ meant' = meant
      /\ UNCHANGED <<phase, reader, seen, said>>
  BY DEF CloseWriter
<1>2. /\ phase = "writing" /\ AllMeant(meant) /\ WrittenSoFar(meant, file, writer)
      /\ IsWriter(writer) /\ ~ writer.closed /\ n \in Nat
      /\ writer.left + n <= MaxObjects
  BY <1>1, WritingIs
<1>3. Bodied(meant, b, writer)
  BY <1>1, <1>2, Body
<1>4. writer.open <=> n > 0
  BY <1>2 DEF WrittenSoFar
<1>5. /\ IsWriter(w) /\ w.left = writer.left /\ w.left = 0 /\ w.remaining = 0 /\ w.open = writer.open
      /\ w.extra = writer.extra /\ w.closed
  BY <1>1, <1>2 DEF IsWriter
<1> HIDE DEF b, w
<1>6. /\ IsSequence(b) /\ Len(b) \in Nat /\ Len(b) >= 1
      /\ b[1] = HeadToken(writer.left + n) /\ After(meant, n) <= Len(b)
      /\ \A i \in 1..n : Ended(meant, b, i)
      /\ ~ writer.extra => Len(b) = After(meant, n)
  BY <1>3 DEF Bodied
<1>7. /\ IsSequence(g) /\ Len(g) = Len(b) + 1 /\ g[Len(b) + 1] = SumToken(b)
      /\ g[1] = b[1] /\ Kept(b, g) /\ SubSeq(g, 1, Len(b)) = b
  <2>1. 1 \in 1..Len(b)
    BY <1>6
  <2> QED
    BY <1>6, <2>1, AppendAt, KeptByAppend, StartOfAppend
<1> HIDE DEF g
<1>8. \A i \in 1..n : Ended(meant, g, i)
  BY <1>2, <1>6, <1>7, EndedKept
<1>9. g # <<>>
  BY <1>6, <1>7, EmptySequence
<1>10. After(meant, n) <= Len(g)
  <2>1. After(meant, n) \in Nat
    <3>1. n \in 0..Len(meant)
      BY <1>2
    <3> QED
      BY <1>2, <3>1, AfterAll
  <2> QED
    BY <1>6, <1>7, <2>1
<1>11. ~ w.extra => Exact(meant, g, w)
  BY <1>5, <1>6, <1>7 DEF Exact
<1> HIDE DEF n
<1>12. WrittenSoFar(meant, g, w)
  BY <1>2, <1>4, <1>5, <1>6, <1>7, <1>8, <1>9, <1>10, <1>11 DEF WrittenSoFar, n
<1>13. AllMeant(meant') /\ WrittenSoFar(meant', file', writer')
  BY <1>1, <1>2, <1>12
<1> QED
  BY <1>1, <1>2, <1>13, StillWriting

LEMMA MinOf ==
    ASSUME NEW a \in Int, NEW b \in Int
    PROVE  Min({a, b}) = IF a <= b THEN a ELSE b
<1> DEFINE c == IF a <= b THEN a ELSE b
<1>1. c \in {a, b} /\ \A y \in {a, b} : c <= y
  OBVIOUS
<1>2. ASSUME NEW x \in {a, b}, \A y \in {a, b} : x <= y PROVE x = c
  BY <1>2
<1> HIDE DEF c
<1>3. (CHOOSE x \in {a, b} : \A y \in {a, b} : x <= y) = c
  BY <1>1, <1>2
<1> QED
  BY <1>3 DEF Min, c

LEMMA DataIs ==
    ASSUME NEW t, IsSequence(t)
    PROVE  /\ IsSequence(Data(t)) /\ Len(Data(t)) = Len(t)
           /\ \A j \in 1..Len(t) : Data(t)[j] = DataToken(t[j])
<1>1. Len(t) \in Nat /\ DOMAIN t = 1..Len(t)
  BY DEF IsSequence
<1>2. Data(t) = [j \in 1..Len(t) |-> DataToken(t[j])]
  BY <1>1 DEF Data
<1>3. Data(t) = [j \in 1..Len(t) |-> Data(t)[j]]
  BY <1>2
<1> QED
  BY <1>1, <1>2, <1>3, MadeSequence

(* The next units of an object.                                            *)
NextUnits(m, w, t) ==
    /\ IsSequence(t) /\ Len(t) <= w.remaining
    /\ \A j \in 1..Len(t) :
         t[j] = Units(m, Len(m))[(Size(m, Len(m)) - w.remaining) + j]

(* Of the size units of an object that is at o and ends before after, was  *)
(* are missing in a file of len tokens; t of them are to come.             *)
Room(o, size, after, len, was, t) ==
    /\ o \in Nat /\ size \in Nat /\ was \in Nat /\ t \in Nat
    /\ t <= was /\ was <= size /\ after = o + size + 2 /\ len = after - 1 - was

RoomLeft(o, size, after, len, was, t) ==
    /\ size - was \in Nat /\ len = o + 1 + (size - was)
    /\ was - t \in Nat /\ was - t <= size
    /\ size - (was - t) = (size - was) + t
    /\ len + t = after - 1 - (was - t)
    /\ o + 1 + ((size - was) + t) <= len + t

LEMMA RoomIs ==
    ASSUME NEW o, NEW size, NEW after, NEW len, NEW was, NEW t, Room(o, size, after, len, was, t)
    PROVE  RoomLeft(o, size, after, len, was, t)
  BY DEF Room, RoomLeft

LEMMA DataWritten ==
    ASSUME NEW m, AllMeant(m), NEW f, NEW w, WrittenSoFar(m, f, w), ~ w.closed, w.open,
           NEW t, NextUnits(m, w, t)
    PROVE  WrittenSoFar(m, f \o Data(t), [w EXCEPT !.remaining = @ - Len(t)])
<1> DEFINE n == Len(m)
           g == f \o Data(t)
           v == [w EXCEPT !.remaining = @ - Len(t)]
           d == Data(t)
<1>1. /\ IsSequence(f) /\ IsWriter(w) /\ n \in Nat /\ n > 0 /\ w.left + n <= MaxObjects
      /\ Len(f) \in Nat /\ Len(t) \in Nat /\ Len(t) <= w.remaining /\ IsSequence(t)
      /\ w.remaining \in Nat
  BY Lengths DEF AllMeant, WrittenSoFar, NextUnits, IsWriter
<1>2. IsSequence(d) /\ Len(d) = Len(t) /\ \A j \in 1..Len(t) : d[j] = DataToken(t[j])
  BY <1>1, DataIs
<1>3. /\ IsSequence(g) /\ Len(g) = Len(f) + Len(t) /\ Len(g) \in Nat
      /\ \A j \in 1..Len(f) : g[j] = f[j]
      /\ \A j \in 1..Len(t) : g[Len(f) + j] = DataToken(t[j])
  <2> HIDE DEF d
  <2>1. Joined(f, d, f \o d)
    BY <1>1, <1>2, Joins
  <2>2. IsSequence(f \o d) /\ Len(f \o d) = Len(f) + Len(d) /\ Has(f \o d, 0, f) /\ Has(f \o d, Len(f), d)
    BY <2>1 DEF Joined
  <2>3. \A j \in 1..Len(f) : (f \o d)[0 + j] = f[j] /\ 0 + j = j
    BY <1>1, <2>2 DEF Has
  <2>4. \A j \in 1..Len(t) : (f \o d)[Len(f) + j] = d[j]
    BY <1>2, <2>2 DEF Has
  <2>5. Len(f) + Len(t) \in Nat
    BY <1>1
  <2> QED
    BY <1>2, <2>2, <2>3, <2>4, <2>5 DEF d
<1>4. /\ v.left = w.left /\ v.open = w.open /\ v.remaining = w.remaining - Len(t)
      /\ v.extra = w.extra /\ v.closed = w.closed /\ IsWriter(v)
  <2>1. w.remaining - Len(t) \in Nat
    BY <1>1
  <2> QED
    BY <1>1, <2>1 DEF IsWriter
<1> HIDE DEF g, v, d
<1>5. Kept(f, g)
  BY <1>1, <1>3 DEF Kept
<1>6. /\ \A i \in 1..n : i # n \/ w.extra => Ended(m, f, i)
      /\ f # <<>> => f[1] = HeadToken(w.left + n)
      /\ f # <<>>
      /\ w.extra => w.left = 0 /\ w.remaining = 0 /\ After(m, n) <= Len(f)
      /\ ~ w.extra => Exact(m, f, w)
  BY <1>1 DEF WrittenSoFar
<1>7. \A i \in 1..n : i # n \/ w.extra => Ended(m, g, i)
  BY <1>5, <1>6, EndedKept
<1>8. Len(f) # 0 /\ g # <<>> /\ g[1] = f[1]
  <2>1. Len(f) # 0
    BY <1>1, <1>6, NoneLeft
  <2>2. 1 \in 1..Len(f) /\ Len(g) # 0
    BY <1>1, <1>3, <2>1
  <2> QED
    BY <1>3, <2>1, <2>2, EmptySequence
<1>9. n \in 1..Len(m)
  BY <1>1
<1>10. /\ Offset(m, n) \in Nat /\ Size(m, n) \in Nat
       /\ After(m, n) = Offset(m, n) + Size(m, n) + 2 /\ After(m, n) \in Nat
  BY <1>9, Place
<1>11. ASSUME w.extra PROVE v.left = 0 /\ v.remaining = 0 /\ After(m, n) <= Len(g)
  BY <1>1, <1>3, <1>4, <1>6, <1>10, <1>11
<1>12. ASSUME ~ w.extra PROVE Exact(m, g, v)
  <2> DEFINE had == Size(m, n) - w.remaining
             has == Size(m, n) - v.remaining
  <2>1. /\ w.remaining <= Size(m, n)
        /\ Len(f) = After(m, n) - 1 - w.remaining
        /\ Begun(m, f, n, had)
    BY <1>1, <1>6, <1>12 DEF Exact
  <2>2. v.remaining = w.remaining - Len(t) /\ Len(g) = Len(f) + Len(t)
    BY <1>3, <1>4
  <2>3. Room(Offset(m, n), Size(m, n), After(m, n), Len(f), w.remaining, Len(t))
    BY <1>1, <1>10, <2>1 DEF Room
  <2>4. RoomLeft(Offset(m, n), Size(m, n), After(m, n), Len(f), w.remaining, Len(t))
    BY <2>3, RoomIs
  <2>5. had \in Nat /\ has = had + Len(t) /\ Len(f) = Offset(m, n) + 1 + had
    BY <2>2, <2>4, Zenon DEF RoomLeft
  <2>6. v.remaining <= Size(m, n) /\ Len(g) = After(m, n) - 1 - v.remaining
    BY <2>2, <2>4, Zenon DEF RoomLeft
  <2>7. Offset(m, n) + 1 + has <= Len(g)
    BY <2>5, <2>2, <2>4, Zenon DEF RoomLeft
  <2>8. \A j \in 1..Len(t) : t[j] = Units(m, n)[had + j]
    BY DEF NextUnits
  <2> HIDE DEF had, has, n
  <2>9. Begun(m, g, n, had)
    BY <1>5, <1>9, <2>1, <2>5, BegunKept
  <2>10. /\ g[Offset(m, n) + 1] = Token(m, n)
         /\ \A j \in 1..had : g[Offset(m, n) + 1 + j] = DataToken(Units(m, n)[j])
    BY <2>9 DEF Begun
  <2>11. ASSUME NEW j \in 1..has PROVE g[Offset(m, n) + 1 + j] = DataToken(Units(m, n)[j])
    <3>1. CASE j \in 1..had
      BY <2>10, <3>1
    <3>2. CASE j \notin 1..had
      <4> DEFINE l == j - had
      <4>1. l \in 1..Len(t) /\ had + l = j /\ Len(f) + l = Offset(m, n) + 1 + j
        <5>1. \A x, y, z \in Nat : \A i \in 1..(x + y) :
                i \notin 1..x => i - x \in 1..y /\ x + (i - x) = i /\ z + 1 + x + (i - x) = z + 1 + i
          OBVIOUS
        <5>2. j \in 1..(had + Len(t))
          BY <2>5
        <5> QED
          BY <1>1, <1>10, <2>5, <3>2, <5>1, <5>2
      <4> HIDE DEF l
      <4>2. g[Len(f) + l] = DataToken(t[l]) /\ t[l] = Units(m, n)[had + l]
        BY <1>3, <2>8, <4>1
      <4> QED
        BY <4>1, <4>2
    <3> QED
      BY <3>1, <3>2
  <2>12. Begun(m, g, n, has)
    BY <2>10, <2>11, <2>7 DEF Begun
  <2>13. n # 0 /\ ~ v.closed
    BY <1>1, <1>4
  <2> QED
    BY <2>6, <2>12, <2>13 DEF Exact, has, n
<1> HIDE DEF n
<1>13. WrittenSoFar(m, g, v)
  BY <1>1, <1>3, <1>4, <1>6, <1>7, <1>8, <1>11, <1>12 DEF WrittenSoFar, n
<1> QED
  BY <1>13 DEF g, v

(* What Write takes: the next k units of d, of x after it, that fit.       *)
Taking(d, x, size, remaining, k) ==
    LET done == size - remaining
        p    == SubSeq(Append(d, x), done + 1, Min({done + k, Len(d) + 1}))
    IN  SubSeq(p, 1, Min({Len(p), remaining}))

LEMMA TakenIs ==
    ASSUME NEW d, IsSequence(d), NEW size, size = Len(d),
           NEW remaining \in 0..size, NEW k \in Nat, NEW x
    PROVE  LET done == size - remaining
               t == Taking(d, x, size, remaining, k)
           IN  /\ IsSequence(t) /\ Len(t) <= remaining
               /\ \A j \in 1..Len(t) : t[j] = d[done + j]
<1> DEFINE done == size - remaining
           e == Min({done + k, Len(d) + 1})
           l == e - done
           s == Append(d, x)
           p == SubSeq(s, done + 1, e)
           c == Min({Len(p), remaining})
           t == SubSeq(p, 1, c)
<1>1. Len(d) \in Nat /\ remaining \in Nat /\ done \in Nat /\ done + remaining = Len(d)
  BY Lengths
<1>2. IsSequence(s) /\ Len(s) = Len(d) + 1 /\ \A j \in 1..Len(d) : s[j] = d[j]
  BY AppendAt
<1> HIDE DEF done, s
<1>3. e = IF done + k <= Len(d) + 1 THEN done + k ELSE Len(d) + 1
  <2>1. done + k \in Int /\ Len(d) + 1 \in Int
    BY <1>1
  <2> QED
    BY <2>1, MinOf
<1> HIDE DEF e
<1>4. l \in Nat /\ done + l = e /\ done + l <= Len(s)
  BY <1>1, <1>2, <1>3
<1> HIDE DEF l
<1>5. IsSequence(p) /\ Len(p) = l /\ \A j \in 1..l : p[j] = s[done + j]
  <2>1. IsSequence(s) /\ done \in Nat /\ l \in Nat /\ done + l <= Len(s)
    BY <1>1, <1>2, <1>4
  <2> HIDE DEF p
  <2>2. LET q == SubSeq(s, done + 1, done + l)
        IN  IsSequence(q) /\ Len(q) = l /\ \A j \in 1..l : q[j] = s[done + j]
    BY <2>1, PartAt
  <2>3. p = SubSeq(s, done + 1, done + l)
    BY <1>4 DEF p
  <2> QED
    BY <2>2, <2>3
<1> HIDE DEF p
<1>6. c = IF l <= remaining THEN l ELSE remaining
  <2>1. l \in Int /\ remaining \in Int
    BY <1>1, <1>4
  <2> QED
    BY <1>5, <2>1, MinOf
<1> HIDE DEF c
<1>7. c \in Nat /\ c <= Len(p) /\ c <= remaining
  BY <1>1, <1>4, <1>5, <1>6
<1>8. IsSequence(t) /\ Len(t) = c /\ \A j \in 1..c : t[j] = p[j]
  BY <1>5, <1>7, StartAt
<1> HIDE DEF t
<1>9. ASSUME NEW j \in 1..c PROVE t[j] = d[done + j]
  <2>1. j \in 1..l /\ done + j \in 1..Len(d)
    BY <1>1, <1>4, <1>5, <1>7
  <2>2. t[j] = p[j] /\ p[j] = s[done + j] /\ s[done + j] = d[done + j]
    BY <1>2, <1>5, <1>8, <2>1
  <2> QED
    BY <2>2
<1> QED
  BY <1>7, <1>8, <1>9 DEF t, c, p, e, s, done, Taking

LEMMA WriteKeeps == ASSUME PackInv, NEW k \in 1..MaxChunk, Write(k) PROVE PackInv'
<1> DEFINE n == Len(meant)
           data == meant[n].data
           size == meant[n].hdr.size
           done == size - writer.remaining
           p == SubSeq(Append(data, Surplus), done + 1, Min({done + k, Len(data) + 1}))
           taken == SubSeq(p, 1, Min({Len(p), writer.remaining}))
<1>1. /\ Writing /\ writer.open
      /\ file' = file \o Data(taken)
      /\ writer' = [writer EXCEPT !.remaining = @ - Len(taken)]
      /\ meant' = meant
      /\ UNCHANGED <<phase, reader, seen, said>>
  BY Zenon DEF Write
<1>2. n = Len(meant)
  OBVIOUS
<1>3. data = meant[n].data /\ size = meant[n].hdr.size
  OBVIOUS
<1>4. taken = Taking(data, Surplus, size, writer.remaining, k)
  BY DEF Taking
<1> HIDE DEF data, size, p, taken
<1>5. WrittenSoFar(meant, file, writer)
  BY <1>1, WritingIs
<1> HIDE DEF n
<1>6. /\ phase = "writing" /\ AllMeant(meant) /\ WrittenSoFar(meant, file, writer)
      /\ IsWriter(writer) /\ ~ writer.closed /\ n \in Nat
      /\ writer.extra => writer.remaining = 0
  BY <1>1, <1>2, WritingIs
<1>7. n \in 1..Len(meant)
  <2>1. n > 0
    BY <1>1, <1>2, <1>5, Zenon DEF WrittenSoFar
  <2> QED
    BY <1>6, <1>2, <2>1
<1>8. /\ IsSequence(data) /\ Len(data) = size /\ size \in Nat
      /\ data = Units(meant, n) /\ size = Size(meant, n)
  BY <1>6, <1>7, <1>3, Place DEF Units, Size
<1>9. writer.remaining \in 0..size
  <2>1. writer.remaining \in Nat
    BY <1>6 DEF IsWriter
  <2>2. ~ writer.extra => Exact(meant, file, writer)
    BY <1>6 DEF WrittenSoFar
  <2>3. n # 0
    BY <1>7
  <2>4. ~ writer.extra => writer.remaining <= Size(meant, n)
    BY <1>6, <1>2, <2>2, <2>3 DEF Exact
  <2> QED
    BY <1>6, <1>8, <2>1, <2>4
<1>10. k \in Nat
  BY StreamAssumption
<1>11. /\ IsSequence(taken) /\ Len(taken) <= writer.remaining
       /\ \A j \in 1..Len(taken) : taken[j] = data[done + j]
  BY <1>8, <1>9, <1>10, <1>4, TakenIs
<1>12. NextUnits(meant, writer, taken)
  <2>1. Size(meant, n) - writer.remaining = done
    BY <1>8
  <2> HIDE DEF done
  <2> QED
    BY <1>8, <1>11, <1>2, <2>1 DEF NextUnits
<1>13. WrittenSoFar(meant, file \o Data(taken), [writer EXCEPT !.remaining = @ - Len(taken)])
  BY <1>1, <1>6, <1>12, DataWritten
<1>14. AllMeant(meant') /\ WrittenSoFar(meant', file', writer')
  BY <1>1, <1>6, <1>13
<1> QED
  BY <1>1, <1>6, <1>14, StillWriting

-----------------------------------------------------------------------------
(* The way of the file: what is missing after it was cut, what is wrong    *)
(* after it was damaged.                                                   *)

LEMMA EndedCame ==
    ASSUME NEW m, AllMeant(m), NEW i \in 1..Len(m), NEW f, IsSequence(f), Ended(m, f, i)
    PROVE  Came(m, f, i) /\ Sound(m, f, i) /\ After(m, i) <= Len(f)
<1>1. /\ f[Offset(m, i) + 1] = Token(m, i)
      /\ \A j \in 1..Size(m, i) : f[Offset(m, i) + 1 + j] = DataToken(Units(m, i)[j])
      /\ After(m, i) <= Len(f) /\ f[After(m, i)] = EndToken
  BY DEF Ended, Begun
<1>2. Size(m, i) \in Nat
  BY Place
<1>3. /\ Token(m, i).kind = "object" /\ Token(m, i).size = appendLengthType(Size(m, i))
  BY DEF Token, ObjectToken, Size
<1>4. SizeTold(m, f, i) = Size(m, i)
  BY <1>1, <1>2, <1>3, LengthRead DEF SizeTold
<1>5. HeaderCame(m, f, i)
  BY <1>1, <1>2, <1>3, <1>4 DEF HeaderCame
<1> QED
  BY <1>1, <1>4, <1>5 DEF Came, Sound

LEMMA ClosedFile ==
    ASSUME NEW m, AllMeant(m), NEW f, NEW w, WrittenSoFar(m, f, w), w.closed
    PROVE  Arrived(m, f, f, w)
<1> DEFINE n == Len(m)
<1>1. /\ IsSequence(f) /\ IsWriter(w)
      /\ \A i \in 1..n : Ended(m, f, i)
      /\ f # <<>> => f[1] = HeadToken(w.left + n)
      /\ w.left = 0 /\ n \in Nat
      /\ ~ w.extra => Exact(m, f, w)
  BY Lengths DEF WrittenSoFar, AllMeant
<1>2. \A i \in 1..n : Came(m, f, i) /\ Sound(m, f, i) /\ After(m, i) <= Len(f)
  BY <1>1, EndedCame
<1>3. Len(f) > 0 => f[1] = HeadToken(n)
  <2>1. w.left + n = n
    BY <1>1
  <2>2. f = <<>> => Len(f) = 0
    BY EmptySequence
  <2>3. ~(0 > 0)
    OBVIOUS
  <2> QED
    BY <1>1, <2>1, <2>2, <2>3
<1>4. ~ w.extra => WholeFile(m, f)
  BY <1>1, <1>2 DEF Exact, WholeFile
<1> QED
  BY <1>1, <1>2, <1>3, <1>4 DEF Arrived

LEMMA CutCame ==
    ASSUME NEW m, AllMeant(m), NEW i \in 1..Len(m), NEW f, IsSequence(f), Came(m, f, i),
           NEW g, IsSequence(g), Len(g) <= Len(f), \A j \in 1..Len(g) : g[j] = f[j]
    PROVE  Came(m, g, i)
<1>1. /\ Offset(m, i) \in Nat /\ Size(m, i) \in Nat /\ After(m, i) \in Nat
      /\ After(m, i) = Offset(m, i) + Size(m, i) + 2
      /\ Len(f) \in Nat /\ Len(g) \in Nat
  BY Place, Lengths
<1>2. ASSUME Offset(m, i) < Len(g) PROVE HeaderCame(m, g, i)
  <2>1. Offset(m, i) + 1 \in 1..Len(g) /\ Offset(m, i) < Len(f)
    BY <1>1, <1>2
  <2>2. g[Offset(m, i) + 1] = f[Offset(m, i) + 1] /\ HeaderCame(m, f, i)
    BY <2>1 DEF Came
  <2> QED
    BY <2>2 DEF HeaderCame, SizeTold
<1>3. ASSUME NEW j \in 1..Size(m, i), Offset(m, i) + 1 + j <= Len(g)
      PROVE  g[Offset(m, i) + 1 + j] = DataToken(Units(m, i)[j])
  <2>1. Offset(m, i) + 1 + j \in 1..Len(g) /\ Offset(m, i) + 1 + j <= Len(f)
    BY <1>1, <1>3
  <2> QED
    BY <2>1 DEF Came
<1>4. ASSUME After(m, i) <= Len(g) PROVE g[After(m, i)] = EndToken
  <2>1. After(m, i) \in 1..Len(g) /\ After(m, i) <= Len(f)
    BY <1>1, <1>4
  <2> QED
    BY <2>1 DEF Came
<1> QED
  BY <1>2, <1>3, <1>4 DEF Came

LEMMA CutFile ==
    ASSUME NEW m, AllMeant(m), NEW f, NEW w, Arrived(m, f, f, w), NEW n \in Nat, n < Len(f)
    PROVE  Arrived(m, SubSeq(f, 1, n), f, w)
<1> DEFINE g == SubSeq(f, 1, n)
<1>1. IsSequence(f) /\ Len(f) \in Nat /\ n <= Len(f) /\ Len(m) \in Nat
  BY Lengths DEF Arrived, AllMeant
<1>2. IsSequence(g) /\ Len(g) = n /\ \A j \in 1..n : g[j] = f[j]
  BY <1>1, StartAt
<1> HIDE DEF g
<1>3. \A i \in 1..Len(m) : Came(m, g, i)
  BY <1>1, <1>2, CutCame DEF Arrived
<1>4. Len(g) > 0 => g[1] = HeadToken(Len(m))
  <2>1. Len(g) > 0 => 1 \in 1..n /\ Len(f) > 0
    BY <1>1, <1>2
  <2> QED
    BY <1>2, <2>1 DEF Arrived
<1>5. g # f
  BY <1>1, <1>2
<1>6. ~ w.extra => Len(g) <= After(m, Len(m))
  <2>1. ~ w.extra => Len(f) = After(m, Len(m)) + 1
    BY DEF Arrived, WholeFile
  <2>2. After(m, Len(m)) \in Nat
    <3>1. Len(m) \in 0..Len(m)
      BY <1>1
    <3> QED
      BY <3>1, AfterAll
  <2>3. Len(f) = After(m, Len(m)) + 1 => Len(g) <= After(m, Len(m))
    BY <1>1, <1>2, <2>2
  <2> QED
    BY <2>1, <2>3
<1> QED
  BY <1>2, <1>3, <1>4, <1>5, <1>6 DEF Arrived, g

LEMMA DamagedFile ==
    ASSUME NEW m, AllMeant(m), NEW f, NEW w, Arrived(m, f, f, w), NEW i \in 1..Len(m),
           Ended(m, f, i), NEW size \in Nat, size # Size(m, i)
    PROVE  Arrived(m, [f EXCEPT ![Offset(m, i) + 1].size = appendLengthType(size)], f, w)
<1> DEFINE at == Offset(m, i) + 1
           g == [f EXCEPT ![at].size = appendLengthType(size)]
<1>1. /\ IsSequence(f) /\ Len(f) \in Nat /\ \A j \in 1..Len(m) : Came(m, f, j)
      /\ Len(f) > 0 => f[1] = HeadToken(Len(m))
  BY Lengths DEF Arrived
<1>2. /\ Offset(m, i) \in Nat /\ Offset(m, i) >= 1 /\ Size(m, i) \in Nat
      /\ After(m, i) = Offset(m, i) + Size(m, i) + 2
  BY Place
<1>3. at \in 1..Len(f) /\ at # 1 /\ at \in Nat
  <2>1. After(m, i) <= Len(f)
    BY DEF Ended
  <2> QED
    BY <1>1, <1>2, <2>1
<1>4. f[at] = Token(m, i) /\ Sound(m, f, i)
  BY <1>1, EndedCame DEF Ended, Begun
<1> HIDE DEF at
<1>5. /\ g = [j \in 1..Len(f) |-> IF j = at THEN [f[at] EXCEPT !.size = appendLengthType(size)]
                                            ELSE f[j]]
  BY <1>1, <1>3 DEF IsSequence
<1> HIDE DEF g
<1>6. IsSequence(g) /\ Len(g) = Len(f)
  <2>1. g = [j \in 1..Len(f) |-> g[j]]
    BY <1>5
  <2> QED
    BY <1>1, <2>1, MadeSequence
<1>7. (\A j \in 1..Len(f) : j # at => g[j] = f[j]) /\ g[at] = [f[at] EXCEPT !.size = appendLengthType(size)]
  BY <1>3, <1>5
<1>8. /\ f[at].kind = "object" /\ g[at].kind = "object"
      /\ g[at].type = f[at].type /\ g[at].base = f[at].base
      /\ g[at].size = appendLengthType(size)
  <2>1. Token(m, i) = [kind |-> "object", type |-> Token(m, i).type, size |-> Token(m, i).size,
                       base |-> Token(m, i).base]
    BY DEF Token, ObjectToken
  <2> QED
    BY <1>4, <1>7, <2>1
<1>9. ASSUME NEW j \in 1..Len(m) PROVE Came(m, g, j)
  <2>1. /\ Offset(m, j) \in Nat /\ Size(m, j) \in Nat /\ After(m, j) \in Nat
        /\ After(m, j) = Offset(m, j) + Size(m, j) + 2
    BY Place
  <2>2. ASSUME Offset(m, j) < Len(g) PROVE HeaderCame(m, g, j)
    <3>1. HeaderCame(m, f, j) /\ Offset(m, j) + 1 \in 1..Len(f)
      BY <1>1, <1>6, <2>1, <2>2 DEF Came
    <3>2. CASE Offset(m, j) + 1 = at
      <4>1. SizeTold(m, g, j) = size
        BY <1>8, <3>2, LengthRead DEF SizeTold
      <4> QED
        BY <1>8, <3>1, <3>2, <4>1 DEF HeaderCame
    <3>3. CASE Offset(m, j) + 1 # at
      <4>1. g[Offset(m, j) + 1] = f[Offset(m, j) + 1]
        BY <1>7, <3>1, <3>3
      <4> QED
        BY <3>1, <4>1 DEF HeaderCame, SizeTold
    <3> QED
      BY <3>2, <3>3
  <2>3. ASSUME NEW l \in 1..Size(m, j), Offset(m, j) + 1 + l <= Len(g)
        PROVE  g[Offset(m, j) + 1 + l] = DataToken(Units(m, j)[l])
    <3>1. f[Offset(m, j) + 1 + l] = DataToken(Units(m, j)[l])
      BY <1>1, <1>6, <2>3 DEF Came
    <3>2. f[Offset(m, j) + 1 + l].kind = "data"
      BY <3>1 DEF DataToken
    <3>3. Offset(m, j) + 1 + l # at
      BY <1>8, <3>2
    <3>4. Offset(m, j) + 1 + l \in 1..Len(f)
      BY <1>1, <1>6, <2>1, <2>3
    <3> QED
      BY <1>7, <3>1, <3>3, <3>4
  <2>4. ASSUME After(m, j) <= Len(g) PROVE g[After(m, j)] = EndToken
    <3>1. f[After(m, j)] = EndToken
      BY <1>1, <1>6, <2>4 DEF Came
    <3>2. f[After(m, j)].kind = "end"
      BY <3>1 DEF EndToken
    <3>3. After(m, j) # at
      BY <1>8, <3>2
    <3>4. After(m, j) \in 1..Len(f)
      BY <1>1, <1>6, <2>1, <2>4
    <3> QED
      BY <1>7, <3>1, <3>3, <3>4
  <2> QED
    BY <2>2, <2>3, <2>4 DEF Came
<1>10. SizeTold(m, g, i) = size
  BY <1>8, LengthRead DEF SizeTold, at
<1>11. ~ Sound(m, g, i) /\ g # f
  BY <1>4, <1>10 DEF Sound
<1>12. Len(g) > 0 => g[1] = HeadToken(Len(m))
  <2>1. Len(f) > 0 => 1 \in 1..Len(f)
    BY <1>1
  <2> QED
    BY <1>1, <1>3, <1>6, <1>7, <2>1
<1>13. Arrived(m, g, f, w)
  BY <1>6, <1>9, <1>11, <1>12 DEF Arrived
<1> QED
  BY <1>13 DEF g, at

LEMMA NothingGot == ASSUME NEW m, AllMeant(m), NEW f PROVE AllGot(m, f, <<>>)
<1>1. Len(m) \in Nat
  BY Lengths DEF AllMeant
<1>2. \A j \in 1..Len(<<>>) : FALSE
  BY EmptySequence
<1>3. Len(<<>>) <= Len(m)
  BY <1>1, EmptySequence
<1> QED
  BY <1>2, <1>3, EmptySequence DEF AllGot

LEMMA ArrivingKeeps ==
    ASSUME PackInv, phase = "writing", phase' \in {"serial", "random"},
           UNCHANGED <<writer, meant, reader, seen, said>>,
           phase' = "serial" => Arrived(meant', file', sent', writer')
    PROVE  PackInv'
<1>1. Idle(seen, reader, said) /\ IsReader(reader) /\ AllMeant(meant)
  BY DEF PackInv
<1>2. IsReader(reader') /\ Idle(seen', reader', said') /\ AllMeant(meant')
  BY <1>1
<1>3. seen' = <<>> /\ said' \notin {"EOF", "error"} /\ Len(seen') = 0
  BY <1>2, EmptySequence DEF Idle
<1>4. AllGot(meant', file', seen')
  BY <1>2, <1>3, NothingGot
<1>5. AtObject(meant', file', seen', reader', said')
  BY <1>2, <1>3 DEF AtObject
<1> QED
  BY <1>2, <1>3, <1>4, <1>5 DEF PackInv

LEMMA ArriveIs ==
    ASSUME PackInv, NEW as, NEW f, Arrive(as, f)
    PROVE  /\ phase = "writing" /\ AllMeant(meant) /\ WrittenSoFar(meant, file, writer)
           /\ writer.closed /\ Arrived(meant, file, file, writer)
           /\ phase' = as /\ sent' = file /\ file' = f
           /\ UNCHANGED <<writer, meant, reader, seen, said>>
  BY ClosedFile DEF PackInv, Arrive

LEMMA ArriveKeeps == ASSUME PackInv, NEW as \in {"serial", "random"}, Arrive(as, file) PROVE PackInv'
<1>1. /\ phase = "writing" /\ Arrived(meant, file, file, writer)
      /\ phase' = as /\ sent' = file /\ file' = file
      /\ UNCHANGED <<writer, meant, reader, seen, said>>
  BY ArriveIs
<1>2. Arrived(meant', file', sent', writer')
  BY <1>1
<1> QED
  BY <1>1, <1>2, ArrivingKeeps

LEMMA ArriveCutKeeps ==
    ASSUME PackInv, NEW as \in {"serial", "random"}, NEW n \in 0..MaxCut, ArriveCut(as, n)
    PROVE  PackInv'
<1>1. n < Len(file) /\ Arrive(as, SubSeq(file, 1, n))
  BY DEF ArriveCut
<1>2. /\ phase = "writing" /\ AllMeant(meant) /\ Arrived(meant, file, file, writer)
      /\ phase' = as /\ sent' = file /\ file' = SubSeq(file, 1, n)
      /\ UNCHANGED <<writer, meant, reader, seen, said>>
  BY <1>1, ArriveIs
<1>3. n \in Nat
  BY UndeltifyAssumption
<1>4. Arrived(meant, SubSeq(file, 1, n), file, writer)
  BY <1>1, <1>2, <1>3, CutFile
<1>5. Arrived(meant', file', sent', writer')
  BY <1>2, <1>4
<1> QED
  BY <1>2, <1>5, ArrivingKeeps

LEMMA ArriveDamagedKeeps ==
    ASSUME PackInv, NEW i \in 1..MaxObjects, NEW d \in {-1, 1}, ArriveDamaged(i, d)
    PROVE  PackInv'
<1> DEFINE at == meant[i].hdr.offset + 1
           size == meant[i].hdr.size + d
           g == [file EXCEPT ![at].size = appendLengthType(size)]
<1>1. i \in DOMAIN meant /\ size >= 0 /\ Arrive("serial", g)
  BY DEF ArriveDamaged
<1>2. /\ phase = "writing" /\ AllMeant(meant) /\ WrittenSoFar(meant, file, writer)
      /\ writer.closed /\ Arrived(meant, file, file, writer)
      /\ phase' = "serial" /\ sent' = file /\ file' = g
      /\ UNCHANGED <<writer, meant, reader, seen, said>>
  BY <1>1, ArriveIs
<1>3. i \in 1..Len(meant)
  BY <1>1, <1>2 DEF AllMeant, IsSequence
<1>4. Ended(meant, file, i)
  BY <1>2, <1>3 DEF WrittenSoFar
<1>5. at = Offset(meant, i) + 1 /\ size = Size(meant, i) + d
  BY DEF Offset, Size
<1>6. size \in Nat /\ size # Size(meant, i)
  <2>1. Size(meant, i) \in Nat
    BY <1>2, <1>3, Place
  <2> QED
    BY <1>1, <1>5, <2>1
<1> HIDE DEF size
<1>7. Arrived(meant, [file EXCEPT ![Offset(meant, i) + 1].size = appendLengthType(size)], file, writer)
  BY <1>2, <1>3, <1>4, <1>6, DamagedFile
<1>8. Arrived(meant', file', sent', writer')
  BY <1>2, <1>5, <1>7
<1> QED
  BY <1>2, <1>8, ArrivingKeeps

-----------------------------------------------------------------------------
(* The reader.                                                             *)

(* zlib from a place in the data of object i reads to the end of the data  *)
(* or of the file.                                                         *)
EndOfData(m, i) == IF After(m, i) <= Len(file) THEN After(m, i) - 1 ELSE Len(file)

(* Of an object of s units at o, the first n of them are in a file of len  *)
(* tokens.                                                                 *)
Reached(o, s, n, len) ==
    o \in Nat /\ s \in Nat /\ len \in Nat /\ n \in 0..s /\ o + 1 + n <= len

LastOf(o, s, len) == IF o + s + 2 <= len THEN (o + s + 2) - 1 ELSE len

Around(at, e, len) ==
    \A x \in at..len :
      /\ x < e => x + 1 \in (at + 1)..e /\ x < len
      /\ e < x => e + 1 \in (at + 1)..x /\ e < len
      /\ x < e \/ e < x \/ x = e

Reaches(o, s, n, len, at, e) ==
    /\ at \in Nat /\ at < o + s + 2
    /\ e \in Nat /\ at <= e /\ e <= len /\ e < o + s + 2 /\ e \in at..len
    /\ e < len => o + s + 2 <= len /\ e + 1 = o + s + 2
    /\ Around(at, e, len)
    /\ \A l \in (at + 1)..e :
         l - (o + 1) \in 1..s /\ o + 1 + (l - (o + 1)) = l /\ l <= len

LEMMA ReachIs ==
    ASSUME NEW o, NEW s, NEW n, NEW len, Reached(o, s, n, len)
    PROVE  Reaches(o, s, n, len, o + 1 + n, LastOf(o, s, len))
<1> DEFINE at == o + 1 + n
           e == LastOf(o, s, len)
<1>1. /\ at \in Nat /\ at < o + s + 2 /\ at >= o + 1 /\ at <= len
      /\ o \in Nat /\ s \in Nat /\ len \in Nat
  BY DEF Reached
<1> HIDE DEF at
<1>2. /\ e \in Nat /\ at <= e /\ e <= len /\ e < o + s + 2 /\ e \in at..len
      /\ e < len => o + s + 2 <= len /\ e + 1 = o + s + 2
  BY <1>1 DEF LastOf
<1> HIDE DEF e
<1>3. Around(at, e, len)
  BY <1>1, <1>2 DEF Around
<1>4. \A l \in (at + 1)..e :
        l - (o + 1) \in 1..s /\ o + 1 + (l - (o + 1)) = l /\ l <= len
  BY <1>1, <1>2
<1>5. Reaches(o, s, n, len, at, e)
  BY <1>1, <1>2, <1>3, <1>4 DEF Reaches
<1> QED
  BY <1>5 DEF at, e

LEMMA DataEnds ==
    ASSUME NEW m, AllMeant(m), IsSequence(file), NEW i \in 1..Len(m), Came(m, file, i),
           NEW n \in 0..Size(m, i), Offset(m, i) + 1 + n <= Len(file)
    PROVE  LET at == Offset(m, i) + 1 + n
               e  == EndOfData(m, i)
           IN  /\ DataEnd(at) = e /\ at \in Nat /\ e \in Nat /\ at <= e
               /\ e <= Len(file) /\ e < After(m, i)
               /\ \A l \in (at + 1)..e : file[l] = DataToken(Units(m, i)[l - (Offset(m, i) + 1)])
<1> DEFINE at == Offset(m, i) + 1 + n
           e  == EndOfData(m, i)
           Is(x) == /\ \A l \in (at + 1)..x : file[l].kind = "data"
                    /\ x < Len(file) => file[x + 1].kind # "data"
<1>1. /\ Offset(m, i) \in Nat /\ Size(m, i) \in Nat
      /\ After(m, i) = Offset(m, i) + Size(m, i) + 2
      /\ Len(file) \in Nat
  BY Place, Lengths
<1>2. Reaches(Offset(m, i), Size(m, i), n, Len(file), Offset(m, i) + 1 + n,
              LastOf(Offset(m, i), Size(m, i), Len(file)))
  BY <1>1, ReachIs DEF Reached
<1>3. e = LastOf(Offset(m, i), Size(m, i), Len(file))
  BY <1>1 DEF EndOfData, LastOf
<1> HIDE DEF e
<1>4. Reaches(Offset(m, i), Size(m, i), n, Len(file), at, e)
  BY <1>2, <1>3
<1> HIDE DEF at
<1>5. /\ at \in Nat /\ e \in Nat /\ at <= e /\ e <= Len(file) /\ e < After(m, i) /\ e \in at..Len(file)
      /\ e < Len(file) => After(m, i) <= Len(file) /\ e + 1 = After(m, i)
      /\ Around(at, e, Len(file))
  BY <1>1, <1>4 DEF Reaches
<1>6. ASSUME NEW l \in (at + 1)..e
      PROVE  file[l] = DataToken(Units(m, i)[l - (Offset(m, i) + 1)])
  <2> DEFINE j == l - (Offset(m, i) + 1)
  <2>1. j \in 1..Size(m, i) /\ Offset(m, i) + 1 + j = l /\ l <= Len(file)
    BY <1>4 DEF Reaches
  <2> HIDE DEF j
  <2>2. Offset(m, i) + 1 + j <= Len(file) => file[Offset(m, i) + 1 + j] = DataToken(Units(m, i)[j])
    BY <2>1 DEF Came
  <2> QED
    BY <2>1, <2>2 DEF j
<1>7. Is(e)
  <2>1. \A x : DataToken(x).kind = "data"
    BY DEF DataToken
  <2>2. \A l \in (at + 1)..e : file[l].kind = "data"
    BY <1>6, <2>1
  <2>3. e < Len(file) => file[e + 1] = EndToken
    BY <1>5 DEF Came
  <2>4. EndToken.kind # "data"
    BY DEF EndToken
  <2> QED
    BY <2>2, <2>3, <2>4
<1>8. ASSUME NEW x \in at..Len(file), Is(x) PROVE x = e
  <2>1. /\ x < e => x + 1 \in (at + 1)..e /\ x < Len(file)
        /\ e < x => e + 1 \in (at + 1)..x /\ e < Len(file)
        /\ x < e \/ e < x \/ x = e
    BY <1>5, Zenon DEF Around
  <2>2. ~(x < e)
    BY <1>7, <1>8, <2>1
  <2>3. ~(e < x)
    BY <1>7, <1>8, <2>1
  <2> QED
    BY <2>1, <2>2, <2>3
<1>9. DataEnd(at) = CHOOSE x \in at..Len(file) : Is(x)
  BY DEF DataEnd
<1> HIDE DEF Is
<1>10. DataEnd(at) = e
  BY <1>5, <1>7, <1>8, <1>9
<1> QED
  BY <1>5, <1>6, <1>10 DEF at, e

Distant(o, s, n, e) ==
    LET there == e - (o + 1 + n)
    IN  /\ there \in Nat /\ n + there <= s
        /\ e = (o + s + 2) - 1 => n + there = s
        /\ \A j \in 1..there :
             (o + 1 + n) + j \in ((o + 1 + n) + 1)..e /\ ((o + 1 + n) + j) - (o + 1) = n + j

LEMMA Distances ==
    ASSUME NEW o \in Nat, NEW s \in Nat, NEW n \in Nat, NEW e \in Nat, o + 1 + n <= e, e < o + s + 2
    PROVE  Distant(o, s, n, e)
  BY DEF Distant

LEMMA InflateIs ==
    ASSUME NEW m, AllMeant(m), IsSequence(file), NEW i \in 1..Len(m), Came(m, file, i),
           NEW n \in 0..Size(m, i), Offset(m, i) + 1 + n <= Len(file)
    PROVE  LET at == Offset(m, i) + 1 + n
               there == EndOfData(m, i) - at
           IN  /\ Inflates(at) <=> After(m, i) <= Len(file)
               /\ there \in Nat /\ n + there <= Size(m, i)
               /\ After(m, i) <= Len(file) => n + there = Size(m, i)
               /\ IsSequence(Inflate(at)) /\ Len(Inflate(at)) = there
               /\ \A j \in 1..there : Inflate(at)[j] = Units(m, i)[n + j]
<1> DEFINE at == Offset(m, i) + 1 + n
           e  == EndOfData(m, i)
           there == e - at
<1>1. /\ Offset(m, i) \in Nat /\ Size(m, i) \in Nat /\ After(m, i) \in Nat
      /\ After(m, i) = Offset(m, i) + Size(m, i) + 2
      /\ Len(file) \in Nat
  BY Place, Lengths
<1>2. /\ DataEnd(at) = e /\ at \in Nat /\ e \in Nat /\ at <= e
      /\ e <= Len(file) /\ e < After(m, i)
      /\ \A l \in (at + 1)..e : file[l] = DataToken(Units(m, i)[l - (Offset(m, i) + 1)])
  BY DataEnds
<1>3. After(m, i) <= Len(file) => e = After(m, i) - 1
  BY DEF EndOfData
<1>4. ~(After(m, i) <= Len(file)) => e = Len(file)
  BY DEF EndOfData
<1> HIDE DEF e
<1>5. /\ there \in Nat /\ n + there <= Size(m, i)
      /\ e = (Offset(m, i) + Size(m, i) + 2) - 1 => n + there = Size(m, i)
      /\ \A j \in 1..there :
           at + j \in (at + 1)..e /\ (at + j) - (Offset(m, i) + 1) = n + j
  <2>1. n \in Nat /\ Offset(m, i) + 1 + n <= e /\ e < Offset(m, i) + Size(m, i) + 2 /\ e \in Nat
    BY <1>1, <1>2
  <2>2. Distant(Offset(m, i), Size(m, i), n, e)
    BY <1>1, <2>1, Distances
  <2> QED
    BY <2>2 DEF Distant
<1>6. there \in Nat /\ n + there <= Size(m, i) /\ (After(m, i) <= Len(file) => n + there = Size(m, i))
  <2>1. After(m, i) <= Len(file) => e = (Offset(m, i) + Size(m, i) + 2) - 1
    BY <1>1, <1>3
  <2> QED
    BY <1>5, <2>1, Zenon
<1>7. Inflates(at) <=> After(m, i) <= Len(file)
  <2> HIDE DEF at
  <2>1. CASE After(m, i) <= Len(file)
    <3>1. e < Len(file) /\ e + 1 = After(m, i)
      BY <1>1, <1>2, <1>3, <2>1
    <3>2. file[e + 1] = EndToken
      BY <2>1, <3>1 DEF Came
    <3> QED
      BY <1>2, <2>1, <3>1, <3>2 DEF Inflates, EndToken
  <2>2. CASE ~(After(m, i) <= Len(file))
    <3>1. ~(e < Len(file))
      BY <1>1, <1>4, <2>2
    <3> QED
      BY <1>2, <2>2, <3>1 DEF Inflates
  <2> QED
    BY <2>1, <2>2
<1>8. Inflate(at) = [j \in 1..there |-> file[at + j].unit]
  BY <1>2 DEF Inflate
<1>9. IsSequence(Inflate(at)) /\ Len(Inflate(at)) = there
  <2> HIDE DEF at, there
  <2>1. Inflate(at) = [j \in 1..there |-> Inflate(at)[j]]
    BY <1>8
  <2> QED
    BY <1>6, <2>1, MadeSequence
<1>10. ASSUME NEW j \in 1..there PROVE Inflate(at)[j] = Units(m, i)[n + j]
  <2>1. at + j \in (at + 1)..e /\ (at + j) - (Offset(m, i) + 1) = n + j
    BY <1>5, Zenon
  <2> HIDE DEF at, there
  <2>2. file[at + j] = DataToken(Units(m, i)[n + j])
    BY <1>2, <2>1
  <2>3. Inflate(at)[j] = file[at + j].unit
    BY <1>8
  <2> QED
    BY <2>2, <2>3 DEF DataToken
<1> QED
  BY <1>6, <1>7, <1>9, <1>10 DEF at, there, e

(* A header that came is read as it was written, but for its size.         *)
LEMMA HeaderIsRead ==
    ASSUME NEW m, AllMeant(m), NEW i \in 1..Len(m), Came(m, file, i), Offset(m, i) < Len(file)
    PROVE  HeaderSeen(m, file, readObjectHeader(Offset(m, i)), i)
<1> DEFINE t == file[Offset(m, i) + 1]
           h == m[i].hdr
           o == Offset(m, i)
<1>1. /\ t.type = Token(m, i).type /\ t.base = Token(m, i).base
      /\ SizeTold(m, file, i) = readLengthType(t.size)
  BY DEF Came, HeaderCame, SizeTold
<1>2. /\ Token(m, i).type = h.type
      /\ Token(m, i).base = IF h.type = "OffsetDelta" THEN appendOffset(o - h.base)
                            ELSE IF h.type = "RefDelta" THEN <<h.base>> ELSE <<>>
  BY DEF Token, ObjectToken, Offset
<1>3. /\ o \in Nat /\ o >= 1 /\ o <= 1 + ((i - 1) * (MaxSize + 2)) /\ Described(h)
      /\ Len(m) \in Nat /\ h.offset = o
  BY Place DEF Offset
<1>4. ASSUME h.type = "OffsetDelta" PROVE o - readOffset(t.base) = h.base
  <2>1. h.base \in 1..(o - 1)
    BY <1>3, <1>4 DEF Described
  <2>2. h.base \in Nat /\ h.base >= 1 /\ h.base < o
    BY <1>3, <2>1
  <2> DEFINE b == h.base
             d == o - b
  <2> HIDE DEF o, b
  <2>3. d \in Nat /\ d >= 1 /\ d <= o /\ o - d = b
    BY <1>3, <2>2 DEF b
  <2>4. o <= LongestPack
    <3>1. i \in Nat /\ i >= 1 /\ i <= MaxObjects /\ MaxObjects \in Nat /\ MaxSize \in Nat
      BY <1>3, StreamAssumption DEF AllMeant
    <3>2. \A a, c, k \in Nat : a <= c => a * k <= c * k
      OBVIOUS
    <3>3. i - 1 \in Nat /\ i - 1 <= MaxObjects /\ MaxSize + 2 \in Nat
      BY <3>1
    <3>4. (i - 1) * (MaxSize + 2) <= MaxObjects * (MaxSize + 2)
      BY <3>1, <3>2, <3>3
    <3> DEFINE x == (i - 1) * (MaxSize + 2)
               y == MaxObjects * (MaxSize + 2)
    <3>5. x \in Nat /\ y \in Nat /\ x <= y /\ o <= 1 + x
      BY <1>3, <3>1, <3>3, <3>4
    <3> HIDE DEF x, y
    <3>6. o <= 1 + y
      BY <1>3, <3>5
    <3> QED
      BY <3>6 DEF y, LongestPack
  <2>5. LongestPack \in Nat
    BY StreamAssumption DEF LongestPack
  <2> HIDE DEF d
  <2>6. d \in 1..LongestPack
    BY <1>3, <2>3, <2>4, <2>5
  <2>7. Len(appendOffset(d)) <= MaxOffsetBytes
    BY <2>6, StreamAssumption
  <2>8. readOffset(appendOffset(d)) = d
    BY <2>3, <2>7, OffsetRead
  <2>9. t.base = appendOffset(d)
    BY <1>1, <1>2, <1>4 DEF d, b
  <2> QED
    BY <2>3, <2>8, <2>9 DEF b
<1>5. ASSUME h.type = "RefDelta" PROVE Head(t.base) = h.base
  <2>1. t.base = <<h.base>>
    BY <1>1, <1>2, <1>5
  <2> QED
    BY <2>1
<1>6. h.type # "OffsetDelta" /\ h.type # "RefDelta" => h.base = 0
  BY <1>3 DEF Described, NonDelta
<1> DEFINE base == IF t.type = "OffsetDelta" THEN o - readOffset(t.base)
                   ELSE IF t.type = "RefDelta" THEN Head(t.base) ELSE 0
<1>7. readObjectHeader(o) = [offset |-> o, type |-> t.type, size |-> readLengthType(t.size), base |-> base]
  BY DEF readObjectHeader
<1>8. base = h.base /\ t.type = h.type
  BY <1>1, <1>2, <1>4, <1>5, <1>6
<1> HIDE DEF base
<1> QED
  BY <1>1, <1>7, <1>8 DEF HeaderSeen

LEMMA ReadingIs ==
    ASSUME PackInv, Reading
    PROVE  /\ phase = "serial" /\ AllMeant(meant) /\ IsReader(reader)
           /\ Arrived(meant, file, sent, writer) /\ AllGot(meant, file, seen)
           /\ AtObject(meant, file, seen, reader, said)
           /\ Len(meant) \in Nat /\ Len(seen) \in Nat /\ Len(seen) <= Len(meant)
           /\ IsSequence(file) /\ Len(file) \in Nat /\ IsSequence(seen)
           /\ \A i \in 1..Len(meant) : Came(meant, file, i)
<1>1. /\ phase = "serial" /\ said \notin {"EOF", "error"}
  BY DEF Reading
<1>2. /\ AllMeant(meant) /\ IsReader(reader)
      /\ Arrived(meant, file, sent, writer) /\ AllGot(meant, file, seen)
      /\ AtObject(meant, file, seen, reader, said)
  BY <1>1 DEF PackInv
<1> QED
  BY <1>1, <1>2, Lengths DEF AllMeant, Arrived, AllGot

LEMMA StillReading ==
    ASSUME PackInv, phase = "serial", UNCHANGED <<file, writer, meant, phase, sent>>,
           IsReader(reader'), AllGot(meant, file, seen'),
           said' \notin {"error", "EOF"} => AtObject(meant, file, seen', reader', said'),
           said' = "error" => file # sent \/ writer.extra,
           said' = "EOF" => AtEnd(meant, file, seen', reader')
    PROVE  PackInv'
<1>1. AllMeant(meant') /\ Arrived(meant', file', sent', writer') /\ phase' = "serial"
  BY DEF PackInv
<1>2. /\ AllGot(meant', file', seen')
      /\ said' \notin {"error", "EOF"} => AtObject(meant', file', seen', reader', said')
      /\ said' = "error" => file' # sent' \/ writer'.extra
      /\ said' = "EOF" => AtEnd(meant', file', seen', reader')
  OBVIOUS
<1> QED
  BY <1>1, <1>2 DEF PackInv

LEMMA NoObjectRead ==
    ASSUME PackInv, Reading, Len(seen) = 0
    PROVE  /\ reader.at = 0 /\ reader.z = "none" /\ ~ Started
           /\ AfterCurrent = 1 /\ CurrentComplete
           /\ Len(file) > 0 => HeaderRead
           /\ HeaderRead => Len(file) > 0 /\ ObjectsLeft = Len(meant)
  <1>1. Idle(seen, reader, said) /\ Arrived(meant, file, sent, writer)
    BY ReadingIs DEF AtObject
  <1>2. reader.at = 0 /\ reader.z = "none"
    BY <1>1 DEF Idle
  <1>3. ~ Started
    BY <1>2 DEF Started
  <1>4. AfterCurrent = 1 /\ CurrentComplete
    BY <1>2, <1>3 DEF AfterCurrent, CurrentComplete, Position
  <1>5. Len(file) > 0 => HeaderRead
    BY <1>3 DEF HeaderRead
  <1>6. HeaderRead => Len(file) > 0
    BY <1>3 DEF HeaderRead
  <1>7. Len(file) > 0 => ObjectsLeft = Len(meant)
    BY <1>1, <1>3 DEF Arrived, ObjectsLeft, HeadToken
  <1> QED
    BY <1>2, <1>3, <1>4, <1>5, <1>6, <1>7

(* The reader is in an object.                                             *)
LEMMA InsideIs ==
    ASSUME PackInv, Reading, Len(seen) # 0
    PROVE  LET i == Len(seen)
           IN  /\ i \in 1..Len(meant) /\ Came(meant, file, i)
               /\ Inside(meant, file, seen[i], reader, i)
               /\ Got(meant, file, seen[i], i)
               /\ said = "bad object" => Bad(meant, file, i)
               /\ reader.at \in Nat /\ reader.at > 0 /\ reader.remaining \in Int
               /\ SizeTold(meant, file, i) \in Nat
               /\ Started /\ HeaderRead /\ Position = reader.at
               /\ ObjectsLeft = Len(meant) - i
<1> DEFINE i == Len(seen)
<1>1. /\ AllMeant(meant) /\ IsReader(reader) /\ AllGot(meant, file, seen)
      /\ AtObject(meant, file, seen, reader, said)
      /\ Len(meant) \in Nat /\ i \in Nat /\ i <= Len(meant)
      /\ Len(file) \in Nat /\ \A j \in 1..Len(meant) : Came(meant, file, j)
  BY ReadingIs
<1> HIDE DEF i
<1>2. i \in 1..Len(meant) /\ i \in 1..i
  BY <1>1 DEF i
<1>3. /\ Inside(meant, file, seen[i], reader, i)
      /\ said = "bad object" => Bad(meant, file, i)
  BY <1>1 DEF AtObject, i
<1>4. Got(meant, file, seen[i], i)
  BY <1>1, <1>2 DEF AllGot, i
<1>5. reader.at \in Nat /\ reader.remaining \in Int
  BY <1>1 DEF IsReader
<1>6. /\ Offset(meant, i) \in Nat /\ Size(meant, i) \in Nat
      /\ After(meant, i) = Offset(meant, i) + Size(meant, i) + 2
  BY <1>1, <1>2, Place
<1>7. reader.at > 0
  <2>1. CASE InData(meant, file, seen[i], reader, i)
    <3>1. reader.at - (Offset(meant, i) + 1) \in 0..Size(meant, i)
      BY <2>1 DEF InData
    <3> QED
      BY <1>5, <1>6, <3>1
  <2>2. CASE PastData(meant, file, seen[i], reader, i)
    <3>1. reader.at = After(meant, i)
      BY <2>2 DEF PastData
    <3> QED
      BY <1>5, <1>6, <3>1
  <2> QED
    BY <1>3, <2>1, <2>2 DEF Inside
<1>8. SizeTold(meant, file, i) \in Nat
  BY <1>1, <1>2, <1>4 DEF Got, Came, HeaderCame
<1>9. Started /\ HeaderRead /\ Position = reader.at /\ ObjectsLeft = Len(meant) - i
  BY <1>3, <1>7 DEF Started, HeaderRead, Position, ObjectsLeft, Inside
<1> QED
  BY <1>1, <1>2, <1>3, <1>4, <1>5, <1>7, <1>8, <1>9 DEF i

(* Of s units at o, n were read and the end of the file's data was found   *)
(* where there are as many left as were told.                              *)
Told(o, s, n, told, at, left) ==
    /\ o \in Nat /\ s \in Nat /\ n \in Nat /\ told \in Nat
    /\ at = o + 1 + n /\ left = told - n /\ left = ((o + s + 2) - 1) - at

LEMMA ToldIs ==
    ASSUME NEW o, NEW s, NEW n, NEW told, NEW at, NEW left, Told(o, s, n, told, at, left)
    PROVE  told = s
  BY DEF Told

(* An object that is complete has the size it told.                        *)
LEMMA Current ==
    ASSUME PackInv, Reading, HeaderRead, CurrentComplete
    PROVE  LET i == Len(seen)
           IN  /\ AfterCurrent = After(meant, i) /\ After(meant, i) <= Len(file)
               /\ After(meant, i) \in Nat
               /\ ObjectsLeft = Len(meant) - i
               /\ \A j \in 1..i : Sound(meant, file, j)
<1> DEFINE i == Len(seen)
<1>1. /\ AllMeant(meant) /\ AllGot(meant, file, seen)
      /\ Len(meant) \in Nat /\ i \in Nat /\ i <= Len(meant)
      /\ IsSequence(file) /\ Len(file) \in Nat
  BY ReadingIs
<1>2. CASE i = 0
  <2>1. AfterCurrent = 1 /\ Len(file) > 0 /\ ObjectsLeft = Len(meant)
    BY <1>2, NoObjectRead
  <2>2. After(meant, i) = 1
    BY <1>2 DEF After
  <2>3. \A j \in 1..0 : FALSE
    OBVIOUS
  <2>4. 1 <= Len(file) /\ Len(meant) - 0 = Len(meant) /\ 1 \in Nat
    BY <1>1, <2>1
  <2> HIDE DEF i
  <2>5. AfterCurrent = After(meant, i) /\ After(meant, i) <= Len(file) /\ After(meant, i) \in Nat
    BY <2>1, <2>2, <2>4
  <2>6. ObjectsLeft = Len(meant) - i
    BY <1>2, <2>1, <2>4
  <2>7. \A j \in 1..i : Sound(meant, file, j)
    BY <1>2, <2>3
  <2> QED
    BY <2>5, <2>6, <2>7 DEF i
<1>3. CASE i # 0
  <2>1. /\ i \in 1..Len(meant) /\ Came(meant, file, i)
        /\ Inside(meant, file, seen[i], reader, i)
        /\ reader.at \in Nat /\ reader.remaining \in Int /\ SizeTold(meant, file, i) \in Nat
        /\ Position = reader.at /\ ObjectsLeft = Len(meant) - i
    BY <1>3, InsideIs, Zenon
  <2> HIDE DEF i
  <2>2. /\ Offset(meant, i) \in Nat /\ Size(meant, i) \in Nat /\ After(meant, i) \in Nat
        /\ After(meant, i) = Offset(meant, i) + Size(meant, i) + 2
    BY <1>1, <2>1, Place
  <2>3. /\ AfterCurrent = After(meant, i) /\ After(meant, i) <= Len(file)
        /\ Sound(meant, file, i)
    <3>1. CASE InData(meant, file, seen[i], reader, i)
      <4> DEFINE n == reader.at - (Offset(meant, i) + 1)
      <4>1. reader.z = "open" /\ n \in 0..Size(meant, i) /\ reader.remaining = SizeTold(meant, file, i) - n
        BY <3>1 DEF InData
      <4>2. reader.at <= Len(file)
        BY <2>1 DEF Inside
      <4>3. \A x, o \in Nat : x = o + 1 + (x - (o + 1))
        OBVIOUS
      <4>4. reader.at = Offset(meant, i) + 1 + n /\ reader.at <= Len(file)
        BY <2>1, <2>2, <4>2, <4>3
      <4> HIDE DEF n
      <4>5. Inflates(reader.at) /\ Discarded = DataEnd(reader.at) - reader.at
            /\ Discarded = reader.remaining
        BY <4>1 DEF CurrentComplete, Discarded
      <4>6. Inflates(reader.at) <=> After(meant, i) <= Len(file)
        BY <1>1, <2>1, <4>1, <4>4, InflateIs
      <4>7. DataEnd(reader.at) = EndOfData(meant, i)
        BY <1>1, <2>1, <4>1, <4>4, DataEnds
      <4>8. EndOfData(meant, i) = After(meant, i) - 1 /\ After(meant, i) <= Len(file)
        BY <4>5, <4>6 DEF EndOfData
      <4>9. DataEnd(reader.at) = (Offset(meant, i) + Size(meant, i) + 2) - 1
        BY <2>2, <4>7, <4>8
      <4>10. n \in Nat /\ reader.remaining = DataEnd(reader.at) - reader.at
        BY <4>1, <4>5
      <4>11. /\ SizeTold(meant, file, i) = Size(meant, i)
             /\ DataEnd(reader.at) + 1 = Offset(meant, i) + Size(meant, i) + 2
        <5>1. reader.remaining = ((Offset(meant, i) + Size(meant, i) + 2) - 1) - reader.at
          BY <4>9, <4>10
        <5>2. SizeTold(meant, file, i) = Size(meant, i)
          <6>1. Told(Offset(meant, i), Size(meant, i), n, SizeTold(meant, file, i), reader.at, reader.remaining)
            BY <2>1, <2>2, <4>1, <4>4, <4>10, <5>1, Zenon DEF Told
          <6> QED
            BY <6>1, ToldIs
        <5> QED
          BY <2>2, <4>9, <5>2
      <4>12. AfterCurrent = After(meant, i)
        BY <2>2, <4>1, <4>11 DEF AfterCurrent
      <4> QED
        BY <4>8, <4>11, <4>12 DEF Sound
    <3>2. CASE PastData(meant, file, seen[i], reader, i)
      <4>1. reader.z = "ended" /\ reader.at = After(meant, i)
            /\ reader.remaining = SizeTold(meant, file, i) - Size(meant, i)
        BY <3>2 DEF PastData
      <4>2. reader.remaining = 0
        BY <4>1 DEF CurrentComplete, Discarded
      <4>3. SizeTold(meant, file, i) = Size(meant, i)
        BY <2>1, <2>2, <4>1, <4>2
      <4>4. AfterCurrent = After(meant, i) /\ After(meant, i) <= Len(file)
        BY <2>1, <4>1 DEF AfterCurrent, Inside
      <4> QED
        BY <4>3, <4>4 DEF Sound
    <3> QED
      BY <2>1, <3>1, <3>2 DEF Inside
  <2>4. \A j \in 1..i : Sound(meant, file, j)
    BY <1>1, <2>3 DEF AllGot, i
  <2> QED
    BY <2>1, <2>2, <2>3, <2>4 DEF i
<1> QED
  BY <1>2, <1>3

(* Of a file as it was sent nothing is missing.                            *)
LEMMA AllThere ==
    ASSUME PackInv, Reading, file = sent, ~ writer.extra
    PROVE  WholeFile(meant, file) /\ HeaderRead /\ CurrentComplete
<1> DEFINE i == Len(seen)
<1>1. /\ AllMeant(meant) /\ Arrived(meant, file, sent, writer)
      /\ Len(meant) \in Nat /\ i \in Nat /\ i <= Len(meant)
      /\ IsSequence(file) /\ Len(file) \in Nat
  BY ReadingIs
<1>2. WholeFile(meant, file)
  BY <1>1 DEF Arrived
<1>3. CASE i = 0
  <2>1. Len(meant) \in 0..Len(meant)
    BY <1>1
  <2>2. After(meant, Len(meant)) \in Nat
    BY <1>1, <2>1, AfterAll
  <2>3. Len(file) > 0
    BY <1>2, <2>2 DEF WholeFile
  <2> QED
    BY <1>2, <1>3, <2>3, NoObjectRead
<1>4. CASE i # 0
  <2>1. /\ i \in 1..Len(meant) /\ Came(meant, file, i)
        /\ Inside(meant, file, seen[i], reader, i)
        /\ reader.at \in Nat /\ reader.remaining \in Int
        /\ HeaderRead
    BY <1>4, InsideIs
  <2> HIDE DEF i
  <2>2. /\ Offset(meant, i) \in Nat /\ Size(meant, i) \in Nat /\ After(meant, i) \in Nat
        /\ After(meant, i) = Offset(meant, i) + Size(meant, i) + 2
    BY <1>1, <2>1, Place
  <2>3. SizeTold(meant, file, i) = Size(meant, i) /\ After(meant, i) <= Len(file)
    BY <1>2, <2>1 DEF WholeFile, Sound
  <2>4. CASE InData(meant, file, seen[i], reader, i)
    <3> DEFINE n == reader.at - (Offset(meant, i) + 1)
    <3>1. reader.z = "open" /\ n \in 0..Size(meant, i) /\ reader.remaining = SizeTold(meant, file, i) - n
      BY <2>4 DEF InData
    <3>2. reader.at = Offset(meant, i) + 1 + n /\ reader.at <= Len(file)
      BY <2>1, <2>2, <3>1 DEF Inside
    <3> HIDE DEF n
    <3>3. Inflates(reader.at)
      BY <1>1, <2>1, <2>3, <3>1, <3>2, InflateIs
    <3>4. DataEnd(reader.at) = EndOfData(meant, i)
      BY <1>1, <2>1, <3>1, <3>2, DataEnds
    <3>5. EndOfData(meant, i) = After(meant, i) - 1
      BY <2>3 DEF EndOfData
    <3>6. DataEnd(reader.at) - reader.at = reader.remaining
      BY <2>1, <2>2, <2>3, <3>1, <3>2, <3>4, <3>5
    <3>7. Discarded = reader.remaining
      BY <3>1, <3>6 DEF Discarded
    <3> QED
      BY <1>2, <2>1, <3>3, <3>7 DEF CurrentComplete
  <2>5. CASE PastData(meant, file, seen[i], reader, i)
    <3>1. reader.z = "ended" /\ reader.remaining = SizeTold(meant, file, i) - Size(meant, i)
      BY <2>5 DEF PastData
    <3>2. reader.remaining = 0
      BY <2>2, <2>3, <3>1
    <3>3. Discarded = 0
      BY <3>1 DEF Discarded
    <3> QED
      BY <1>2, <2>1, <3>1, <3>2, <3>3 DEF CurrentComplete
  <2> QED
    BY <2>1, <2>4, <2>5 DEF Inside
<1> QED
  BY <1>3, <1>4

LEMMA NextFailing ==
    ASSUME PackInv, Reading, NEW at \in Nat, NextFails(at), file # sent \/ writer.extra
    PROVE  PackInv'
<1>1. /\ phase = "serial" /\ IsReader(reader) /\ AllGot(meant, file, seen)
  BY ReadingIs
<1>2. /\ reader' = [reader EXCEPT !.at = at] /\ seen' = seen /\ said' = "error"
      /\ UNCHANGED <<file, writer, meant, phase, sent>>
  BY DEF NextFails, NextReturns
<1>3. IsReader(reader')
  BY <1>1, <1>2 DEF IsReader
<1>4. AllGot(meant, file, seen')
  BY <1>1, <1>2
<1> QED
  BY <1>1, <1>2, <1>3, <1>4, StillReading

LEMMA NextRefusesKeeps == ASSUME PackInv, NextRefuses PROVE PackInv'
<1>1. Reading /\ ~(HeaderRead /\ CurrentComplete) /\ NextFails(reader.at)
  BY DEF NextRefuses
<1>2. file # sent \/ writer.extra
  BY <1>1, AllThere
<1>3. reader.at \in Nat
  BY <1>1, ReadingIs DEF IsReader
<1> QED
  BY <1>1, <1>2, <1>3, NextFailing

LEMMA NextEndsKeeps == ASSUME PackInv, NextEnds PROVE PackInv'
<1> DEFINE i == Len(seen)
<1>1. /\ Reading /\ HeaderRead /\ CurrentComplete /\ ObjectsLeft = 0
      /\ AfterCurrent < Len(file)
      /\ reader' = [reader EXCEPT !.at = AfterCurrent + 1]
      /\ seen' = seen /\ said' = "EOF"
      /\ UNCHANGED <<file, writer, meant, phase, sent>>
  BY DEF NextEnds, NextReturns
<1>2. /\ AfterCurrent = After(meant, i) /\ After(meant, i) \in Nat
      /\ ObjectsLeft = Len(meant) - i
      /\ \A j \in 1..i : Sound(meant, file, j)
  BY <1>1, Current
<1>3. /\ phase = "serial" /\ IsReader(reader) /\ AllGot(meant, file, seen)
      /\ Len(meant) \in Nat /\ i \in Nat /\ Len(file) \in Nat
  BY <1>1, ReadingIs
<1> HIDE DEF i
<1>4. i = Len(meant)
  BY <1>1, <1>2, <1>3
<1>5. /\ After(meant, i) + 1 <= Len(file) /\ After(meant, i) + 1 \in Nat
      /\ reader' = [reader EXCEPT !.at = After(meant, i) + 1]
  BY <1>1, <1>2, <1>3
<1>6. IsReader(reader') /\ reader'.at = After(meant, i) + 1
  BY <1>3, <1>5 DEF IsReader
<1>7. AtEnd(meant, file, seen', reader')
  BY <1>1, <1>2, <1>4, <1>5, <1>6 DEF AtEnd, i
<1>8. AllGot(meant, file, seen')
  BY <1>1, <1>3
<1> QED
  BY <1>1, <1>3, <1>6, <1>7, <1>8, StillReading

LEMMA NextCutKeeps == ASSUME PackInv, NextCut PROVE PackInv'
<1> DEFINE i == Len(seen)
<1>1. /\ Reading /\ HeaderRead /\ CurrentComplete /\ NextFails(AfterCurrent)
      /\ IF ObjectsLeft = 0 THEN AfterCurrent = Len(file)
         ELSE ~ HasHeader(AfterCurrent) \/ AfterCurrent + 1 = Len(file)
  BY DEF NextCut
<1>2. /\ AfterCurrent = After(meant, i) /\ After(meant, i) \in Nat
      /\ ObjectsLeft = Len(meant) - i
  BY <1>1, Current
<1>3. /\ AllMeant(meant) /\ Len(meant) \in Nat /\ i \in Nat /\ i <= Len(meant) /\ Len(file) \in Nat
      /\ \A j \in 1..Len(meant) : Came(meant, file, j)
  BY <1>1, ReadingIs
<1> HIDE DEF i
<1>4. ASSUME file = sent, ~ writer.extra PROVE FALSE
  <2>1. WholeFile(meant, file)
    BY <1>1, <1>4, AllThere
  <2>2. CASE ObjectsLeft = 0
    <3>1. i = Len(meant)
      BY <1>2, <1>3, <2>2
    <3>2. Len(file) = After(meant, i) + 1
      BY <2>1, <3>1 DEF WholeFile
    <3> QED
      BY <1>1, <1>2, <2>2, <3>2
  <2>3. CASE ObjectsLeft # 0
    <3> DEFINE n == i + 1
    <3>1. n \in 1..Len(meant) /\ n - 1 = i
      BY <1>2, <1>3, <2>3
    <3> HIDE DEF n
    <3>2. /\ Offset(meant, n) \in Nat /\ Size(meant, n) \in Nat
          /\ Offset(meant, n) = After(meant, i)
          /\ After(meant, n) = Offset(meant, n) + Size(meant, n) + 2
      BY <1>3, <3>1, Place
    <3>3. After(meant, n) <= Len(file)
      BY <2>1, <3>1 DEF WholeFile
    <3>4. Offset(meant, n) < Len(file) /\ Offset(meant, n) + 1 # Len(file)
          /\ Offset(meant, n) \in 0..(Len(file) - 1)
      BY <1>3, <3>2, <3>3
    <3>5. HasHeader(Offset(meant, n))
      BY <1>3, <3>1, <3>4 DEF HasHeader, Came, HeaderCame
    <3> QED
      BY <1>1, <1>2, <2>3, <3>2, <3>4, <3>5
  <2> QED
    BY <2>2, <2>3
<1>5. AfterCurrent \in Nat
  BY <1>2
<1> QED
  BY <1>1, <1>4, <1>5, NextFailing

LEMMA NextObjectKeeps == ASSUME PackInv, NextObject PROVE PackInv'
<1> DEFINE i == Len(seen)
           n == i + 1
           hdr == readObjectHeader(AfterCurrent)
           new == [hdr |-> hdr, data |-> <<>>, ended |-> FALSE]
<1>1. /\ Reading /\ HeaderRead /\ CurrentComplete /\ ObjectsLeft > 0
      /\ HasHeader(AfterCurrent) /\ AfterCurrent + 1 < Len(file)
      /\ reader' = [at |-> AfterCurrent + 1, left |-> ObjectsLeft - 1,
                    z |-> "open", remaining |-> hdr.size]
      /\ seen' = Append(seen, new)
      /\ said' = "object"
      /\ UNCHANGED <<file, writer, meant, phase, sent>>
  BY DEF NextObject, NextReturns
<1>2. /\ AfterCurrent = After(meant, i) /\ After(meant, i) \in Nat
      /\ ObjectsLeft = Len(meant) - i
      /\ \A j \in 1..i : Sound(meant, file, j)
  BY <1>1, Current
<1>3. /\ phase = "serial" /\ AllMeant(meant) /\ AllGot(meant, file, seen)
      /\ Len(meant) \in Nat /\ i \in Nat /\ i <= Len(meant) /\ Len(file) \in Nat
      /\ IsSequence(seen)
      /\ \A j \in 1..Len(meant) : Came(meant, file, j)
  BY <1>1, ReadingIs
<1>4. n \in 1..Len(meant) /\ n - 1 = i /\ Len(meant) - n \in Nat /\ ObjectsLeft - 1 = Len(meant) - n
      /\ n \in Nat /\ n # 0 /\ i < n
  <2> HIDE DEF i
  <2> QED
    BY <1>1, <1>2, <1>3
<1>5. Len(seen') = n /\ IsSequence(seen') /\ seen'[n] = new /\ \A j \in 1..i : seen'[j] = seen[j]
  BY <1>1, <1>3, AppendAt
<1> HIDE DEF i, n, hdr
<1>6. /\ Offset(meant, n) \in Nat /\ Size(meant, n) \in Nat
      /\ Offset(meant, n) = After(meant, i)
      /\ After(meant, n) = Offset(meant, n) + Size(meant, n) + 2
      /\ IsSequence(Units(meant, n))
  BY <1>3, <1>4, Place
<1>7. Offset(meant, n) < Len(file) /\ AfterCurrent = Offset(meant, n)
  BY <1>1, <1>2, <1>3, <1>6
<1>8. HeaderSeen(meant, file, hdr, n)
  BY <1>3, <1>4, <1>7, HeaderIsRead DEF hdr
<1>9. hdr.size = SizeTold(meant, file, n) /\ SizeTold(meant, file, n) \in Nat
  BY <1>3, <1>4, <1>7, <1>8 DEF HeaderSeen, Came, HeaderCame
<1>10. /\ reader'.at = Offset(meant, n) + 1 /\ reader'.left = Len(meant) - n
       /\ reader'.z = "open" /\ reader'.remaining = SizeTold(meant, file, n)
       /\ IsReader(reader')
  <2>1. AfterCurrent + 1 \in Nat /\ SizeTold(meant, file, n) \in Int
    BY <1>2, <1>9
  <2> QED
    BY <1>1, <1>4, <1>7, <1>9, <2>1 DEF IsReader
<1>11. DataSeen(meant, <<>>, n)
  <2>1. \A j \in 1..0 : FALSE
    OBVIOUS
  <2> QED
    BY <1>6, <2>1, EmptySequence DEF DataSeen
<1>12. Got(meant, file, new, n)
  BY <1>7, <1>8, <1>11 DEF Got
<1>13. AllGot(meant, file, seen')
  <2>1. \A j \in 1..n : j \in 1..i \/ j = n
    BY <1>3 DEF n
  <2>2. \A j \in 1..i : Got(meant, file, seen[j], j)
    BY <1>3 DEF AllGot, i
  <2>3. n <= Len(meant)
    BY <1>4
  <2>4. \A j \in 1..n : Got(meant, file, seen'[j], j)
    BY <1>5, <1>12, <2>1, <2>2
  <2>5. \A j \in 1..n : j # n => Sound(meant, file, j)
    BY <1>2, <2>1
  <2> QED
    BY <1>5, <2>3, <2>4, <2>5 DEF AllGot
<1>14. Inside(meant, file, seen'[n], reader', n)
  <2>1. reader'.at <= Len(file) /\ reader'.at - (Offset(meant, n) + 1) = 0
    BY <1>3, <1>6, <1>7, <1>10
  <2>2. 0 \in 0..Size(meant, n) /\ SizeTold(meant, file, n) - 0 = SizeTold(meant, file, n)
    BY <1>6, <1>9
  <2>3. Len(seen'[n].data) = 0
    BY <1>5, EmptySequence
  <2>4. InData(meant, file, seen'[n], reader', n)
    BY <1>10, <2>1, <2>2, <2>3 DEF InData
  <2> QED
    BY <1>10, <2>1, <2>4 DEF Inside
<1>15. AtObject(meant, file, seen', reader', said')
  BY <1>1, <1>4, <1>5, <1>14 DEF AtObject
<1> QED
  BY <1>1, <1>3, <1>10, <1>13, <1>15, StillReading

(* What a Read that got n units leaves: h to the caller, q in the reader.  *)
ReadTo(m, f, g, r, i, data, n, atEnd) ==
    LET over   == r.remaining - n
        failed == over < 0 \/ (atEnd /\ over > 0) \/ (~ atEnd /\ n = 0)
        h      == [g EXCEPT !.data = data, !.ended = @ \/ (atEnd /\ ~ failed)]
        q      == [r EXCEPT !.at = @ + n + (IF atEnd /\ r.z = "open" THEN 1 ELSE 0),
                            !.z = IF atEnd THEN "ended" ELSE @,
                            !.remaining = over]
    IN  /\ Got(m, f, h, i)
        /\ Inside(m, f, h, q, i)
        /\ IsReader(q)
        /\ failed => Bad(m, f, i)

(* What is given follows the first n units of object i.                    *)
Follows(m, i, n, given) == \A j \in 1..Len(given) : given[j] = Units(m, i)[n + j]

(* The units that a Read in the data hands over follow those of before.    *)
LEMMA DataRead ==
    ASSUME NEW m, NEW i, NEW d, DataSeen(m, d, i), NEW given, IsSequence(given),
           NEW c \in Nat, c <= Len(given), Len(d) + c <= Size(m, i),
           Follows(m, i, Len(d), given)
    PROVE  LET e == d \o SubSeq(given, 1, c)
           IN  DataSeen(m, e, i) /\ Len(e) = Len(d) + c
<1> DEFINE t == SubSeq(given, 1, c)
           e == d \o t
           n == Len(d)
<1>1. IsSequence(d) /\ n \in Nat /\ \A j \in 1..n : d[j] = Units(m, i)[j]
  BY Lengths DEF DataSeen
<1>2. IsSequence(t) /\ Len(t) = c /\ \A j \in 1..c : t[j] = given[j]
  BY StartAt
<1>3. Len(given) \in Nat
  BY Lengths
<1> HIDE DEF t
<1>4. Joined(d, t, e)
  BY <1>1, <1>2, Joins
<1>5. IsSequence(e) /\ Len(e) = n + c /\ Has(e, 0, d) /\ Has(e, n, t)
  BY <1>2, <1>4 DEF Joined
<1> HIDE DEF e
<1>6. \A j \in 1..n : e[j] = Units(m, i)[j]
  <2>1. \A j \in 1..n : e[0 + j] = d[j] /\ 0 + j = j
    BY <1>5 DEF Has
  <2> QED
    BY <1>1, <2>1
<1>7. ASSUME NEW j \in 1..c PROVE e[n + j] = Units(m, i)[n + j]
  <2>1. e[n + j] = t[j]
    BY <1>2, <1>5 DEF Has
  <2>2. j \in 1..Len(given)
    BY <1>3
  <2> QED
    BY <1>2, <2>1, <2>2 DEF Follows
<1> HIDE DEF n
<1>8. ASSUME NEW j \in 1..(n + c) PROVE e[j] = Units(m, i)[j]
  <2>1. CASE j \in 1..n
    BY <1>6, <2>1
  <2>2. CASE j \notin 1..n
    <3>1. (j - n) \in 1..c /\ n + (j - n) = j
      BY <1>1, <2>2
    <3> QED
      BY <1>7, <3>1
  <2> QED
    BY <2>1, <2>2
<1>9. Len(e) <= Size(m, i)
  BY <1>5 DEF n
<1> QED
  BY <1>5, <1>8, <1>9 DEF DataSeen, e, t, n

LEMMA DataReplaced ==
    ASSUME NEW g, g \in [hdr : {g.hdr}, data : {g.data}, ended : BOOLEAN],
           NEW d, NEW e \in BOOLEAN
    PROVE  LET h == [g EXCEPT !.data = d, !.ended = e]
           IN  /\ h \in [hdr : {h.hdr}, data : {h.data}, ended : BOOLEAN]
               /\ h.hdr = g.hdr /\ h.data = d /\ h.ended = e
<1> DEFINE h == [g EXCEPT !.data = d, !.ended = e]
<1>1. g \in [hdr : {g.hdr}, data : {g.data, d}, ended : BOOLEAN]
  OBVIOUS
<1>2. /\ h \in [hdr : {g.hdr}, data : {g.data, d}, ended : BOOLEAN]
      /\ h.hdr = g.hdr /\ h.data = d /\ h.ended = e
  BY <1>1
<1> QED
  BY <1>2

(* What zlib gives a Read of k units in the data.                         *)
Given(r, k, there, n, atEnd) ==
    /\ there = DataEnd(r.at) - r.at
    /\ n = Min({k, there})
    /\ atEnd => n = there /\ Inflates(r.at)
    /\ ~ atEnd => n > 0 \/ ~ Inflates(r.at)

(* Of the told units, was and then n more were read of s there are.        *)
Tally(told, s, was, n, over) ==
    /\ told \in Nat /\ s \in Nat /\ was \in Nat /\ n \in Nat
    /\ was + n <= s /\ over = told - (was + n)

LEMMA TallyIs ==
    ASSUME NEW told, NEW s, NEW was, NEW n, NEW over, Tally(told, s, was, n, over)
    PROVE  /\ over \in Int
           /\ over < 0 => told # s
           /\ was + n = s => over = told - s
           /\ was + n = s /\ over > 0 => told # s
           /\ was + n = s /\ ~(over < 0) /\ ~(over > 0) => over = 0 /\ told = s
  BY DEF Tally

LEMMA EndPlace ==
    ASSUME NEW o \in Nat, NEW was \in Nat, NEW n \in Nat, NEW s, was + n = s
    PROVE  (o + 1 + was) + n + 1 = o + s + 2
  OBVIOUS

LEMMA ReadInData ==
    ASSUME NEW m, AllMeant(m), IsSequence(file), NEW i \in 1..Len(m), Came(m, file, i),
           NEW g, NEW r, Got(m, file, g, i), Inside(m, file, g, r, i), IsReader(r),
           InData(m, file, g, r, i), r.remaining >= 0, SizeTold(m, file, i) \in Nat,
           NEW k \in Nat, k > 0, NEW atEnd \in BOOLEAN, NEW there, NEW n,
           Given(r, k, there, n, atEnd)
    PROVE  ReadTo(m, file, g, r, i, g.data \o SubSeq(Inflate(r.at), 1, Min({n, r.remaining})), n, atEnd)
<1> DEFINE o == Offset(m, i)
           s == Size(m, i)
           told == SizeTold(m, file, i)
           was == r.at - (o + 1)
           over == r.remaining - n
           c == Min({n, r.remaining})
           data == g.data \o SubSeq(Inflate(r.at), 1, c)
           failed == over < 0 \/ (atEnd /\ over > 0) \/ (~ atEnd /\ n = 0)
           fin == g.ended \/ (atEnd /\ ~ failed)
           h == [g EXCEPT !.data = data, !.ended = fin]
           q == [r EXCEPT !.at = @ + n + (IF atEnd /\ r.z = "open" THEN 1 ELSE 0),
                          !.z = IF atEnd THEN "ended" ELSE @,
                          !.remaining = over]
<1>1. /\ o \in Nat /\ s \in Nat /\ After(m, i) = o + s + 2 /\ After(m, i) \in Nat
      /\ Len(file) \in Nat
  BY Place, Lengths
<1>2. /\ r.z = "open" /\ was \in 0..s /\ r.remaining = told - was /\ Len(g.data) = was
      /\ r.at \in Nat /\ r.remaining \in Int /\ r.left = Len(m) - i /\ r.at <= Len(file)
  BY DEF InData, Inside, IsReader
<1>3. r.at = o + 1 + was /\ was \in Nat /\ was <= s /\ told \in Nat
  <2>1. \A x, y \in Nat : x = y + 1 + (x - (y + 1))
    OBVIOUS
  <2>2. r.at = o + 1 + was
    BY <1>1, <1>2, <2>1
  <2>3. was \in 0..s
    BY <1>2
  <2> HIDE DEF was
  <2> QED
    BY <1>1, <2>2, <2>3
<1>4. r.remaining = told - was /\ Len(g.data) = was
  BY <1>2
<1> HIDE DEF was
<1>5. /\ DataEnd(r.at) = EndOfData(m, i)
      /\ EndOfData(m, i) <= Len(file)
  BY <1>2, <1>3, DataEnds
<1>6. /\ Inflates(r.at) <=> After(m, i) <= Len(file)
      /\ there \in Nat /\ was + there <= s
      /\ After(m, i) <= Len(file) => was + there = s
  <2>1. there = EndOfData(m, i) - r.at
    BY <1>5 DEF Given
  <2> QED
    BY <1>2, <1>3, <2>1, InflateIs
<1>7. /\ IsSequence(Inflate(r.at)) /\ Len(Inflate(r.at)) = there
      /\ \A j \in 1..there : Inflate(r.at)[j] = Units(m, i)[was + j]
  <2>1. there = EndOfData(m, i) - r.at
    BY <1>5 DEF Given
  <2> QED
    BY <1>2, <1>3, <2>1, InflateIs
<1>8. r.at + there <= Len(file)
  <2>1. there = DataEnd(r.at) - r.at
    BY DEF Given
  <2> QED
    <3>1. DataEnd(r.at) <= Len(file) /\ r.at \in Nat /\ Len(file) \in Nat /\ there \in Nat
      BY <1>1, <1>2, <1>5, <1>6
    <3>2. DataEnd(r.at) \in Nat
      BY <1>2, <1>3, DataEnds
    <3> QED
      BY <2>1, <3>1, <3>2
<1>9. n = IF k <= there THEN k ELSE there
  <2>1. n = Min({k, there})
    BY DEF Given
  <2>2. k \in Int /\ there \in Int
    BY <1>6
  <2> QED
    BY <2>1, <2>2, MinOf
<1>10. /\ atEnd => n = there /\ Inflates(r.at)
       /\ ~ atEnd => n > 0 \/ ~ Inflates(r.at)
  BY DEF Given
<1>11. n \in Nat /\ n <= there /\ (n = 0 => there = 0)
  BY <1>6, <1>9
<1>12. c = IF n <= r.remaining THEN n ELSE r.remaining
  BY <1>2, <1>11, MinOf
<1> HIDE DEF c
<1>13. c \in Nat /\ c <= n /\ (over >= 0 => c = n)
  BY <1>2, <1>11, <1>12
<1>14. DataSeen(m, data, i) /\ Len(data) = was + c
  <2>1. DataSeen(m, g.data, i)
    BY DEF Got
  <2>2. c <= Len(Inflate(r.at)) /\ Len(g.data) + c <= s
    <3>1. s \in Nat /\ was \in Nat /\ n \in Nat /\ c \in Nat /\ c <= n
      BY <1>1, <1>3, <1>11, <1>13
    <3>2. there \in Nat /\ was + there <= s /\ n <= there
      BY <1>6, <1>11
    <3>3. Len(g.data) = was /\ Len(Inflate(r.at)) = there
      BY <1>7, <1>4
    <3> HIDE DEF o, s, told, h, q, fin, failed
    <3> QED
      BY <3>1, <3>2, <3>3
  <2>3. Follows(m, i, Len(g.data), Inflate(r.at))
    BY <1>7, <1>4 DEF Follows
  <2> QED
    <3> DEFINE d == g.data
               given == Inflate(r.at)
    <3>1. /\ DataSeen(m, d, i) /\ IsSequence(given) /\ Follows(m, i, Len(d), given)
          /\ c \in Nat /\ c <= Len(given) /\ Len(d) + c <= Size(m, i)
      BY <1>13, <1>7, <2>1, <2>2, <2>3
    <3> HIDE DEF d, given
    <3>2. LET e == d \o SubSeq(given, 1, c)
          IN  DataSeen(m, e, i) /\ Len(e) = Len(d) + c
      BY <3>1, DataRead
    <3> QED
      BY <1>4, <3>2 DEF d, given
<1> HIDE DEF data
<1>15. over \in Int /\ over = told - (was + n) /\ was + n <= s /\ was + n \in Nat
  <2>1. s \in Nat /\ told \in Nat /\ was \in Nat /\ n \in Nat
    BY <1>1, <1>3, <1>11
  <2>2. there \in Nat /\ was + there <= s /\ n <= there
    BY <1>6, <1>11
  <2> HIDE DEF o, s, told, h, q, fin, failed
  <2> QED
    BY <1>4, <2>1, <2>2
<1> HIDE DEF over
<1>16. Tally(told, s, was, n, over)
  BY <1>1, <1>3, <1>11, <1>15, Zenon DEF Tally
<1>17. /\ over \in Int
       /\ over < 0 => told # s
       /\ was + n = s => over = told - s
       /\ was + n = s /\ over > 0 => told # s
       /\ was + n = s /\ ~(over < 0) /\ ~(over > 0) => over = 0 /\ told = s
  BY <1>16, TallyIs
<1>18. failed => Bad(m, file, i)
  <2>1. ASSUME over < 0 PROVE told # s
    BY <1>17, <2>1
  <2>2. ASSUME atEnd, over > 0 PROVE told # s
    <3>1. was + n = s
      BY <1>6, <1>10, <2>2
    <3> QED
      BY <1>17, <2>2, <3>1
  <2>3. ASSUME ~ atEnd, n = 0 PROVE Len(file) < After(m, i)
    <3>1. ~ (After(m, i) <= Len(file))
      BY <1>6, <1>11, <1>10, <2>3
    <3> QED
      BY <1>1, <3>1
  <2>4. CASE over < 0 \/ (atEnd /\ over > 0)
    BY <2>1, <2>2, <2>4 DEF Bad, Sound
  <2>5. CASE ~ atEnd /\ n = 0
    BY <2>3, <2>5 DEF Bad
  <2> QED
    BY <2>4, <2>5
<1>19. ASSUME fin PROVE Len(data) = s /\ told = s
  <2>1. CASE g.ended
    <3>1. Len(g.data) = s /\ told = s
      BY <2>1 DEF Got, Sound
    <3>2. was = s /\ c = 0
      BY <1>1, <1>2, <1>3, <1>6, <1>11, <1>13, <3>1
    <3> QED
      BY <1>1, <1>14, <3>1, <3>2
  <2>2. CASE atEnd /\ ~ failed
    <3>1. ~ (over < 0) /\ ~ (over > 0) /\ was + n = s
      BY <1>6, <1>10, <2>2
    <3>2. over = 0 /\ told = s
      BY <1>17, <3>1
    <3>3. c = n
      BY <1>13, <3>2
    <3> QED
      BY <1>14, <3>1, <3>2, <3>3
  <2> QED
    BY <1>19, <2>1, <2>2
<1> HIDE DEF fin
<1>20. /\ h \in [hdr : {h.hdr}, data : {h.data}, ended : BOOLEAN]
       /\ h.hdr = g.hdr /\ h.data = data /\ h.ended = fin
  <2>1. g \in [hdr : {g.hdr}, data : {g.data}, ended : BOOLEAN]
    BY DEF Got
  <2>2. fin \in BOOLEAN
    BY DEF fin
  <2> QED
    BY <2>1, <2>2, DataReplaced, Zenon
<1>21. /\ atEnd => q.at = r.at + n + 1
       /\ ~ atEnd => q.at = r.at + n
       /\ q.left = r.left
       /\ q.z = (IF atEnd THEN "ended" ELSE "open") /\ q.remaining = over
       /\ IsReader(q)
  <2> DEFINE at == r.at + n + (IF atEnd /\ r.z = "open" THEN 1 ELSE 0)
             z == IF atEnd THEN "ended" ELSE r.z
  <2>1. \A x, y \in Nat : x + y \in Nat /\ x + y + 1 \in Nat /\ x + y + 0 = x + y
    OBVIOUS
  <2>2. r.at \in Nat /\ n \in Nat
    BY <1>2, <1>11
  <2>3. r.at + n \in Nat /\ r.at + n + 1 \in Nat /\ r.at + n + 0 = r.at + n
    BY <2>1, <2>2
  <2>4. at \in Nat /\ (atEnd => at = r.at + n + 1) /\ (~ atEnd => at = r.at + n)
    BY <1>2, <2>3
  <2>5. z \in {"none", "open", "ended"} /\ z = (IF atEnd THEN "ended" ELSE "open")
    BY <1>2
  <2>6. q = [r EXCEPT !.at = at, !.z = z, !.remaining = over]
    OBVIOUS
  <2> HIDE DEF at, z, q, h, fin, failed
  <2>7. /\ IsReader(q)
        /\ q.at = at /\ q.left = r.left /\ q.z = z /\ q.remaining = over
    <3>1. /\ at \in Nat /\ z \in {"none", "open", "ended"} /\ over \in Int
          /\ IsReader(r)
      BY <1>15, <2>4, <2>5
    <3> QED
      BY <2>6, <3>1 DEF IsReader
  <2> QED
    BY <2>4, <2>5, <2>7
<1> HIDE DEF failed, h, q
<1>22. Got(m, file, h, i)
  <2>1. o < Len(file) /\ HeaderSeen(m, file, g.hdr, i)
    BY DEF Got
  <2>2. h \in [hdr : {h.hdr}, data : {h.data}, ended : BOOLEAN]
    BY <1>20
  <2>3. h.ended => Len(h.data) = s /\ Sound(m, file, i)
    BY <1>19, <1>20 DEF Sound
  <2> QED
    BY <1>14, <1>20, <2>1, <2>2, <2>3 DEF Got
<1>23. Inside(m, file, h, q, i)
  <2>1. CASE atEnd
    <3>1. was + n = s /\ After(m, i) <= Len(file)
      BY <1>6, <1>10, <2>1
    <3>2. q.at = After(m, i)
      <4>1. (o + 1 + was) + n + 1 = o + s + 2
        BY <1>1, <1>3, <1>11, <3>1, EndPlace
      <4>2. q.at = r.at + n + 1
        BY <1>21, <2>1
      <4> QED
        BY <1>1, <1>3, <4>1, <4>2
    <3>3. q.remaining = told - s /\ q.z = "ended"
      BY <1>17, <1>21, <2>1, <3>1
    <3>4. q.remaining >= 0 => Len(h.data) = s
      BY <1>13, <1>14, <1>20, <1>21, <3>1
    <3> QED
      BY <1>2, <1>21, <3>1, <3>2, <3>3, <3>4 DEF Inside, PastData
  <2>2. CASE ~ atEnd
    <3>1. q.at = r.at + n
      BY <1>21, <2>2
    <3>2. q.at - (o + 1) = was + n /\ q.at <= Len(file)
      <4>1. n <= there /\ n \in Nat /\ there \in Nat /\ was \in Nat /\ o \in Nat
        BY <1>1, <1>3, <1>6, <1>11
      <4>2. r.at + there <= Len(file) /\ r.at = o + 1 + was /\ Len(file) \in Nat
        BY <1>1, <1>3, <1>8
      <4> HIDE DEF o, s, told
      <4> QED
        BY <3>1, <4>1, <4>2
    <3>3. was + n \in 0..s
      BY <1>1, <1>15
    <3>4. q.remaining = told - (was + n) /\ q.z = "open"
      BY <1>15, <1>21, <2>2
    <3>5. q.remaining >= 0 => Len(h.data) = was + n
      BY <1>13, <1>14, <1>20, <1>21
    <3> QED
      BY <1>2, <1>21, <3>3, <3>4, <3>5, <3>2 DEF Inside, InData
  <2> QED
    BY <2>1, <2>2
<1>24. ReadTo(m, file, g, r, i, data, n, atEnd)
  BY <1>18, <1>21, <1>22, <1>23 DEF ReadTo, h, fin, q, failed, over
<1> QED
  BY <1>24 DEF data, c

LEMMA JoinedNone == ASSUME NEW s, IsSequence(s) PROVE s \o <<>> = s
<1> DEFINE t == s \o <<>>
<1>1. IsSequence(<<>>) /\ Len(<<>>) = 0 /\ Len(s) \in Nat
  BY EmptySequence, Lengths
<1>2. Joined(s, <<>>, t)
  BY <1>1, Joins
<1>3. IsSequence(t) /\ Len(t) = Len(s) + 0 /\ Has(t, 0, s)
  BY <1>1, <1>2 DEF Joined
<1> HIDE DEF t
<1>4. Len(t) = Len(s)
  BY <1>1, <1>3
<1>5. \A j \in 1..Len(s) : t[0 + j] = s[j] /\ 0 + j = j
  BY <1>3 DEF Has
<1>6. t = s
  BY <1>3, <1>4, <1>5, SameSequence
<1> QED
  BY <1>6 DEF t

LEMMA ReadPastData ==
    ASSUME NEW m, AllMeant(m), NEW i \in 1..Len(m),
           NEW g, NEW r, Got(m, file, g, i), Inside(m, file, g, r, i), IsReader(r),
           PastData(m, file, g, r, i), r.remaining >= 0, SizeTold(m, file, i) \in Nat
    PROVE  ReadTo(m, file, g, r, i, g.data \o <<>>, 0, TRUE)
<1> DEFINE s == Size(m, i)
           told == SizeTold(m, file, i)
           over == r.remaining - 0
           failed == over < 0 \/ (TRUE /\ over > 0) \/ (~ TRUE /\ 0 = 0)
           fin == g.ended \/ (TRUE /\ ~ failed)
           h == [g EXCEPT !.data = g.data \o <<>>, !.ended = fin]
           q == [r EXCEPT !.at = @ + 0 + (IF TRUE /\ r.z = "open" THEN 1 ELSE 0),
                          !.z = IF TRUE THEN "ended" ELSE @,
                          !.remaining = over]
<1>1. s \in Nat /\ told \in Nat
  BY Place
<1>2. /\ r.z = "ended" /\ r.remaining = told - s /\ Len(g.data) = s
      /\ r.at \in Nat /\ r.remaining \in Int /\ r.left = Len(m) - i /\ r.at <= Len(file)
  BY DEF PastData, Inside, IsReader
<1>3. over = r.remaining /\ failed = (over > 0) /\ (failed <=> told # s)
  BY <1>1, <1>2
<1> HIDE DEF over
<1>4. g.data \o <<>> = g.data
  <2>1. DataSeen(m, g.data, i)
    BY DEF Got
  <2>2. IsSequence(g.data)
    BY <2>1 DEF DataSeen
  <2> QED
    BY <2>2, JoinedNone
<1> HIDE DEF failed
<1>5. q = r
  <2>1. r.at + 0 + 0 = r.at
    BY <1>2
  <2> QED
    BY <1>2, <1>3, <2>1 DEF IsReader
<1>6. fin <=> g.ended \/ ~ failed
  OBVIOUS
<1>7. fin \in BOOLEAN
  OBVIOUS
<1> HIDE DEF fin
<1>8. /\ h \in [hdr : {h.hdr}, data : {h.data}, ended : BOOLEAN]
      /\ h.hdr = g.hdr /\ h.data = g.data /\ h.ended = fin
  <2>1. g \in [hdr : {g.hdr}, data : {g.data}, ended : BOOLEAN]
    BY DEF Got
  <2> QED
    BY <1>4, <1>7, <2>1, DataReplaced
<1> HIDE DEF h, q
<1>9. Got(m, file, h, i)
  <2>1. h.ended => Len(h.data) = s /\ Sound(m, file, i)
    BY <1>2, <1>3, <1>8, <1>6 DEF Got, Sound
  <2>2. h \in [hdr : {h.hdr}, data : {h.data}, ended : BOOLEAN]
    BY <1>8
  <2> QED
    BY <1>8, <2>1, <2>2 DEF Got
<1>10. Inside(m, file, h, q, i)
  BY <1>5, <1>8 DEF Inside, PastData, InData
<1>11. failed => Bad(m, file, i)
  BY <1>3 DEF Bad, Sound
<1> QED
  BY <1>5, <1>9, <1>10, <1>11 DEF ReadTo, h, fin, q, failed, over

LEMMA ReadKeeps ==
    ASSUME PackInv, NEW k \in 1..MaxChunk, Read(k)
    PROVE  PackInv'
<1> DEFINE i == Len(seen)
           g == seen[i]
           n == Min({k, Discarded})
           over == reader.remaining - n
           units == IF reader.z = "open"
                      THEN SubSeq(Inflate(reader.at), 1, Min({n, reader.remaining}))
                    ELSE <<>>
<1> DEFINE Fails(e) == over < 0 \/ (e /\ over > 0) \/ (~ e /\ n = 0)
           Fin(e) == g.ended \/ (e /\ ~ Fails(e))
           New(e) == [g EXCEPT !.data = g.data \o units, !.ended = Fin(e)]
<1>1. /\ Reading /\ reader.z # "none" /\ reader.remaining >= 0
      /\ UNCHANGED <<file, writer, meant, phase, sent>>
  BY DEF Read
<1>2. PICK atEnd \in BOOLEAN :
        /\ atEnd => n = Discarded /\ (reader.z = "open" => Inflates(reader.at))
        /\ ~ atEnd => n > 0 \/ ~ Inflates(reader.at)
        /\ ~ atEnd => reader.z = "open"
        /\ seen' = [seen EXCEPT ![i] = New(atEnd)]
        /\ said' = IF Fails(atEnd) THEN "bad object"
                   ELSE IF atEnd THEN "object end" ELSE "data"
        /\ reader' = [reader EXCEPT
             !.at = @ + n + (IF atEnd /\ reader.z = "open" THEN 1 ELSE 0),
             !.z = IF atEnd THEN "ended" ELSE @,
             !.remaining = over]
  BY DEF Read
<1>3. i # 0
  BY <1>1, NoObjectRead
<1>4. /\ i \in 1..Len(meant) /\ Came(meant, file, i)
      /\ Inside(meant, file, g, reader, i)
      /\ Got(meant, file, g, i)
      /\ SizeTold(meant, file, i) \in Nat
  BY <1>1, <1>3, InsideIs
<1>5. /\ phase = "serial" /\ AllMeant(meant) /\ IsReader(reader) /\ AllGot(meant, file, seen)
      /\ Len(meant) \in Nat /\ i \in Nat /\ i <= Len(meant) /\ Len(file) \in Nat
      /\ IsSequence(file) /\ IsSequence(seen)
  BY <1>1, ReadingIs
<1>6. k \in Nat /\ k > 0
  BY StreamAssumption
<1> DEFINE failed == Fails(atEnd)
           fin == Fin(atEnd)
           h == New(atEnd)
<1>7. ReadTo(meant, file, g, reader, i, g.data \o units, n, atEnd)
  <2>1. CASE InData(meant, file, g, reader, i)
    <3>1. reader.z = "open"
      BY <2>1 DEF InData
    <3>2. Discarded = DataEnd(reader.at) - reader.at
      BY <3>1 DEF Discarded
    <3> DEFINE there == Discarded
    <3> HIDE DEF there, g, i
    <3>3. Given(reader, k, there, n, atEnd)
      BY <1>2, <3>1, <3>2 DEF Given, there
    <3> HIDE DEF n
    <3>4. ReadTo(meant, file, g, reader, i,
                 g.data \o SubSeq(Inflate(reader.at), 1, Min({n, reader.remaining})), n, atEnd)
      BY <1>1, <1>4, <1>5, <1>6, <2>1, <3>3, ReadInData
    <3> QED
      BY <3>1, <3>4
  <2>2. CASE PastData(meant, file, g, reader, i)
    <3>1. reader.z = "ended"
      BY <2>2 DEF PastData
    <3>2. Discarded = 0 /\ units = <<>>
      BY <3>1 DEF Discarded
    <3>3. n = 0
      BY <1>6, <3>2, MinOf
    <3>4. atEnd = TRUE
      BY <1>2, <3>1
    <3> HIDE DEF n, units, g, i
    <3>5. ReadTo(meant, file, g, reader, i, g.data \o <<>>, 0, TRUE)
      BY <1>1, <1>4, <1>5, <2>2, ReadPastData
    <3> QED
      BY <3>2, <3>3, <3>4, <3>5
  <2> QED
    BY <1>4, <2>1, <2>2 DEF Inside
<1>8. seen' = [seen EXCEPT ![i] = h]
  <2> HIDE DEF New
  <2> QED
    BY <1>2
<1>9. /\ Got(meant, file, h, i)
      /\ Inside(meant, file, h, reader', i)
      /\ IsReader(reader')
      /\ failed => Bad(meant, file, i)
  <2> HIDE DEF n, units, g, i
  <2> QED
    BY <1>2, <1>7 DEF ReadTo
<1>10. said' = IF failed THEN "bad object" ELSE IF atEnd THEN "object end" ELSE "data"
  BY <1>2
<1> HIDE DEF h, fin, failed, n, units
<1>11. /\ IsSequence(seen') /\ Len(seen') = i /\ seen'[i] = h
       /\ \A j \in 1..i : j # i => seen'[j] = seen[j]
  <2> DEFINE x == seen'
  <2>1. x = [seen EXCEPT ![i] = h]
    BY <1>8
  <2>2. seen = [j \in 1..i |-> seen[j]]
    BY <1>5 DEF IsSequence
  <2> HIDE DEF x, i
  <2>3. x = [j \in 1..i |-> IF j = i THEN h ELSE seen[j]]
    BY <2>1, <2>2
  <2>4. x = [j \in 1..i |-> x[j]]
    BY <2>3
  <2>5. IsSequence(x) /\ Len(x) = i
    BY <1>5, <2>4, MadeSequence
  <2>6. i \in 1..i
    BY <1>3, <1>5
  <2> QED
    BY <2>3, <2>5, <2>6 DEF x
<1>12. AllGot(meant, file, seen')
  <2>1. \A j \in 1..i : Got(meant, file, seen'[j], j)
    BY <1>5, <1>9, <1>11 DEF AllGot
  <2>2. \A j \in 1..i : j # i => Sound(meant, file, j)
    BY <1>5 DEF AllGot
  <2> QED
    BY <1>5, <1>11, <2>1, <2>2 DEF AllGot
<1>13. AtObject(meant, file, seen', reader', said')
  BY <1>3, <1>9, <1>10, <1>11 DEF AtObject
<1>14. said' \notin {"error", "EOF"}
  BY <1>10
<1> QED
  BY <1>1, <1>5, <1>9, <1>12, <1>13, <1>14, StillReading

-----------------------------------------------------------------------------
(* The pack, among what may become of bytes.                               *)

LEMMA PackStarts == StreamInit => PackInv
<1> SUFFICES ASSUME StreamInit PROVE PackInv
  OBVIOUS
<1>1. /\ file = <<>> /\ meant = <<>> /\ seen = <<>> /\ phase = "writing"
      /\ writer \in [left : 0..MaxObjects, remaining : {0}, open : {FALSE},
                     extra : {FALSE}, closed : {FALSE}]
      /\ reader = [at |-> 0, left |-> 0, z |-> "none", remaining |-> 0]
  BY DEF StreamInit
<1>2. said \notin {"EOF", "error", "bad object"}
  BY Zenon DEF StreamInit
<1>3. MaxObjects \in Nat
  BY StreamAssumption
<1>4. AllMeant(meant)
  BY <1>1, <1>3, EmptySequence DEF AllMeant
<1>5. IsReader(reader) /\ reader.at = 0 /\ reader.z = "none"
  BY <1>1 DEF IsReader
<1>6. Idle(seen, reader, said)
  BY <1>1, <1>2, <1>5 DEF Idle
<1>7. /\ writer.left \in 0..MaxObjects /\ writer.remaining = 0 /\ ~ writer.open
      /\ ~ writer.extra /\ ~ writer.closed /\ IsWriter(writer)
  <2>1. writer \in [left : Nat, remaining : Nat, open : BOOLEAN, extra : BOOLEAN, closed : BOOLEAN]
    <3>1. 0..MaxObjects \subseteq Nat /\ {0} \subseteq Nat /\ {FALSE} \subseteq BOOLEAN
      BY <1>3
    <3>2. \A A, B, C, D, E : A \subseteq Nat /\ B \subseteq Nat /\ C \subseteq BOOLEAN
              /\ D \subseteq BOOLEAN /\ E \subseteq BOOLEAN =>
            [left : A, remaining : B, open : C, extra : D, closed : E] \subseteq
            [left : Nat, remaining : Nat, open : BOOLEAN, extra : BOOLEAN, closed : BOOLEAN]
      BY Zenon
    <3> QED
      BY <1>1, <3>1, <3>2
  <2>2. /\ writer.left \in 0..MaxObjects /\ writer.remaining \in {0} /\ writer.open \in {FALSE}
        /\ writer.extra \in {FALSE} /\ writer.closed \in {FALSE}
    BY <1>1
  <2> QED
    BY <2>1, <2>2 DEF IsWriter
<1>8. IsSequence(file) /\ Len(file) = 0 /\ Len(meant) = 0
  BY <1>1, EmptySequence
<1>9. writer.left + 0 <= MaxObjects
  BY <1>3, <1>7
<1>10. \A i \in 1..0 : FALSE
  OBVIOUS
<1>11. Exact(meant, file, writer)
  BY <1>7, <1>8 DEF Exact
<1>12. WrittenSoFar(meant, file, writer)
  BY <1>1, <1>7, <1>8, <1>9, <1>10, <1>11 DEF WrittenSoFar
<1>13. phase # "serial"
  BY <1>1
<1> QED
  BY <1>1, <1>4, <1>5, <1>6, <1>12, <1>13 DEF PackInv

LEMMA PackStays == ASSUME PackInv, UNCHANGED streamVars PROVE PackInv'
<1>1. /\ meant' = meant /\ file' = file /\ sent' = sent /\ writer' = writer /\ phase' = phase
      /\ reader' = reader /\ seen' = seen /\ said' = said
  BY DEF streamVars
<1> QED
  BY <1>1, Zenon DEF PackInv

LEMMA PackSteps == PackInv /\ [BytesNext]_bytesVars => PackInv'
<1> SUFFICES ASSUME PackInv, [BytesNext]_bytesVars PROVE PackInv'
  OBVIOUS
<1>1. ASSUME NEW o \in Objects, WriteHeader(o) PROVE PackInv'
  BY <1>1, WriteHeaderKeeps
<1>2. ASSUME WriteHeaderTooMany PROVE PackInv'
  BY <1>2, WriteHeaderTooManyKeeps
<1>3. ASSUME NEW k \in 1..MaxChunk, Write(k) PROVE PackInv'
  BY <1>3, WriteKeeps
<1>4. ASSUME CloseWriter PROVE PackInv'
  BY <1>4, CloseWriterKeeps
<1>5. ASSUME NEW as \in {"serial", "random"}, Arrive(as, file) PROVE PackInv'
  BY <1>5, ArriveKeeps
<1>6. ASSUME NEW as \in {"serial", "random"}, NEW n \in 0..MaxCut, ArriveCut(as, n) PROVE PackInv'
  <2>1. n \in Nat
    BY UndeltifyAssumption
  <2> QED
    BY <1>6, <2>1, ArriveCutKeeps
<1>7. ASSUME NEW i \in 1..MaxObjects, NEW d \in {-1, 1}, ArriveDamaged(i, d) PROVE PackInv'
  BY <1>7, ArriveDamagedKeeps
<1>8. ASSUME NextRefuses \/ NextEnds \/ NextCut \/ NextObject PROVE PackInv'
  BY <1>8, NextRefusesKeeps, NextEndsKeeps, NextCutKeeps, NextObjectKeeps
<1>9. ASSUME NEW k \in 1..MaxChunk, Read(k) PROVE PackInv'
  BY <1>9, ReadKeeps
<1>10. ASSUME NEW version, OpenIndex(version) PROVE UNCHANGED streamVars
  BY <1>10 DEF OpenIndex
<1>11. ASSUME NEW no, UndeltifyFails(no) \/ UndeltifyPlain(no) \/ UndeltifyDelta(no)
       PROVE  UNCHANGED streamVars
  <2>1. Calling(no)
    BY <1>11 DEF UndeltifyFails, UndeltifyPlain, UndeltifyDelta
  <2> QED
    BY <2>1 DEF Calling
<1>12. ASSUME InTree \/ InCommit PROVE UNCHANGED streamVars
  BY <1>12 DEF InTree, InCommit, vars
<1>13. ASSUME UNCHANGED bytesVars PROVE UNCHANGED streamVars
  BY <1>13 DEF bytesVars, vars
<1> QED
  BY <1>1, <1>2, <1>3, <1>4, <1>5, <1>6, <1>7, <1>8, <1>9, <1>10, <1>11, <1>12, <1>13,
     PackStays, Zenon DEF BytesNext

LEMMA BytesStart == BytesInit => PackInv
<1>1. BytesInit => StreamInit
  BY DEF BytesInit, PackIdle, Init
<1> QED
  BY <1>1, PackStarts

LEMMA PrefixSeen ==
    ASSUME NEW m, AllMeant(m), NEW i \in 1..Len(m), NEW d, DataSeen(m, d, i)
    PROVE  /\ IsPrefix(d, m[i].data)
           /\ Len(d) = Size(m, i) => d = m[i].data
<1> DEFINE t == m[i].data
           n == Len(d)
           p == SubSeq(t, 1, n)
           q == SubSeq(d, 1, n)
<1>1. IsSequence(t) /\ Len(t) = Size(m, i)
  BY Place DEF Units
<1>2. IsSequence(d) /\ n <= Len(t) /\ n \in Nat /\ \A j \in 1..n : d[j] = t[j]
  BY <1>1, Lengths DEF DataSeen, Units
<1>3. n <= n
  BY <1>2
<1> HIDE DEF t
<1>4. IsSequence(p) /\ Len(p) = n /\ \A j \in 1..n : p[j] = t[j]
  BY <1>1, <1>2, StartAt
<1>5. IsSequence(q) /\ Len(q) = n /\ \A j \in 1..n : q[j] = d[j]
  BY <1>2, <1>3, StartAt
<1> HIDE DEF p, q
<1>6. p = q
  BY <1>2, <1>4, <1>5, SameSequence
<1>7. IsPrefix(d, t)
  BY <1>2, <1>6 DEF IsPrefix, p, q, n
<1>8. Len(d) = Len(t) => d = t
  BY <1>1, <1>2, SameSequence DEF n
<1> QED
  BY <1>1, <1>7, <1>8 DEF t

LEMMA SoundHeader ==
    ASSUME NEW m, AllMeant(m), NEW f, NEW i \in 1..Len(m), NEW h, HeaderSeen(m, f, h, i), Sound(m, f, i)
    PROVE  h = m[i].hdr
<1>1. h = [offset |-> Offset(m, i), type |-> m[i].hdr.type, size |-> Size(m, i), base |-> m[i].hdr.base]
  BY DEF HeaderSeen, Sound
<1>2. Described(m[i].hdr)
  BY Place
<1> QED
  BY <1>1, <1>2 DEF Described, Offset, Size

(* What the caller of the reader has of an object.                         *)
LEMMA SeenOf ==
    ASSUME PackInv, NEW i \in DOMAIN seen
    PROVE  /\ phase = "serial" /\ i \in 1..Len(seen) /\ i \in 1..Len(meant)
           /\ IsPrefix(seen[i].data, meant[i].data)
           /\ seen[i].ended => seen[i].data = meant[i].data /\ seen[i].hdr = meant[i].hdr
           /\ Sound(meant, file, i) => seen[i].hdr = meant[i].hdr
<1>1. phase = "serial"
  <2>1. seen # <<>>
    OBVIOUS
  <2> QED
    BY <2>1 DEF PackInv, Idle
<1>2. AllMeant(meant) /\ AllGot(meant, file, seen)
  BY <1>1 DEF PackInv
<1>3. Len(seen) \in Nat /\ DOMAIN seen = 1..Len(seen) /\ Len(seen) <= Len(meant)
      /\ Len(meant) \in Nat
  BY <1>2 DEF AllGot, AllMeant, IsSequence
<1>4. i \in 1..Len(seen) /\ i \in 1..Len(meant)
  BY <1>3
<1> DEFINE d == seen[i].data
           h == seen[i].hdr
<1>5. /\ DataSeen(meant, d, i) /\ HeaderSeen(meant, file, h, i)
      /\ seen[i].ended => Len(d) = Size(meant, i) /\ Sound(meant, file, i)
  BY <1>2, <1>4 DEF AllGot, Got
<1> HIDE DEF d, h
<1>6. IsPrefix(d, meant[i].data) /\ (Len(d) = Size(meant, i) => d = meant[i].data)
  BY <1>2, <1>4, <1>5, PrefixSeen
<1>7. Sound(meant, file, i) => h = meant[i].hdr
  BY <1>2, <1>4, <1>5, SoundHeader
<1> QED
  BY <1>1, <1>4, <1>5, <1>6, <1>7 DEF d, h

LEMMA PackReadsBack == PackInv => ReadsBack
<1> SUFFICES ASSUME PackInv, phase = "serial", file = sent, ~ writer.extra
             PROVE  /\ said \notin {"error", "bad object"}
                    /\ Len(seen) <= Len(meant)
                    /\ \A i \in DOMAIN seen :
                         /\ seen[i].hdr = meant[i].hdr
                         /\ IsPrefix(seen[i].data, meant[i].data)
                         /\ seen[i].ended => seen[i].data = meant[i].data
                    /\ said = "EOF" =>
                         /\ Len(seen) = Len(meant)
                         /\ reader.at = Len(file)
                         /\ file[reader.at] = SumToken(SubSeq(file, 1, reader.at - 1))
  BY DEF ReadsBack
<1>1. /\ AllMeant(meant) /\ Arrived(meant, file, sent, writer) /\ AllGot(meant, file, seen)
      /\ said \notin {"error", "EOF"} => AtObject(meant, file, seen, reader, said)
      /\ said # "error"
      /\ said = "EOF" => AtEnd(meant, file, seen, reader)
  BY DEF PackInv
<1>2. /\ Len(file) = After(meant, Len(meant)) + 1
      /\ file[Len(file)] = SumToken(SubSeq(file, 1, After(meant, Len(meant))))
      /\ \A i \in 1..Len(meant) : Sound(meant, file, i) /\ After(meant, i) <= Len(file)
  BY <1>1 DEF Arrived, WholeFile
<1>3. Len(seen) \in Nat /\ Len(seen) <= Len(meant) /\ Len(meant) \in Nat /\ Len(file) \in Nat
  BY <1>1, Lengths DEF AllGot, AllMeant, Arrived
<1>4. said # "bad object"
  <2>1. SUFFICES ASSUME said = "bad object" PROVE FALSE
    OBVIOUS
  <2>2. AtObject(meant, file, seen, reader, said)
    BY <1>1, <2>1
  <2>3. Len(seen) # 0 /\ Bad(meant, file, Len(seen))
    BY <2>1, <2>2 DEF AtObject, Idle
  <2>4. Len(seen) \in 1..Len(meant)
    BY <1>3, <2>3
  <2>5. Sound(meant, file, Len(seen)) /\ After(meant, Len(seen)) <= Len(file)
    BY <1>2, <2>4
  <2>6. After(meant, Len(seen)) \in Nat
    BY <1>1, <2>4, Place
  <2> QED
    BY <1>3, <2>3, <2>5, <2>6 DEF Bad
<1>5. ASSUME NEW i \in DOMAIN seen
      PROVE  /\ seen[i].hdr = meant[i].hdr
             /\ IsPrefix(seen[i].data, meant[i].data)
             /\ seen[i].ended => seen[i].data = meant[i].data
  BY <1>2, <1>5, SeenOf
<1>6. ASSUME said = "EOF"
      PROVE  /\ Len(seen) = Len(meant)
             /\ reader.at = Len(file)
             /\ file[reader.at] = SumToken(SubSeq(file, 1, reader.at - 1))
  <2>1. Len(seen) = Len(meant) /\ reader.at = After(meant, Len(meant)) + 1
    BY <1>1, <1>6 DEF AtEnd
  <2>2. Len(meant) \in 0..Len(meant)
    BY <1>3
  <2>3. After(meant, Len(meant)) \in Nat
    BY <1>1, <2>2, AfterAll
  <2>4. reader.at = Len(file) /\ reader.at - 1 = After(meant, Len(meant))
    BY <1>2, <2>1, <2>3
  <2> QED
    BY <1>2, <2>1, <2>4
<1> QED
  BY <1>1, <1>3, <1>4, <1>5, <1>6

LEMMA PackEOFMeansWhole == PackInv => EOFMeansWhole
<1> SUFFICES ASSUME PackInv PROVE EOFMeansWhole
  OBVIOUS
<1>1. ASSUME said = "EOF", ~ writer.extra PROVE file = sent
  <2>1. phase = "serial"
    BY <1>1 DEF PackInv, Idle
  <2>2. /\ AllMeant(meant) /\ Arrived(meant, file, sent, writer)
        /\ AtEnd(meant, file, seen, reader)
    BY <1>1, <2>1 DEF PackInv
  <2>3. Len(meant) \in Nat /\ Len(file) \in Nat
    BY <2>2, Lengths DEF AllMeant, Arrived
  <2>4. Len(meant) \in 0..Len(meant)
    BY <2>3
  <2>5. After(meant, Len(meant)) \in Nat
    BY <2>2, <2>4, AfterAll
  <2>6. After(meant, Len(meant)) + 1 <= Len(file)
    BY <2>2 DEF AtEnd
  <2>7. ~ (Len(file) <= After(meant, Len(meant)))
    BY <2>3, <2>5, <2>6
  <2>8. \A i \in 1..Len(meant) : Sound(meant, file, i)
    BY <2>2 DEF AtEnd
  <2> QED
    BY <1>1, <2>2, <2>7, <2>8 DEF Arrived
<1>2. ASSUME NEW i \in DOMAIN seen
      PROVE  /\ IsPrefix(seen[i].data, meant[i].data)
             /\ seen[i].ended => seen[i].data = meant[i].data /\ seen[i].hdr = meant[i].hdr
  BY <1>2, SeenOf
<1> QED
  BY <1>1, <1>2 DEF EOFMeansWhole

(***************************************************************************)
(* What packfile.Writer wrote and closed, packfile.Reader reads back.      *)
(***************************************************************************)
THEOREM PacksReadBack == BytesSpec => []ReadsBack
<1> QED
  BY BytesStart, PackSteps, PackReadsBack, PTL DEF BytesSpec

(***************************************************************************)
(* A pack that was cut short or whose object has not the size it says      *)
(* never reads to io.EOF.                                                  *)
(***************************************************************************)
THEOREM PacksEOFMeansWhole == BytesSpec => []EOFMeansWhole
<1> QED
  BY BytesStart, PackSteps, PackEOFMeansWhole, PTL DEF BytesSpec

-----------------------------------------------------------------------------
(* Places in an order, by counting what is before.                         *)

Before(S, R, x) == {y \in S : <<y, x>> \in R}
PlaceIn(S, R, x) == Cardinality(Before(S, R, x)) + 1

StrictlyOrders(R, S) ==
    /\ \A x \in S : <<x, x>> \notin R
    /\ \A x, y \in S : x # y => <<x, y>> \in R \/ <<y, x>> \in R
    /\ \A x, y, z \in S : <<x, y>> \in R /\ <<y, z>> \in R => <<x, z>> \in R

LEMMA PlacesAre ==
    ASSUME NEW S, IsFiniteSet(S), NEW R, StrictlyOrders(R, S)
    PROVE  /\ Cardinality(S) \in Nat
           /\ \A x \in S : PlaceIn(S, R, x) \in 1..Cardinality(S)
           /\ \A x, y \in S : <<x, y>> \in R => PlaceIn(S, R, x) < PlaceIn(S, R, y)
           /\ \A k \in 1..Cardinality(S) : \E x \in S : PlaceIn(S, R, x) = k
<1> DEFINE n == Cardinality(S)
           p == [x \in S |-> PlaceIn(S, R, x)]
<1>1. n \in Nat
  BY FS_CardinalityType
<1>2. ASSUME NEW x \in S
      PROVE  /\ IsFiniteSet(Before(S, R, x)) /\ Cardinality(Before(S, R, x)) \in Nat
             /\ PlaceIn(S, R, x) \in 1..n
  <2>1. Before(S, R, x) \in SUBSET S /\ x \notin Before(S, R, x)
    BY DEF Before, StrictlyOrders
  <2>2. /\ IsFiniteSet(Before(S, R, x))
        /\ Cardinality(Before(S, R, x)) <= n
        /\ n = Cardinality(Before(S, R, x)) => S = Before(S, R, x)
    BY <2>1, FS_Subset
  <2>3. Cardinality(Before(S, R, x)) \in Nat
    BY <2>2, FS_CardinalityType
  <2>4. n # Cardinality(Before(S, R, x))
    BY <2>1, <2>2
  <2> QED
    BY <1>1, <2>2, <2>3, <2>4 DEF PlaceIn
<1>3. ASSUME NEW x \in S, NEW y \in S, <<x, y>> \in R PROVE PlaceIn(S, R, x) < PlaceIn(S, R, y)
  <2>1. Before(S, R, x) \in SUBSET Before(S, R, y) /\ x \in Before(S, R, y) /\ x \notin Before(S, R, x)
    BY <1>3 DEF Before, StrictlyOrders
  <2>2. /\ Cardinality(Before(S, R, x)) <= Cardinality(Before(S, R, y))
        /\ Cardinality(Before(S, R, y)) = Cardinality(Before(S, R, x)) => Before(S, R, y) = Before(S, R, x)
    BY <1>2, <2>1, FS_Subset
  <2>3. Cardinality(Before(S, R, y)) # Cardinality(Before(S, R, x))
    BY <2>1, <2>2
  <2> QED
    BY <1>2, <2>2, <2>3 DEF PlaceIn
<1>4. ASSUME NEW k \in 1..n PROVE \E x \in S : PlaceIn(S, R, x) = k
  <2>1. p \in [S -> 1..n]
    BY <1>2
  <2>2. ASSUME NEW x \in S, NEW y \in S, p[x] = p[y] PROVE x = y
    <3>1. SUFFICES ASSUME x # y PROVE FALSE
      OBVIOUS
    <3>2. <<x, y>> \in R \/ <<y, x>> \in R
      BY <3>1 DEF StrictlyOrders
    <3>3. PlaceIn(S, R, x) \in Nat /\ PlaceIn(S, R, y) \in Nat /\ PlaceIn(S, R, x) = PlaceIn(S, R, y)
      BY <1>2, <2>2
    <3> QED
      BY <1>3, <3>2, <3>3
  <2>3. p \in Injection(S, 1..n)
    <3> HIDE DEF p
    <3> QED
      BY <2>1, <2>2 DEF Injection, IsInjective
  <2>4. IsFiniteSet(1..n) /\ Cardinality(1..n) = n
    BY <1>1, FS_Interval
  <2>5. p \in Surjection(S, 1..n)
    <3> HIDE DEF p
    <3> QED
      BY <2>3, <2>4, FS_Injection
  <2>6. PICK x \in S : p[x] = k
    <3> HIDE DEF p
    <3> QED
      BY <2>5 DEF Surjection
  <2> QED
    BY <2>6
<1> QED
  BY <1>1, <1>2, <1>3, <1>4

(* A finite set has its elements in order in a sequence, and any sequence  *)
(* as long that has them in order has them all.                            *)
InOrder(s, n, R) == \A i, j \in 1..n : i < j => <<s[i], s[j]>> \in R

LEMMA OrderedSequence ==
    ASSUME NEW S, IsFiniteSet(S), NEW R, StrictlyOrders(R, S)
    PROVE  \E s \in [1..Cardinality(S) -> S] : InOrder(s, Cardinality(S), R)
<1> DEFINE n == Cardinality(S)
           s == [k \in 1..n |-> CHOOSE x \in S : PlaceIn(S, R, x) = k]
<1>1. ASSUME NEW k \in 1..n PROVE s[k] \in S /\ PlaceIn(S, R, s[k]) = k
  BY PlacesAre
<1>2. ASSUME NEW i \in 1..n, NEW j \in 1..n, i < j PROVE <<s[i], s[j]>> \in R
  <2>1. s[i] # s[j]
    BY <1>1, <1>2
  <2>2. <<s[i], s[j]>> \in R \/ <<s[j], s[i]>> \in R
    BY <1>1, <2>1 DEF StrictlyOrders
  <2>3. <<s[j], s[i]>> \in R => j < i
    BY <1>1, PlacesAre
  <2>4. n \in Nat
    BY PlacesAre
  <2> HIDE DEF s, n
  <2> QED
    BY <1>2, <2>2, <2>3, <2>4
<1>3. s \in [1..n -> S]
  BY <1>1
<1> HIDE DEF s
<1> QED
  BY <1>2, <1>3 DEF InOrder

LEMMA OrderedHasAll ==
    ASSUME NEW S, IsFiniteSet(S), NEW R, StrictlyOrders(R, S),
           NEW s \in [1..Cardinality(S) -> S], InOrder(s, Cardinality(S), R)
    PROVE  \A x \in S : \E i \in 1..Cardinality(S) : s[i] = x
<1> DEFINE n == Cardinality(S)
<1>1. n \in Nat
  BY PlacesAre
<1>2. ASSUME NEW i \in 1..n, NEW j \in 1..n, s[i] = s[j] PROVE i = j
  <2>1. <<s[i], s[i]>> \notin R
    BY DEF StrictlyOrders
  <2>2. ~(i < j) /\ ~(j < i)
    BY <1>2, <2>1 DEF InOrder
  <2> QED
    BY <1>1, <2>2
<1>3. s \in Injection(1..n, S)
  BY <1>2 DEF Injection, IsInjective
<1>4. Cardinality(1..n) = n /\ IsFiniteSet(1..n)
  BY <1>1, FS_Interval
<1>5. s \in Surjection(1..n, S)
  BY <1>3, <1>4, FS_Injection
<1> QED
  BY <1>5 DEF Surjection

-----------------------------------------------------------------------------
(* Index files.                                                            *)

IsIndex(idx) ==
    /\ idx = [ObjectIDs |-> idx.ObjectIDs, Offsets |-> idx.Offsets]
    /\ idx.ObjectIDs \in Seq(DOMAIN FirstByte) /\ idx.Offsets \in Seq(Nat)
    /\ Len(idx.ObjectIDs) = Len(idx.Offsets)
    /\ StrictlySorted(idx.ObjectIDs)

LEMMA SortedThroughout ==
    ASSUME NEW s \in Seq(Nat), StrictlySorted(s)
    PROVE  \A i, j \in 1..Len(s) : i < j => s[i] < s[j]
<1> SUFFICES ASSUME NEW i \in 1..Len(s) PROVE \A j \in 1..Len(s) : i < j => s[i] < s[j]
  OBVIOUS
<1> DEFINE Wrong == {j \in 1..Len(s) : i < j /\ ~(s[i] < s[j])}
<1>1. SUFFICES ASSUME Wrong # {} PROVE FALSE
  OBVIOUS
<1>2. PICK j \in Wrong : \A k \in Wrong : j <= k
  <2>1. Wrong \in SUBSET Nat
    OBVIOUS
  <2> HIDE DEF Wrong
  <2> QED
    BY <1>1, <2>1, LeastNumber
<1>3. j \in 2..Len(s) /\ j - 1 \in 1..Len(s) /\ i <= j - 1 /\ j - 1 \notin Wrong
  BY <1>2
<1>4. s[j - 1] < s[j]
  BY <1>3 DEF StrictlySorted
<1>5. s[i] <= s[j - 1]
  BY <1>3
<1>6. s[i] \in Nat /\ s[j] \in Nat /\ s[j - 1] \in Nat
  BY <1>3
<1> QED
  BY <1>2, <1>4, <1>5, <1>6

(* The search finds an object ID that is in the index, and no other.       *)
THEOREM FindIDExact ==
    ASSUME NEW idx, IsIndex(idx), NEW id \in Nat
    PROVE  /\ \A i \in 1..Len(idx.ObjectIDs) : idx.ObjectIDs[i] = id => FindID(idx, id) = i
           /\ (\A i \in 1..Len(idx.ObjectIDs) : idx.ObjectIDs[i] # id) => FindID(idx, id) = -1
<1> DEFINE s == idx.ObjectIDs
           notSmaller == {i \in DOMAIN s : s[i] >= id}
<1>1. s \in Seq(Nat) /\ DOMAIN s = 1..Len(s) /\ Len(s) \in Nat
  BY IndexAssumption DEF IsIndex
<1>2. \A i, j \in 1..Len(s) : i < j => s[i] < s[j]
  BY <1>1, SortedThroughout DEF IsIndex
<1>3. notSmaller \in SUBSET Nat /\ notSmaller \subseteq 1..Len(s)
  BY <1>1
<1>4. ASSUME NEW S \in SUBSET Nat, S # {} PROVE Min(S) \in S /\ \A m \in S : Min(S) <= m
  BY <1>4, LeastNumber DEF Min
<1>5. FindID(idx, id) = IF notSmaller = {} THEN -1
                        ELSE IF s[Min(notSmaller)] # id THEN -1
                        ELSE Min(notSmaller)
  BY DEF FindID
<1>6. ASSUME NEW i \in 1..Len(s), s[i] = id PROVE FindID(idx, id) = i
  <2>1. i \in notSmaller
    BY <1>1, <1>6
  <2>2. PICK m \in notSmaller : m = Min(notSmaller) /\ m <= i
    BY <1>3, <1>4, <2>1
  <2>3. m \in 1..Len(s) /\ s[m] >= id /\ s[m] \in Nat /\ s[i] \in Nat
    <3>1. m \in DOMAIN s /\ s[m] >= id
      BY <2>2
    <3> HIDE DEF s
    <3> QED
      BY <1>1, <3>1
  <2>4. m = i
    <3> HIDE DEF s, notSmaller
    <3> QED
      BY <1>2, <1>6, <2>2, <2>3, <1>1
  <2> QED
    BY <1>5, <1>6, <2>1, <2>2, <2>4
<1>7. ASSUME \A i \in 1..Len(s) : s[i] # id PROVE FindID(idx, id) = -1
  <2>1. CASE notSmaller = {}
    BY <1>5, <2>1
  <2>2. CASE notSmaller # {}
    <3>1. Min(notSmaller) \in 1..Len(s)
      BY <1>3, <1>4, <2>2
    <3> HIDE DEF s, notSmaller
    <3> QED
      BY <1>5, <1>7, <2>2, <3>1
  <2> QED
    BY <2>1, <2>2
<1> QED
  BY <1>6, <1>7

LEMMA FanOutCounts ==
    ASSUME NEW s \in Seq(DOMAIN FirstByte)
    PROVE  encodeFanOut(s)[LastByte] = Len(s)
<1>1. {i \in DOMAIN s : FirstByte[s[i]] <= LastByte} = 1..Len(s)
  <2>1. ASSUME NEW i \in 1..Len(s) PROVE FirstByte[s[i]] <= LastByte
    <3>1. s[i] \in DOMAIN FirstByte
      OBVIOUS
    <3>2. FirstByte[s[i]] \in 0..LastByte
      BY <3>1, IndexAssumption
    <3> QED
      BY <3>2, IndexAssumption
  <2> QED
    BY <2>1
<1>2. Cardinality(1..Len(s)) = Len(s)
  BY FS_Interval
<1>3. LastByte \in 0..LastByte
  BY IndexAssumption
<1> QED
  BY <1>1, <1>2, <1>3 DEF encodeFanOut

(* The objects with large offsets, in the order of their places.           *)
LEMMA BigPlaces ==
    ASSUME NEW offsets \in Seq(Nat)
    PROVE  /\ Cardinality(Big(offsets)) \in Nat
           /\ \A i \in Big(offsets) : i \in 1..Len(offsets) /\ BigBefore(offsets, i) + 1 \in 1..Cardinality(Big(offsets))
           /\ \A i, j \in Big(offsets) : i < j => BigBefore(offsets, i) < BigBefore(offsets, j)
<1> DEFINE S == Big(offsets)
<1>1. S \in SUBSET (1..Len(offsets)) /\ S \subseteq Nat
  BY DEF Big
<1>2. IsFiniteSet(S)
  BY <1>1, FS_Interval, FS_Subset
<1>3. StrictlyOrders(LessPairs, S)
  BY <1>1 DEF StrictlyOrders, LessPairs
<1>4. \A x, y \in Nat : <<x, y>> \in LessPairs <=> x < y
  BY DEF LessPairs
<1>5. ASSUME NEW i \in S PROVE PlaceIn(S, LessPairs, i) = BigBefore(offsets, i) + 1
  <2>1. Before(S, LessPairs, i) = {j \in S : j < i}
    BY <1>1, <1>4 DEF Before
  <2> QED
    BY <2>1 DEF PlaceIn, BigBefore
<1>6. Cardinality(S) \in Nat
  BY <1>2, <1>3, PlacesAre
<1>7. ASSUME NEW i \in S PROVE PlaceIn(S, LessPairs, i) \in 1..Cardinality(S)
  BY <1>2, <1>3, PlacesAre
<1>8. ASSUME NEW i \in S PROVE BigBefore(offsets, i) \in Nat
  <2>1. {j \in S : j < i} \in SUBSET S
    OBVIOUS
  <2>2. IsFiniteSet({j \in S : j < i})
    BY <1>2, <2>1, FS_Subset
  <2> QED
    BY <2>2, FS_CardinalityType DEF BigBefore
<1>9. ASSUME NEW i \in S, NEW j \in S, i < j PROVE BigBefore(offsets, i) < BigBefore(offsets, j)
  <2>1. <<i, j>> \in LessPairs
    BY <1>1, <1>4, <1>9
  <2>2. PlaceIn(S, LessPairs, i) < PlaceIn(S, LessPairs, j)
    BY <1>2, <1>3, <2>1, PlacesAre
  <2> QED
    BY <1>5, <1>8, <2>2
<1> QED
  BY <1>1, <1>5, <1>6, <1>7, <1>9
LEMMA V2ReadsBack == ASSUME NEW idx, IsIndex(idx) PROVE ReadIndex(EncodeV2(idx)) = idx
<1> DEFINE s == idx.ObjectIDs
           offsets == idx.Offsets
           n == Len(offsets)
           big == Big(offsets)
           f == EncodeV2(idx)
<1>1. /\ s \in Seq(DOMAIN FirstByte) /\ offsets \in Seq(Nat) /\ Len(s) = n /\ n \in Nat
      /\ DOMAIN offsets = 1..n /\ Large \in Nat /\ StrictlySorted(s)
  BY IndexAssumption DEF IsIndex
<1>2. /\ f.version = 2 /\ f.ids = s
      /\ f.words = [i \in 1..n |-> IF i \in big THEN Large + BigBefore(offsets, i) ELSE offsets[i]]
      /\ f.large = [k \in 1..Cardinality(big) |->
                      offsets[CHOOSE i \in big : BigBefore(offsets, i) = k - 1]]
      /\ f.fanOut[LastByte] = n
      /\ f # Failed
  <2>1. validate(idx)
    BY <1>1 DEF validate
  <2>2. encodeFanOut(s)[LastByte] = n
    BY <1>1, FanOutCounts
  <2>3. f = [version |-> 2, fanOut |-> encodeFanOut(s), ids |-> s,
             words |-> [i \in 1..n |-> IF i \in big THEN Large + BigBefore(offsets, i) ELSE offsets[i]],
             large |-> [k \in 1..Cardinality(big) |->
                          offsets[CHOOSE i \in big : BigBefore(offsets, i) = k - 1]]]
    BY <1>1, <2>1 DEF EncodeV2
  <2>4. f # Failed
    <3>1. "version" \in DOMAIN f /\ "version" \notin DOMAIN Failed
      BY <2>3 DEF Failed
    <3> QED
      BY <3>1
  <2> HIDE DEF f, big, offsets, s, n
  <2> QED
    BY <2>2, <2>3, <2>4
<1> HIDE DEF f
<1>3. Cardinality(big) \in Nat /\ big \subseteq 1..n
  BY <1>1, BigPlaces
<1>4. ASSUME NEW i \in big
      PROVE  BigBefore(offsets, i) + 1 \in 1..Cardinality(big) /\ BigBefore(offsets, i) \in Nat
  <2>1. BigBefore(offsets, i) + 1 \in 1..Cardinality(big)
    BY <1>1, <1>4, BigPlaces
  <2>2. BigBefore(offsets, i) \in Nat
    <3>1. {j \in big : j < i} \in SUBSET (1..n)
      BY <1>3
    <3>2. IsFiniteSet(1..n)
      BY <1>1, FS_Interval
    <3>3. IsFiniteSet({j \in big : j < i})
      BY <3>1, <3>2, FS_Subset
    <3> QED
      BY <3>3, FS_CardinalityType DEF BigBefore
  <2> QED
    BY <2>1, <2>2
<1>5. ASSUME NEW i \in big, NEW j \in big, BigBefore(offsets, i) = BigBefore(offsets, j)
      PROVE  i = j
  <2>1. i \in Nat /\ j \in Nat
    BY <1>3
  <2>2. i < j => BigBefore(offsets, i) < BigBefore(offsets, j)
    BY <1>1, BigPlaces
  <2>3. j < i => BigBefore(offsets, j) < BigBefore(offsets, i)
    BY <1>1, BigPlaces
  <2> HIDE DEF big
  <2> QED
    BY <1>4, <1>5, <2>1, <2>2, <2>3
<1>6. ASSUME NEW i \in 1..n PROVE offsets[i] \in Nat /\ (i \in big <=> offsets[i] >= Large)
  BY <1>1 DEF Big
<1>7. ASSUME NEW i \in big
      PROVE  /\ f.words[i] = Large + BigBefore(offsets, i)
             /\ f.words[i] >= Large /\ f.words[i] - Large = BigBefore(offsets, i)
  <2> HIDE DEF big
  <2>1. f.words[i] = Large + BigBefore(offsets, i)
    BY <1>2, <1>3
  <2> QED
    BY <2>1, <1>1, <1>4
<1>8. ASSUME NEW i \in 1..n, i \notin big PROVE f.words[i] = offsets[i] /\ ~(f.words[i] >= Large)
  <2>1. f.words[i] = offsets[i]
    BY <1>2, <1>8
  <2> QED
    BY <1>6, <1>8, <2>1
<1>9. {i \in 1..n : f.words[i] >= Large} = big
  <2> HIDE DEF big
  <2> QED
    BY <1>3, <1>7, <1>8
<1>10. ASSUME NEW i \in big PROVE largeOffset(f, n, i) = offsets[i]
  <2>1. i \in 1..n
    BY <1>3
  <2>2. ~ \E j \in (i + 1)..n : f.words[j] = f.words[i]
    <3>1. SUFFICES ASSUME NEW j \in (i + 1)..n, f.words[j] = f.words[i] PROVE FALSE
      OBVIOUS
    <3>2. j \in 1..n /\ j # i
      BY <2>1
    <3>3. j \in big
      BY <1>7, <1>8, <3>1, <3>2
    <3>4. BigBefore(offsets, j) = BigBefore(offsets, i)
      <4>1. f.words[j] - Large = BigBefore(offsets, j) /\ f.words[i] - Large = BigBefore(offsets, i)
        BY <1>7, <3>3
      <4> QED
        BY <3>1, <4>1
    <3> QED
      BY <1>5, <3>2, <3>3, <3>4
  <2> DEFINE k == BigBefore(offsets, i) + 1
  <2>3. k \in 1..Cardinality(big) /\ k - 1 = BigBefore(offsets, i) /\ f.words[i] - Large + 1 = k
    BY <1>4, <1>7
  <2>4. f.large[k] = offsets[CHOOSE j \in big : BigBefore(offsets, j) = k - 1]
    <3> HIDE DEF k, big
    <3> QED
      BY <1>2, <2>3
  <2>5. (CHOOSE j \in big : BigBefore(offsets, j) = k - 1) = i
    BY <1>5, <2>3
  <2> HIDE DEF k, big
  <2> QED
    BY <2>2, <2>3, <2>4, <2>5 DEF largeOffset
<1>11. readIndexV2(f) = idx
  <2> DEFINE marked == {i \in 1..n : f.words[i] >= Large}
  <2>1. readIndexObjectCount(f) = n
    BY <1>2 DEF readIndexObjectCount
  <2>2. StrictlySorted(f.ids) /\ SubSeq(f.ids, 1, n) = s
    BY <1>1, <1>2
  <2>3. ~ \E i \in marked : f.words[i] - Large >= Len(f.large)
    <3>1. Len(f.large) = Cardinality(big)
      <4> DEFINE c == Cardinality(big)
      <4>1. f.large = [k \in 1..c |-> f.large[k]] /\ c \in Nat
        <5> HIDE DEF big
        <5> QED
          BY <1>2, <1>3
      <4> HIDE DEF c
      <4>2. Len(f.large) = c
        BY <4>1, MadeSequence
      <4> QED
        BY <4>2 DEF c
    <3>2. ASSUME NEW i \in big PROVE ~(f.words[i] - Large >= Len(f.large))
      <4>1. f.words[i] - Large = BigBefore(offsets, i) /\ BigBefore(offsets, i) + 1 \in 1..Cardinality(big)
        BY <1>4, <1>7
      <4> HIDE DEF big
      <4> QED
        BY <1>3, <3>1, <4>1, <1>4
    <3> QED
      BY <1>9, <3>2
  <2>4. [i \in 1..n |-> IF i \in marked THEN largeOffset(f, n, i) ELSE f.words[i]] = offsets
    <3>1. ASSUME NEW i \in 1..n
          PROVE  (IF i \in marked THEN largeOffset(f, n, i) ELSE f.words[i]) = offsets[i]
      BY <1>8, <1>9, <1>10
    <3>2. offsets = [i \in 1..n |-> offsets[i]]
      BY <1>1
    <3> HIDE DEF marked, offsets, n
    <3> QED
      BY <3>1, <3>2
  <2>5. readIndexV2(f) = IF ~ StrictlySorted(f.ids) \/ \E i \in marked : f.words[i] - Large >= Len(f.large)
                           THEN Failed
                           ELSE [ObjectIDs |-> SubSeq(f.ids, 1, n),
                                 Offsets |-> [i \in 1..n |-> IF i \in marked THEN largeOffset(f, n, i) ELSE f.words[i]]]
    <3> HIDE DEF n
    <3> QED
      BY <2>1 DEF readIndexV2
  <2>6. readIndexV2(f) = [ObjectIDs |-> s, Offsets |-> offsets]
    <3> HIDE DEF marked, n
    <3> QED
      BY <2>2, <2>3, <2>4, <2>5
  <2> QED
    BY <2>6 DEF IsIndex
<1> QED
  BY <1>2, <1>11 DEF ReadIndex, f

LEMMA V1ReadsBack ==
    ASSUME NEW idx, IsIndex(idx), \A i \in 1..Len(idx.Offsets) : idx.Offsets[i] < 2 * Large
    PROVE  ReadIndex(EncodeV1(idx)) = idx
<1> DEFINE s == idx.ObjectIDs
           offsets == idx.Offsets
           n == Len(offsets)
           f == EncodeV1(idx)
<1>1. /\ s \in Seq(DOMAIN FirstByte) /\ offsets \in Seq(Nat) /\ Len(s) = n /\ n \in Nat
      /\ DOMAIN offsets = 1..n /\ Large \in Nat /\ Large # 0 /\ StrictlySorted(s)
  BY IndexAssumption DEF IsIndex
<1>2. \A i \in 1..n : offsets[i] \in Nat /\ offsets[i] < 4 * Large /\ offsets[i] % (2 * Large) = offsets[i]
  <2> SUFFICES ASSUME NEW i \in 1..n
               PROVE offsets[i] \in Nat /\ offsets[i] < 4 * Large /\ offsets[i] % (2 * Large) = offsets[i]
    OBVIOUS
  <2>1. offsets[i] \in Nat
    BY <1>1
  <2> DEFINE o == offsets[i]
             m == 2 * Large
  <2>2. o \in Nat /\ m \in Nat /\ m > 1 /\ o < m /\ m <= 4 * Large
    BY <1>1, <2>1
  <2> HIDE DEF o, m
  <2>3. o % m = o
    BY <2>2, Divided
  <2>4. o < 4 * Large
    BY <1>1, <2>2
  <2> QED
    BY <2>2, <2>3, <2>4 DEF o, m
<1>3. [i \in 1..n |-> offsets[i] % (2 * Large)] = offsets
  <2>1. offsets = [i \in 1..n |-> offsets[i]]
    BY <1>1
  <2> HIDE DEF offsets, n
  <2> QED
    BY <1>2, <2>1
<1>4. f = [version |-> 1, fanOut |-> encodeFanOut(s), ids |-> s, words |-> offsets, large |-> <<>>]
  <2>1. validate(idx)
    BY <1>1 DEF validate
  <2>2. ~ \E i \in DOMAIN offsets : offsets[i] >= 4 * Large
    BY <1>1, <1>2
  <2>3. f = [version |-> 1, fanOut |-> encodeFanOut(s), ids |-> s,
             words |-> [i \in DOMAIN offsets |-> offsets[i] % (2 * Large)], large |-> <<>>]
    BY <2>1, <2>2 DEF EncodeV1
  <2> QED
    BY <1>1, <1>3, <2>3
<1> HIDE DEF f
<1>5. f # Failed
  <2>1. "version" \in DOMAIN f /\ "version" \notin DOMAIN Failed
    BY <1>4 DEF Failed
  <2> QED
    BY <2>1
<1>6. readIndexObjectCount(f) = n
  <2>1. encodeFanOut(s)[LastByte] = n
    BY <1>1, FanOutCounts
  <2> QED
    BY <1>4, <2>1 DEF readIndexObjectCount
<1>7. readIndexV1(f) = [ObjectIDs |-> s, Offsets |-> offsets]
  <2>1. SubSeq(s, 1, n) = s /\ SubSeq(offsets, 1, n) = offsets
    BY <1>1
  <2> HIDE DEF n, s, offsets
  <2> QED
    BY <1>1, <1>4, <1>6, <2>1 DEF readIndexV1
<1>8. f.version = 1
  BY <1>4
<1> QED
  BY <1>5, <1>7, <1>8 DEF ReadIndex, f, IsIndex

(* A file holds what the index held, offsets of any size in version 2.     *)
THEOREM IndexReadsBack ==
    ASSUME NEW idx, IsIndex(idx)
    PROVE  /\ ReadIndex(EncodeV2(idx)) = idx
           /\ (\A i \in 1..Len(idx.Offsets) : idx.Offsets[i] < 2 * Large)
                => ReadIndex(EncodeV1(idx)) = idx
  BY V1ReadsBack, V2ReadsBack

(* The index of a pack has each of its rows.                               *)
AreRows(rows) ==
    /\ IsFiniteSet(rows)
    /\ \A r \in rows : r.id \in DOMAIN FirstByte /\ r.offset \in Nat
    /\ \A r, q \in rows : r.id = q.id => r = q

HasRow(idx, i, r) == idx.ObjectIDs[i] = r.id /\ idx.Offsets[i] = r.offset

LEMMA SortedIs ==
    ASSUME NEW rows, AreRows(rows)
    PROVE  LET idx == SortedIndex(rows)
           IN  /\ IsIndex(idx)
               /\ \A r \in rows : \E i \in 1..Len(idx.ObjectIDs) : HasRow(idx, i, r)
               /\ \A i \in 1..Len(idx.ObjectIDs) : \E r \in rows : HasRow(idx, i, r)
<1> DEFINE n == Cardinality(rows)
           R == {p \in rows \X rows : RowLess(p[1], p[2])}
           Sorts(s) == \A i, j \in 1..n : i < j => RowLess(s[i], s[j])
           s == CHOOSE s \in [1..n -> rows] : Sorts(s)
           idx == [ObjectIDs |-> [i \in 1..n |-> s[i].id], Offsets |-> [i \in 1..n |-> s[i].offset]]
<1>1. \A x, y \in rows : <<x, y>> \in R <=> RowLess(x, y)
  OBVIOUS
<1>2. \A x \in rows : x.id \in Nat /\ x.offset \in Nat
  BY IndexAssumption DEF AreRows
<1>3. StrictlyOrders(R, rows)
  <2> HIDE DEF R
  <2>1. ASSUME NEW x \in rows PROVE ~ RowLess(x, x)
    BY <1>2 DEF RowLess
  <2>2. ASSUME NEW x \in rows, NEW y \in rows, x # y PROVE RowLess(x, y) \/ RowLess(y, x)
    <3>1. x.id # y.id
      BY <2>2 DEF AreRows
    <3> QED
      BY <3>1, <1>2 DEF RowLess
  <2>3. ASSUME NEW x \in rows, NEW y \in rows, NEW z \in rows, RowLess(x, y), RowLess(y, z)
        PROVE  RowLess(x, z)
    BY <2>3, <1>2 DEF RowLess
  <2> QED
    BY <1>1, <2>1, <2>2, <2>3 DEF StrictlyOrders
<1>4. n \in Nat /\ IsFiniteSet(rows)
  BY FS_CardinalityType DEF AreRows
<1>5. \E t \in [1..n -> rows] : Sorts(t)
  <2>1. PICK t \in [1..n -> rows] : InOrder(t, n, R)
    <3> HIDE DEF R
    <3> QED
      BY <1>3, <1>4, OrderedSequence
  <2>2. Sorts(t)
    <3> HIDE DEF R
    <3> QED
      BY <1>1, <2>1 DEF InOrder
  <2> QED
    BY <2>2
<1>6. s \in [1..n -> rows] /\ Sorts(s)
  <2> HIDE DEF Sorts
  <2> QED
    BY <1>5
<1>7. SortedIndex(rows) = idx
  BY DEF SortedIndex
<1> HIDE DEF s
<1>8. InOrder(s, n, R)
  <2> HIDE DEF R
  <2> QED
    BY <1>1, <1>6 DEF InOrder
<1>9. \A r \in rows : \E i \in 1..n : s[i] = r
  <2> HIDE DEF R
  <2> QED
    BY <1>3, <1>4, <1>6, <1>8, OrderedHasAll
<1>10. /\ idx.ObjectIDs \in Seq(DOMAIN FirstByte) /\ idx.Offsets \in Seq(Nat)
       /\ Len(idx.ObjectIDs) = n /\ Len(idx.Offsets) = n
  <2>1. \A i \in 1..n : s[i] \in rows
    BY <1>6
  <2>2. \A i \in 1..n : s[i].id \in DOMAIN FirstByte /\ s[i].offset \in Nat
    BY <2>1 DEF AreRows
  <2> HIDE DEF n
  <2> QED
    BY <1>4, <2>2
<1>11. StrictlySorted(idx.ObjectIDs)
  <2> SUFFICES ASSUME NEW i \in 2..n PROVE s[i - 1].id < s[i].id
    BY <1>4, <1>10 DEF StrictlySorted
  <2>1. i - 1 \in 1..n /\ i \in 1..n /\ i - 1 < i
    BY <1>4
  <2>2. RowLess(s[i - 1], s[i]) /\ s[i - 1] \in rows /\ s[i] \in rows
    BY <1>6, <2>1
  <2>3. s[i - 1].id = s[i].id => s[i - 1] = s[i]
    BY <2>2 DEF AreRows
  <2> QED
    BY <1>2, <2>2, <2>3 DEF RowLess
<1>12. IsIndex(idx)
  BY <1>10, <1>11 DEF IsIndex
<1>13. ASSUME NEW i \in 1..n PROVE s[i] \in rows /\ HasRow(idx, i, s[i])
  BY <1>6 DEF HasRow
<1> HIDE DEF idx, n
<1>14. \A r \in rows : \E i \in 1..n : HasRow(idx, i, r)
  BY <1>9, <1>13
<1> QED
  BY <1>7, <1>10, <1>12, <1>13, <1>14

-----------------------------------------------------------------------------
(* Deltas.                                                                 *)

LEMMA CountUp ==
    ASSUME NEW n \in Nat, NEW S, 0 \in S, \A m \in 0..n - 1 : m \in S => m + 1 \in S
    PROVE  \A m \in 0..n : m \in S
<1> DEFINE T == {m \in 0..n : m \notin S}
<1>1. SUFFICES ASSUME T # {} PROVE FALSE
  OBVIOUS
<1>2. PICK m \in T : \A j \in T : m <= j
  <2>1. T \in SUBSET Nat
    OBVIOUS
  <2> HIDE DEF T
  <2> QED
    BY <1>1, <2>1, LeastNumber
<1>3. m \in 0..n /\ m \notin S /\ m # 0
  BY <1>2
<1>4. m - 1 \in 0..n - 1 /\ m - 1 \in 0..n /\ (m - 1) + 1 = m /\ m - 1 < m
  BY <1>3
<1>5. m - 1 \in S
  BY <1>2, <1>4
<1> QED
  BY <1>3, <1>4, <1>5

LEMMA ReadIs ==
    ASSUME NEW base, NEW delta, IsSequence(delta), delta # <<>>, delta[1][1] = "sizes"
    PROVE  \E f : /\ ReadDelta(base, delta) = f[Len(delta)]
                  /\ \A k \in 1..Len(delta) :
                       f[k] = IF k = 1 THEN [ok |-> TRUE, out |-> <<>>]
                                       ELSE Instruct(base, f[k - 1], delta[k])
<1> DEFINE n == Len(delta)
           Value(f, k) == IF k = 1 THEN [ok |-> TRUE, out |-> <<>>] ELSE Instruct(base, f[k - 1], delta[k])
           Is(f, m) == f = [k \in 1..m |-> Value(f, k)]
           S == {m \in Nat : \E f : Is(f, m)}
<1>1. n \in Nat
  BY Lengths
<1>2. 0 \in S
  <2>1. Is([k \in 1..0 |-> 0], 0)
    OBVIOUS
  <2> QED
    BY <2>1
<1>3. ASSUME NEW m \in 0..n - 1, m \in S PROVE m + 1 \in S
  <2>1. PICK f : Is(f, m)
    BY <1>3
  <2> DEFINE g == [k \in 1..m + 1 |-> IF k <= m THEN f[k] ELSE Value(f, k)]
  <2>2. ASSUME NEW k \in 1..m + 1 PROVE g[k] = Value(g, k)
    <3>1. g[k] = Value(f, k)
      <4>1. k <= m => k \in 1..m
        OBVIOUS
      <4>2. k <= m => f[k] = Value(f, k)
        BY <2>1, <4>1
      <4> QED
        BY <4>2
    <3>2. k # 1 => g[k - 1] = f[k - 1]
      OBVIOUS
    <3> HIDE DEF g
    <3> QED
      BY <3>1, <3>2
  <2>3. g = [k \in 1..m + 1 |-> g[k]]
    OBVIOUS
  <2> HIDE DEF g, Value
  <2>4. Is(g, m + 1)
    BY <2>2, <2>3
  <2> QED
    BY <2>4
<1>4. \E f : Is(f, n)
  <2> HIDE DEF Is
  <2>1. \A m \in 0..n : m \in S
    <3> HIDE DEF S
    <3> QED
      BY <1>1, <1>2, <1>3, CountUp
  <2> QED
    BY <1>1, <2>1
<1> DEFINE f == CHOOSE f : Is(f, n)
<1>5. Is(f, n)
  BY <1>4
<1>6. ReadDelta(base, delta) = f[n]
  BY DEF ReadDelta
<1> HIDE DEF f
<1>7. \A k \in 1..n : f[k] = Value(f, k)
  <2> HIDE DEF Value
  <2> QED
    BY <1>5
<1> QED
  BY <1>6, <1>7

LEMMA SizeIs ==
    ASSUME NEW delta, IsSequence(delta), delta # <<>>
    PROVE  \E f : /\ DeltaObjectSize(delta) = f[Len(delta)]
                  /\ \A k \in 1..Len(delta) :
                       f[k] = IF k = 1 THEN 0
                              ELSE f[k - 1] + (IF delta[k][1] = "copy" THEN CopySize(delta[k]) ELSE 1)
<1> DEFINE n == Len(delta)
           Value(f, k) == IF k = 1 THEN 0
                          ELSE f[k - 1] + (IF delta[k][1] = "copy" THEN CopySize(delta[k]) ELSE 1)
           Is(f, m) == f = [k \in 1..m |-> Value(f, k)]
           S == {m \in Nat : \E f : Is(f, m)}
<1>1. n \in Nat
  BY Lengths
<1>2. 0 \in S
  <2>1. Is([k \in 1..0 |-> 0], 0)
    OBVIOUS
  <2> QED
    BY <2>1
<1>3. ASSUME NEW m \in 0..n - 1, m \in S PROVE m + 1 \in S
  <2>1. PICK f : Is(f, m)
    BY <1>3
  <2> DEFINE g == [k \in 1..m + 1 |-> IF k <= m THEN f[k] ELSE Value(f, k)]
  <2>2. ASSUME NEW k \in 1..m + 1 PROVE g[k] = Value(g, k)
    <3>1. g[k] = Value(f, k)
      <4>1. k <= m => k \in 1..m
        OBVIOUS
      <4>2. k <= m => f[k] = Value(f, k)
        BY <2>1, <4>1
      <4> QED
        BY <4>2
    <3>2. k # 1 => g[k - 1] = f[k - 1]
      OBVIOUS
    <3> HIDE DEF g
    <3> QED
      BY <3>1, <3>2
  <2>3. g = [k \in 1..m + 1 |-> g[k]]
    OBVIOUS
  <2> HIDE DEF g, Value
  <2>4. Is(g, m + 1)
    BY <2>2, <2>3
  <2> QED
    BY <2>4
<1>4. \E f : Is(f, n)
  <2> HIDE DEF Is
  <2>1. \A m \in 0..n : m \in S
    <3> HIDE DEF S
    <3> QED
      BY <1>1, <1>2, <1>3, CountUp
  <2> QED
    BY <1>1, <2>1
<1> DEFINE f == CHOOSE f : Is(f, n)
<1>5. Is(f, n)
  BY <1>4
<1>6. DeltaObjectSize(delta) = f[n]
  BY DEF DeltaObjectSize
<1> HIDE DEF f
<1>7. \A k \in 1..n : f[k] = Value(f, k)
  <2> HIDE DEF Value
  <2> QED
    BY <1>5
<1> QED
  BY <1>6, <1>7

LEMMA FlatIs ==
    ASSUME NEW q, IsSequence(q)
    PROVE  /\ Len(q) = 0 => FlattenSeq(q) = q
           /\ Len(q) # 0 => \E f : /\ FlattenSeq(q) = f[Len(q)]
                                   /\ \A k \in 1..Len(q) :
                                        f[k] = IF k = 1 THEN q[k] ELSE f[k - 1] \o q[k]
<1> DEFINE n == Len(q)
           Value(f, k) == IF k = 1 THEN q[k] ELSE f[k - 1] \o q[k]
           Is(f, m) == f = [k \in 1..m |-> Value(f, k)]
           S == {m \in Nat : \E f : Is(f, m)}
<1>1. n \in Nat
  BY Lengths
<1>2. 0 \in S
  <2>1. Is([k \in 1..0 |-> 0], 0)
    OBVIOUS
  <2> QED
    BY <2>1
<1>3. ASSUME NEW m \in 0..n - 1, m \in S PROVE m + 1 \in S
  <2>1. PICK f : Is(f, m)
    BY <1>3
  <2> DEFINE g == [k \in 1..m + 1 |-> IF k <= m THEN f[k] ELSE Value(f, k)]
  <2>2. ASSUME NEW k \in 1..m + 1 PROVE g[k] = Value(g, k)
    <3>1. g[k] = Value(f, k)
      <4>1. k <= m => k \in 1..m
        OBVIOUS
      <4>2. k <= m => f[k] = Value(f, k)
        BY <2>1, <4>1
      <4> QED
        BY <4>2
    <3>2. k # 1 => g[k - 1] = f[k - 1]
      OBVIOUS
    <3> HIDE DEF g
    <3> QED
      BY <3>1, <3>2
  <2>3. g = [k \in 1..m + 1 |-> g[k]]
    OBVIOUS
  <2> HIDE DEF g, Value
  <2>4. Is(g, m + 1)
    BY <2>2, <2>3
  <2> QED
    BY <2>4
<1>4. \E f : Is(f, n)
  <2> HIDE DEF Is
  <2>1. \A m \in 0..n : m \in S
    <3> HIDE DEF S
    <3> QED
      BY <1>1, <1>2, <1>3, CountUp
  <2> QED
    BY <1>1, <2>1
<1> DEFINE f == CHOOSE f : Is(f, n)
<1>5. Is(f, n)
  BY <1>4
<1>6. n # 0 => FlattenSeq(q) = f[n]
  BY DEF FlattenSeq
<1>7. n = 0 => FlattenSeq(q) = q
  BY DEF FlattenSeq
<1> HIDE DEF f
<1>8. \A k \in 1..n : f[k] = Value(f, k)
  <2> HIDE DEF Value
  <2> QED
    BY <1>5
<1> QED
  BY <1>6, <1>7, <1>8

LEMMA AppendedIs ==
    ASSUME NEW s, IsSequence(s), NEW x
    PROVE  s \o <<x>> = Append(s, x)
<1> DEFINE t == <<x>>
           q == s \o t
           a == Append(s, x)
<1>1. IsSequence(t) /\ Len(t) = 1 /\ t[1] = x /\ Len(s) \in Nat
  BY Singleton, Lengths
<1>2. Joined(s, t, q)
  BY <1>1, Joins
<1>3. IsSequence(a) /\ Len(a) = Len(s) + 1 /\ (\A i \in 1..Len(s) : a[i] = s[i]) /\ a[Len(s) + 1] = x
  BY AppendAt
<1> HIDE DEF t, q, a
<1>4. IsSequence(q) /\ Len(q) = Len(s) + 1
  BY <1>1, <1>2 DEF Joined
<1>5. \A i \in 1..Len(s) : q[0 + i] = s[i] /\ 0 + i = i
  BY <1>2 DEF Joined, Has
<1>6. q[Len(s) + 1] = t[1]
  BY <1>1, <1>2 DEF Joined, Has
<1>7. \A i \in 1..Len(q) : i \in 1..Len(s) \/ i = Len(s) + 1
  BY <1>1, <1>4
<1>8. q = a
  BY <1>1, <1>3, <1>4, <1>5, <1>6, <1>7, SameSequence
<1> QED
  BY <1>8 DEF q, t, a

LEMMA NoneJoined == ASSUME NEW s, IsSequence(s) PROVE <<>> \o s = s
<1> DEFINE t == <<>> \o s
<1>1. IsSequence(<<>>) /\ Len(<<>>) = 0 /\ Len(s) \in Nat
  BY EmptySequence, Lengths
<1>2. Joined(<<>>, s, t)
  BY <1>1, Joins
<1> HIDE DEF t
<1>3. IsSequence(t) /\ Len(t) = Len(s) /\ Has(t, 0, s)
  BY <1>1, <1>2 DEF Joined
<1>4. \A j \in 1..Len(s) : t[0 + j] = s[j] /\ 0 + j = j
  BY <1>1, <1>3 DEF Has
<1>5. t = s
  BY <1>3, <1>4, SameSequence
<1> QED
  BY <1>5 DEF t

(* An instruction of a delta fits a base.                                  *)
Fits(base, i) == i[1] = "add" \/ (i[1] = "copy" /\ i[2] + CopySize(i) <= Len(base))

Piece(base, i) ==
    IF i[1] = "add" THEN <<<<"byte", i[2], 0>>>> ELSE SubSeq(base, i[2] + 1, i[2] + CopySize(i))

\* What one instruction adds.
LEMMA OneInstruction ==
    ASSUME NEW base, IsSequence(base), NEW i, IsUnit(i),
           NEW out, IsSequence(out), NEW r, r = [ok |-> TRUE, out |-> out]
    PROVE  LET s == Instruct(base, r, i)
               p == Piece(base, i)
           IN  /\ s = [ok |-> s.ok, out |-> s.out]
               /\ s.ok \in BOOLEAN /\ (s.ok <=> Fits(base, i))
               /\ s.ok => /\ s.out = out \o p /\ IsSequence(s.out)
                          /\ IsSequence(p) /\ (out = <<>> => s.out = p)
                          /\ Len(s.out) = Len(out) + (IF i[1] = "copy" THEN CopySize(i) ELSE 1)
<1> DEFINE s == Instruct(base, r, i)
           p == Piece(base, i)
           c == CopySize(i)
<1>1. i[2] \in Nat /\ c \in Nat /\ c # 0 /\ Len(base) \in Nat /\ Len(out) \in Nat
  <2>1. i[2] \in Nat /\ i[3] \in Nat /\ CopyAll \in Nat /\ CopyAll # 0
    BY UndeltifyAssumption DEF IsUnit
  <2> QED
    BY <2>1, Lengths DEF CopySize
<1>2. r.ok = TRUE /\ r.out = out
  OBVIOUS
<1>3. CASE i[1] = "copy"
  <2>1. s = [ok |-> i[2] + c <= Len(base),
             out |-> out \o SubSeq(base, i[2] + 1, Min({i[2] + c, Len(base)}))]
    BY <1>2, <1>3 DEF Instruct
  <2>2. p = SubSeq(base, i[2] + 1, i[2] + c)
    BY <1>3 DEF Piece
  <2> HIDE DEF s, p, c
  <2>3. s = [ok |-> s.ok, out |-> s.out] /\ s.ok \in BOOLEAN
    BY <2>1
  <2>4. s.ok <=> i[2] + c <= Len(base)
    BY <2>1
  <2>5. s.ok <=> Fits(base, i)
    BY <2>4, <1>3 DEF Fits, c
  <2>6. ASSUME s.ok
        PROVE /\ s.out = out \o p /\ IsSequence(s.out) /\ IsSequence(p) 
              /\ out = <<>> => s.out = p
              /\ Len(s.out) = Len(out) + c
    <3>1. i[2] + c <= Len(base) /\ i[2] + c \in Int
      BY <1>1, <2>4, <2>6
    <3>2. Min({i[2] + c, Len(base)}) = i[2] + c
      BY <1>1, <3>1, MinOf
    <3>3. s.out = out \o p
      BY <2>1, <2>2, <3>2
    <3>4. IsSequence(p) /\ Len(p) = c
      BY <1>1, <2>2, <3>1, PartAt
    <3>5. Joined(out, p, s.out)
      BY <3>3, <3>4, Joins
    <3>6. out = <<>> => s.out = p
      BY <3>3, <3>4, NoneJoined
    <3> QED
      BY <3>3, <3>4, <3>5, <3>6 DEF Joined
  <2> QED
    BY <1>3, <2>3, <2>5, <2>6 DEF s, p, c
<1>4. CASE i[1] = "add"
  <2> DEFINE x == <<"byte", i[2], 0>>
  <2>1. s = [ok |-> TRUE, out |-> Append(out, x)]
    BY <1>2, <1>4 DEF Instruct
  <2>2. p = <<x>>
    BY <1>4 DEF Piece
  <2>3. Fits(base, i)
    BY <1>4 DEF Fits
  <2> HIDE DEF s, p, c, x
  <2>4. s.out = out \o p
    BY <2>1, <2>2, AppendedIs
  <2>5. IsSequence(p) /\ IsSequence(s.out) /\ Len(s.out) = Len(out) + 1
    BY <2>1, <2>2, AppendAt, Singleton
  <2>6. out = <<>> => s.out = p
    BY <2>4, <2>5, NoneJoined
  <2>7. s = [ok |-> s.ok, out |-> s.out] /\ s.ok
    BY <2>1
  <2>8. s.ok = TRUE /\ i[1] # "copy"
    BY <2>1, <1>4
  <2> QED
    BY <2>3, <2>4, <2>5, <2>6, <2>7, <2>8 DEF s, p
<1>5. CASE i[1] # "copy" /\ i[1] # "add"
  <2>1. s = [ok |-> FALSE, out |-> out]
    BY <1>2, <1>5 DEF Instruct
  <2>2. ~ Fits(base, i)
    BY <1>5 DEF Fits
  <2> HIDE DEF s, p
  <2>3. s = [ok |-> s.ok, out |-> s.out] /\ s.ok = FALSE
    BY <2>1
  <2> QED
    BY <2>2, <2>3 DEF s, p
<1> QED
  BY <1>3, <1>4, <1>5

IsUnits(delta) == IsSequence(delta) /\ \A k \in 1..Len(delta) : IsUnit(delta[k])

LEMMA AppliesIs ==
    ASSUME NEW base, NEW delta, IsSequence(base), IsUnits(delta), delta # <<>>, delta[1][1] = "sizes"
    PROVE  Applies(base, delta) <=> \A k \in 2..Len(delta) : Fits(base, delta[k])
  BY DEF Applies, Fits

(* A delta gives the pieces that its instructions name, in their order, if *)
(* all of them fit the base, and as much as DeltaObjectSize says.          *)
THEOREM DeltasApply ==
    ASSUME NEW base, NEW delta, IsSequence(base), IsUnits(delta)
    PROVE  LET r == ReadDelta(base, delta)
           IN  /\ r = [ok |-> r.ok, out |-> r.out] /\ r.ok \in BOOLEAN
               /\ r.ok <=> Applies(base, delta)
               /\ r.ok => /\ IsSequence(r.out)
                          /\ r.out = FlattenSeq(Pieces(base, delta))
                          /\ DeltaObjectSize(delta) = Len(r.out)
<1> DEFINE n == Len(delta)
           r == ReadDelta(base, delta)
           q == Pieces(base, delta)
<1>1. n \in Nat
  BY Lengths DEF IsUnits
<1>2. CASE delta = <<>> \/ delta[1][1] # "sizes"
  <2>1. r = [ok |-> FALSE, out |-> <<>>]
    BY <1>2 DEF ReadDelta
  <2>2. ~ Applies(base, delta)
    BY <1>2 DEF Applies
  <2> HIDE DEF r
  <2>3. r = [ok |-> r.ok, out |-> r.out] /\ r.ok = FALSE
    BY <2>1
  <2> QED
    BY <2>2, <2>3 DEF r
<1>3. CASE delta # <<>> /\ delta[1][1] = "sizes"
  <2>1. n # 0
    BY <1>3, NoneLeft DEF IsUnits
  <2>2. PICK f : /\ r = f[n]
                 /\ \A k \in 1..n : f[k] = IF k = 1 THEN [ok |-> TRUE, out |-> <<>>]
                                           ELSE Instruct(base, f[k - 1], delta[k])
    BY <1>3, ReadIs DEF IsUnits
  <2>3. PICK h : /\ DeltaObjectSize(delta) = h[n]
                 /\ \A k \in 1..n :
                      h[k] = IF k = 1 THEN 0
                             ELSE h[k - 1] + (IF delta[k][1] = "copy" THEN CopySize(delta[k]) ELSE 1)
    BY <1>3, SizeIs DEF IsUnits
  <2>4. /\ IsSequence(q) /\ Len(q) = n - 1
        /\ \A k \in 1..n - 1 : q[k] = Piece(base, delta[k + 1])
    <3>1. q = [k \in 1..(n - 1) |-> q[k]]
      BY DEF Pieces
    <3>2. n - 1 \in Nat
      BY <1>1, <2>1
    <3>3. \A k \in 1..n - 1 : q[k] = Piece(base, delta[k + 1])
      BY DEF Pieces, Piece
    <3> HIDE DEF q
    <3> QED
      BY <3>1, <3>2, <3>3, MadeSequence
  <2>5. \E g : /\ n = 1 => FlattenSeq(q) = <<>>
               /\ n # 1 => FlattenSeq(q) = g[n - 1]
               /\ \A k \in 1..n - 1 : g[k] = IF k = 1 THEN q[k] ELSE g[k - 1] \o q[k]
    <3> HIDE DEF q
    <3>1. CASE n = 1
      <4>1. Len(q) = 0
        BY <2>4, <3>1
      <4>2. FlattenSeq(q) = q /\ q = <<>>
        BY <2>4, <4>1, FlatIs, NoneLeft
      <4>3. \A k \in 1..n - 1 : FALSE
        BY <3>1
      <4> QED
        BY <3>1, <4>2, <4>3
    <3>2. CASE n # 1
      <4>1. Len(q) # 0
        BY <1>1, <2>1, <2>4, <3>2
      <4>2. PICK g : /\ FlattenSeq(q) = g[Len(q)]
                     /\ \A k \in 1..Len(q) : g[k] = IF k = 1 THEN q[k] ELSE g[k - 1] \o q[k]
        BY <2>4, <4>1, FlatIs
      <4> QED
        BY <2>4, <3>2, <4>2
    <3> QED
      BY <3>1, <3>2
  <2>6. PICK g : /\ n = 1 => FlattenSeq(q) = <<>>
                 /\ n # 1 => FlattenSeq(q) = g[n - 1]
                 /\ \A k \in 1..n - 1 : g[k] = IF k = 1 THEN q[k] ELSE g[k - 1] \o q[k]
    BY <2>5
  <2> DEFINE AllFit(m) == \A j \in 2..m : Fits(base, delta[j])
             Good(m) == /\ f[m] = [ok |-> f[m].ok, out |-> f[m].out] /\ f[m].ok \in BOOLEAN
                        /\ f[m].ok <=> AllFit(m)
                        /\ f[m].ok => /\ IsSequence(f[m].out) /\ Len(f[m].out) = h[m]
                                      /\ m = 1 => f[m].out = <<>>
                                      /\ m # 1 => f[m].out = g[m - 1]
             S == {m \in Nat : Good(m + 1)}
  <2>7. 0 \in S
    <3>1. f[1] = [ok |-> TRUE, out |-> <<>>] /\ h[1] = 0
      BY <1>1, <2>1, <2>2, <2>3
    <3>2. AllFit(1)
      OBVIOUS
    <3>3. IsSequence(<<>>) /\ Len(<<>>) = 0
      BY EmptySequence
    <3> HIDE DEF AllFit
    <3>4. Good(1)
      BY <3>1, <3>2, <3>3
    <3> HIDE DEF Good
    <3> QED
      BY <3>4
  <2>8. ASSUME NEW m \in 0..(n - 1) - 1, m \in S PROVE m + 1 \in S
    <3> DEFINE k == m + 1
               i == delta[k + 1]
    <3>1. k \in Nat /\ k \in 1..n /\ k + 1 \in 2..n /\ k + 1 \in 1..n /\ k + 1 # 1 /\ (k + 1) - 1 = k
          /\ k \in 1..n - 1
      BY <1>1
    <3>2. Good(k)
      BY <2>8
    <3>3. IsUnit(i)
      BY <3>1 DEF IsUnits
    <3> HIDE DEF k
    <3>4. f[k + 1] = Instruct(base, f[k], i)
      BY <2>2, <3>1
    <3>5. h[k + 1] = h[k] + (IF i[1] = "copy" THEN CopySize(i) ELSE 1)
      BY <2>3, <3>1
    <3>6. g[k] = IF k = 1 THEN q[k] ELSE g[k - 1] \o q[k]
      BY <2>6, <3>1
    <3>7. q[k] = Piece(base, i)
      BY <2>4, <3>1
    <3>8. AllFit(k + 1) <=> AllFit(k) /\ Fits(base, i)
      <4>1. \A j \in 2..k + 1 : j \in 2..k \/ j = k + 1
        BY <3>1
      <4>2. \A j \in 2..k : j \in 2..k + 1
        BY <3>1
      <4> QED
        BY <3>1, <4>1, <4>2
    <3> HIDE DEF i, AllFit, q
    <3>9. CASE f[k].ok
      <4>1. f[k] = [ok |-> TRUE, out |-> f[k].out] /\ IsSequence(f[k].out) /\ Len(f[k].out) = h[k]
        BY <3>2, <3>9
      <4> DEFINE s == Instruct(base, f[k], i)
                 p == Piece(base, i)
                 out == f[k].out
      <4>2. /\ s = [ok |-> s.ok, out |-> s.out]
            /\ s.ok \in BOOLEAN /\ (s.ok <=> Fits(base, i))
            /\ s.ok => /\ s.out = out \o p /\ IsSequence(s.out)
                       /\ (out = <<>> => s.out = p)
                       /\ Len(s.out) = Len(out) + (IF i[1] = "copy" THEN CopySize(i) ELSE 1)
        BY <3>3, <4>1, OneInstruction
      <4>3. s.ok => s.out = g[k]
        <5>1. k = 1 => out = <<>> /\ g[k] = p
          BY <3>2, <3>6, <3>7, <3>9
        <5>2. k # 1 => out = g[k - 1] /\ g[k] = g[k - 1] \o p
          BY <3>2, <3>6, <3>7, <3>9
        <5> HIDE DEF s, p, out
        <5> QED
          BY <4>2, <5>1, <5>2
      <4>4. f[k + 1] = s
        BY <3>4
      <4>5. s.ok <=> AllFit(k + 1)
        BY <3>2, <3>8, <3>9, <4>2
      <4> HIDE DEF s, p
      <4>6. Good(k + 1)
        BY <3>1, <3>5, <4>1, <4>2, <4>3, <4>4, <4>5
      <4> HIDE DEF Good
      <4> QED
        BY <3>1, <4>6 DEF k
    <3>10. CASE ~ f[k].ok
      <4>1. f[k + 1] = f[k]
        BY <3>4, <3>10 DEF Instruct
      <4>2. ~ AllFit(k) /\ ~ AllFit(k + 1)
        BY <3>2, <3>8, <3>10
      <4>3. Good(k + 1)
        BY <3>2, <3>10, <4>1, <4>2
      <4> HIDE DEF Good
      <4> QED
        BY <3>1, <4>3 DEF k
    <3> QED
      BY <3>9, <3>10
  <2>9. Good(n)
    <3>1. n - 1 \in Nat /\ (n - 1) + 1 = n /\ n - 1 \in 0..n - 1
      BY <1>1, <2>1
    <3>2. \A m \in 0..n - 1 : m \in S
      <4> HIDE DEF S
      <4> QED
        BY <2>7, <2>8, <3>1, CountUp
    <3>3. n - 1 \in S
      BY <3>1, <3>2
    <3> HIDE DEF Good
    <3>4. Good((n - 1) + 1)
      BY <3>3
    <3> QED
      BY <3>1, <3>4
  <2>10. Applies(base, delta) <=> AllFit(n)
    BY <1>3, AppliesIs
  <2> HIDE DEF r, q, AllFit, n
  <2>11. r.ok => r.out = FlattenSeq(q)
    BY <2>2, <2>6, <2>9
  <2> QED
    BY <2>2, <2>3, <2>9, <2>10, <2>11 DEF r, q
<1> QED
  BY <1>2, <1>3

-----------------------------------------------------------------------------
(* Chains of deltas.                                                       *)

Type(m, i) == m[i].hdr.type
Base(m, i) == m[i].hdr.base

(* What the caller of the writer says of bases.  A base that comes later   *)
(* is no delta, so that no object rests on itself.                         *)
BaseSaid(m, d, i) ==
    /\ Type(m, i) = "OffsetDelta" => \E j \in 1..(i - 1) : Base(m, i) = Offset(m, j)
    /\ Type(m, i) = "RefDelta" =>
         /\ Base(m, i) \in Nat /\ Base(m, i) # d[i]
         /\ \A j \in (i + 1)..Len(m) : d[j] = Base(m, i) => NonDelta(Type(m, j))

Linked(m, d) == \A i \in 1..Len(m) : IsUnits(Units(m, i)) /\ BaseSaid(m, d, i)

IsBase(m, d, known, i, j) ==
    /\ j \in 1..Len(m)
    /\ IF Type(m, i) = "OffsetDelta" THEN Offset(m, j) = Base(m, i)
                                     ELSE known /\ d[j] = Base(m, i)

Rank(m, i) == IF NonDelta(Type(m, i)) THEN 0 ELSE i

LEMMA OffsetsGrow ==
    ASSUME NEW m, AllMeant(m), NEW i \in 1..Len(m)
    PROVE  \A j \in 1..Len(m) : i < j => Offset(m, i) < Offset(m, j)
<1> DEFINE Wrong == {j \in 1..Len(m) : i < j /\ ~(Offset(m, i) < Offset(m, j))}
<1>1. SUFFICES ASSUME Wrong # {} PROVE FALSE
  OBVIOUS
<1>2. PICK j \in Wrong : \A k \in Wrong : j <= k
  <2>1. Wrong \in SUBSET Nat
    OBVIOUS
  <2> HIDE DEF Wrong
  <2> QED
    BY <1>1, <2>1, LeastNumber
<1>3. j \in 1..Len(m) /\ i < j /\ ~(Offset(m, i) < Offset(m, j))
  BY <1>2
<1>4. j - 1 \in 1..Len(m) /\ i <= j - 1 /\ j - 1 \notin Wrong /\ j - 1 # 0
  BY <1>2
<1> HIDE DEF Wrong
<1>5. Offset(m, i) <= Offset(m, j - 1)
  <2>1. CASE i = j - 1
    <3>1. Offset(m, i) \in Nat
      BY Place
    <3> QED
      BY <2>1, <3>1
  <2>2. CASE i # j - 1
    <3>1. i < j - 1
      BY <1>3, <1>4, <2>2
    <3>2. Offset(m, i) < Offset(m, j - 1)
      BY <1>4, <3>1 DEF Wrong
    <3>3. Offset(m, i) \in Nat /\ Offset(m, j - 1) \in Nat
      BY <1>4, Place
    <3> QED
      BY <3>2, <3>3
  <2> QED
    BY <2>1, <2>2
<1>6. /\ Offset(m, i) \in Nat /\ Offset(m, j) \in Nat /\ Offset(m, j - 1) \in Nat
      /\ Size(m, j - 1) \in Nat /\ After(m, j - 1) = Offset(m, j - 1) + Size(m, j - 1) + 2
      /\ Offset(m, j) = After(m, j - 1)
  BY <1>3, <1>4, Place
<1> QED
  BY <1>3, <1>5, <1>6

LEMMA OffsetsDiffer ==
    ASSUME NEW m, AllMeant(m), NEW i \in 1..Len(m), NEW j \in 1..Len(m), Offset(m, i) = Offset(m, j)
    PROVE  i = j
<1>1. Offset(m, i) \in Nat /\ Offset(m, j) \in Nat /\ Len(m) \in Nat
  BY Place
<1>2. i < j => Offset(m, i) < Offset(m, j)
  BY OffsetsGrow
<1>3. j < i => Offset(m, j) < Offset(m, i)
  BY OffsetsGrow
<1> QED
  BY <1>1, <1>2, <1>3

\* Object IDs that tell the objects apart.
Differ(d) ==
    /\ \A i \in 1..MaxObjects : d[i] \in Nat
    /\ \A i, j \in 1..MaxObjects : i # j => d[i] # d[j]

LEMMA OrdersDiffer == ASSUME NEW d \in IDOrders PROVE Differ(d)
<1>1. \A i \in 1..MaxObjects : d[i] \in DOMAIN FirstByte
  BY UndeltifyAssumption
<1> QED
  BY <1>1, IndexAssumption, StreamAssumption DEF Differ

LEMMA OneBase ==
    ASSUME NEW m, AllMeant(m), NEW d, Differ(d), NEW known, NEW i \in 1..Len(m),
           NEW j, IsBase(m, d, known, i, j), NEW k, IsBase(m, d, known, i, k)
    PROVE  j = k
<1>1. j \in 1..Len(m) /\ k \in 1..Len(m) /\ Len(m) <= MaxObjects /\ Len(m) \in Nat /\ MaxObjects \in Nat
  BY StreamAssumption, Lengths DEF IsBase, AllMeant
<1>2. j \in 1..MaxObjects /\ k \in 1..MaxObjects
  BY <1>1
<1>3. CASE Type(m, i) = "OffsetDelta"
  BY <1>1, <1>3, OffsetsDiffer DEF IsBase
<1>4. CASE Type(m, i) # "OffsetDelta"
  BY <1>2, <1>4 DEF IsBase, Differ
<1> QED
  BY <1>3, <1>4

LEMMA RanksFall ==
    ASSUME NEW m, AllMeant(m), NEW d, Differ(d), Linked(m, d), NEW known, NEW i \in 1..Len(m),
           ~ NonDelta(Type(m, i)), NEW j, IsBase(m, d, known, i, j)
    PROVE  Rank(m, j) < Rank(m, i) /\ Rank(m, i) = i /\ Rank(m, j) \in Nat
<1>1. j \in 1..Len(m) /\ Len(m) \in Nat /\ Rank(m, i) = i
  BY Lengths DEF IsBase, AllMeant, Rank
<1>2. Rank(m, j) \in Nat /\ Rank(m, j) <= j
  BY <1>1 DEF Rank
<1>3. Type(m, i) = "OffsetDelta" \/ Type(m, i) = "RefDelta"
  BY DEF NonDelta
<1>4. BaseSaid(m, d, i)
  BY DEF Linked
<1>5. CASE Type(m, i) = "OffsetDelta"
  <2>1. PICK k \in 1..(i - 1) : Base(m, i) = Offset(m, k)
    BY <1>4, <1>5 DEF BaseSaid
  <2>2. k \in 1..Len(m) /\ k < i
    BY <1>1
  <2>3. Offset(m, j) = Offset(m, k)
    BY <1>5, <2>1 DEF IsBase
  <2>4. j = k
    BY <1>1, <2>2, <2>3, OffsetsDiffer
  <2> QED
    BY <1>1, <1>2, <2>2, <2>4
<1>6. CASE Type(m, i) = "RefDelta"
  <2>1. d[j] = Base(m, i) /\ Base(m, i) # d[i]
    BY <1>4, <1>6 DEF IsBase, BaseSaid
  <2>2. j # i
    BY <2>1
  <2>3. CASE j < i
    BY <1>1, <1>2, <2>3
  <2>4. CASE ~(j < i)
    <3>1. j \in (i + 1)..Len(m)
      BY <1>1, <2>2, <2>4
    <3>2. NonDelta(Type(m, j))
      BY <1>4, <1>6, <2>1, <3>1 DEF BaseSaid
    <3>3. Rank(m, j) = 0
      BY <3>2 DEF Rank
    <3> QED
      BY <1>1, <3>3
  <2> QED
    BY <2>3, <2>4
<1> QED
  BY <1>1, <1>2, <1>3, <1>5, <1>6

(* The content of an object is that of its base with the delta applied:    *)
(* there is such a function, since the ranks fall.                         *)
Known == index # NilIndex

LEMMA BaseNumberIs ==
    ASSUME AllMeant(meant), NEW i
    PROVE  /\ BaseNumber(i) \subseteq 1..Len(meant)
           /\ \A j : j \in BaseNumber(i) <=> IsBase(meant, ids, Known, i, j)
<1>1. DOMAIN meant = 1..Len(meant)
  BY DEF AllMeant, IsSequence
<1>2. CASE meant[i].hdr.type = "OffsetDelta"
  BY <1>1, <1>2 DEF BaseNumber, IsBase, Type, Offset, Base
<1>3. CASE meant[i].hdr.type # "OffsetDelta"
  BY <1>1, <1>3 DEF BaseNumber, IsBase, Type, Offset, Base, Known
<1> QED
  BY <1>2, <1>3

OnBase(b, j, delta) ==
    IF \/ ~ b.ok
       \/ NonDelta(meant[j].hdr.type) /\ Len(b.data) > MaxDeltaObjectSize
       \/ ~ Applies(b.data, delta)
      THEN NoContent
      ELSE [ok |-> TRUE, type |-> b.type, data |-> FlattenSeq(Pieces(b.data, delta))]

TheBase(i) == CHOOSE j \in BaseNumber(i) : TRUE

ContentOf(f, i) ==
    IF NonDelta(meant[i].hdr.type)
      THEN [ok |-> TRUE, type |-> meant[i].hdr.type, data |-> meant[i].data]
    ELSE IF BaseNumber(i) = {} THEN NoContent
    ELSE OnBase(f[TheBase(i)], TheBase(i), meant[i].data)

LEMMA ContentIs ==
    ASSUME AllMeant(meant), Differ(ids), Linked(meant, ids)
    PROVE  \A i \in 1..MaxObjects : Content[i] = ContentOf(Content, i)
<1> DEFINE D == 1..MaxObjects
           Fall(i) == IF i \in 1..Len(meant) THEN Rank(meant, i) ELSE MaxObjects + 1
           Obeys(f, r) == \A i \in D : Fall(i) <= r => f[i] = ContentOf(f, i)
           S == {r \in Nat : \E f : f = [i \in D |-> f[i]] /\ Obeys(f, r)}
<1>1. MaxObjects \in Nat /\ Len(meant) \in Nat /\ Len(meant) <= MaxObjects
  BY StreamAssumption, Lengths DEF AllMeant
<1>2. ASSUME NEW i \in D PROVE Fall(i) \in 0..MaxObjects + 1
  BY <1>1 DEF Rank
<1>3. ASSUME NEW i \in D, ~ NonDelta(meant[i].hdr.type), BaseNumber(i) # {}
      PROVE  TheBase(i) \in D /\ Fall(TheBase(i)) < Fall(i)
  <2> DEFINE j == TheBase(i)
  <2>1. j \in BaseNumber(i)
    BY <1>3 DEF TheBase
  <2> HIDE DEF j
  <2>2. j \in 1..Len(meant) /\ IsBase(meant, ids, Known, i, j)
    BY <2>1, BaseNumberIs
  <2>3. j \in D
    BY <1>1, <2>2
  <2>4. CASE i \in 1..Len(meant)
    <3>1. Rank(meant, j) < Rank(meant, i)
      BY <1>3, <2>2, <2>4, RanksFall DEF Type
    <3> QED
      BY <2>2, <2>3, <2>4, <3>1 DEF j
  <2>5. CASE i \notin 1..Len(meant)
    <3>1. Rank(meant, j) \in Nat /\ Rank(meant, j) <= MaxObjects
      BY <1>1, <2>2 DEF Rank
    <3> QED
      BY <1>1, <2>2, <2>3, <2>5, <3>1 DEF j
  <2> QED
    BY <2>4, <2>5
<1> HIDE DEF Fall
<1>4. 0 \in S
  <2> DEFINE f == [i \in D |-> ContentOf(<<>>, i)]
  <2>1. ASSUME NEW i \in D, Fall(i) <= 0 PROVE f[i] = ContentOf(f, i)
    <3>1. NonDelta(meant[i].hdr.type) \/ BaseNumber(i) = {}
      <4>1. SUFFICES ASSUME ~ NonDelta(meant[i].hdr.type), BaseNumber(i) # {} PROVE FALSE
        OBVIOUS
      <4>2. TheBase(i) \in D /\ Fall(TheBase(i)) < Fall(i)
        BY <1>3, <4>1
      <4> QED
        BY <1>2, <2>1, <4>2
    <3>2. ContentOf(<<>>, i) = ContentOf(f, i)
      <4> HIDE DEF f
      <4> QED
        BY <3>1 DEF ContentOf
    <3> QED
      BY <3>2
  <2>2. f = [i \in D |-> f[i]]
    OBVIOUS
  <2> HIDE DEF f
  <2>3. Obeys(f, 0)
    BY <2>1
  <2> QED
    BY <2>2, <2>3
<1>5. ASSUME NEW r \in 0..(MaxObjects + 1) - 1, r \in S PROVE r + 1 \in S
  <2>1. PICK f : Obeys(f, r)
    BY <1>5
  <2> DEFINE g == [i \in D |-> IF Fall(i) <= r THEN f[i] ELSE ContentOf(f, i)]
  <2>2. ASSUME NEW i \in D, Fall(i) <= r + 1 PROVE g[i] = ContentOf(g, i)
    <3>1. g[i] = ContentOf(f, i)
      <4>1. Fall(i) <= r => f[i] = ContentOf(f, i)
        BY <2>1
      <4> QED
        BY <4>1
    <3>2. ASSUME ~ NonDelta(meant[i].hdr.type), BaseNumber(i) # {}
          PROVE  g[TheBase(i)] = f[TheBase(i)]
      <4>1. TheBase(i) \in D /\ Fall(TheBase(i)) < Fall(i)
        BY <1>3, <3>2
      <4> DEFINE j == TheBase(i)
      <4>2. Fall(j) \in Nat /\ Fall(i) \in Nat /\ r \in Nat
        BY <1>2, <4>1
      <4> HIDE DEF j
      <4>3. Fall(j) <= r
        BY <2>2, <4>1, <4>2 DEF j
      <4> QED
        BY <4>1, <4>3 DEF j
    <3> HIDE DEF g
    <3>3. ContentOf(f, i) = ContentOf(g, i)
      BY <3>2 DEF ContentOf
    <3> QED
      BY <3>1, <3>3
  <2>3. g = [i \in D |-> g[i]]
    OBVIOUS
  <2>4. r + 1 \in Nat
    OBVIOUS
  <2> HIDE DEF g
  <2>5. Obeys(g, r + 1)
    BY <2>2
  <2> QED
    BY <2>3, <2>4, <2>5
<1>6. \E f : f = [i \in D |-> ContentOf(f, i)]
  <2>1. MaxObjects + 1 \in Nat /\ MaxObjects + 1 \in 0..MaxObjects + 1
    BY <1>1
  <2>2. \A r \in 0..MaxObjects + 1 : r \in S
    <3> HIDE DEF S
    <3> QED
      BY <1>4, <1>5, <2>1, CountUp
  <2>3. PICK f : f = [i \in D |-> f[i]] /\ Obeys(f, MaxObjects + 1)
    BY <2>1, <2>2
  <2>4. \A i \in D : f[i] = ContentOf(f, i)
    BY <1>2, <2>3
  <2>5. f = [i \in D |-> ContentOf(f, i)]
    BY <2>3, <2>4
  <2> QED
    BY <2>5
<1> DEFINE Is(f) == f = [i \in D |-> ContentOf(f, i)]
<1>7. Content = CHOOSE f : Is(f)
  BY DEF Content, ContentOf, OnBase, TheBase
<1>8. Is(Content)
  <2>1. \E f : Is(f)
    BY <1>6
  <2> HIDE DEF Is
  <2> QED
    BY <1>7, <2>1
<1> QED
  BY <1>8

(* A file that came whole or cut has of each object what came of it, and   *)
(* the sizes in its headers are right.                                     *)
RandomFile(m, f) ==
    /\ IsSequence(f)
    /\ \A i \in 1..Len(m) : Came(m, f, i) /\ (Offset(m, i) < Len(f) => Sound(m, f, i))

WholeData(m, f) == \A i \in 1..Len(m) : After(m, i) <= Len(f)

(* The index finds what the pack has and nothing else.                     *)
Finds(idx, d, m) ==
    \A x \in Nat :
      LET place == FindID(idx, x)
      IN  /\ (\E j \in 1..Len(m) : d[j] = x) => place # -1
          /\ place # -1 => \E j \in 1..Len(m) : d[j] = x /\ idx.Offsets[place] = Offset(m, j)

Meant == AllMeant(meant) /\ Differ(ids) /\ Linked(meant, ids)
Ready == Meant /\ RandomFile(meant, file) /\ (index # NilIndex => Finds(index, ids, meant))

LEMMA NoIndexFinds == \A x : FindID(NilIndex, x) = -1
<1>1. NilIndex.ObjectIDs = <<>> /\ DOMAIN <<>> = {}
  BY DEF NilIndex
<1> QED
  BY <1>1 DEF FindID

LEMMA ContentPlain ==
    ASSUME Meant, NEW i \in 1..Len(meant), NonDelta(Type(meant, i))
    PROVE  Content[i] = [ok |-> TRUE, type |-> Type(meant, i), data |-> Units(meant, i)]
<1>1. i \in 1..MaxObjects
  BY StreamAssumption, Lengths DEF Meant, AllMeant
<1>2. Content[i] = ContentOf(Content, i)
  BY <1>1, ContentIs DEF Meant
<1> QED
  BY <1>2 DEF ContentOf, Type, Units

LEMMA ContentNoBase ==
    ASSUME Meant, NEW i \in 1..Len(meant), ~ NonDelta(Type(meant, i)),
           \A j : ~ IsBase(meant, ids, Known, i, j)
    PROVE  Content[i] = NoContent
<1>1. i \in 1..MaxObjects
  BY StreamAssumption, Lengths DEF Meant, AllMeant
<1>2. Content[i] = ContentOf(Content, i)
  BY <1>1, ContentIs DEF Meant
<1>3. BaseNumber(i) = {}
  <2>1. \A j : j \notin BaseNumber(i)
    BY BaseNumberIs DEF Meant
  <2> QED
    BY <2>1
<1> QED
  BY <1>2, <1>3 DEF ContentOf, Type

LEMMA ContentOnBase ==
    ASSUME Meant, NEW i \in 1..Len(meant), ~ NonDelta(Type(meant, i)),
           NEW j, IsBase(meant, ids, Known, i, j)
    PROVE  Content[i] = OnBase(Content[j], j, Units(meant, i))
<1>1. i \in 1..MaxObjects
  BY StreamAssumption, Lengths DEF Meant, AllMeant
<1>2. Content[i] = ContentOf(Content, i)
  BY <1>1, ContentIs DEF Meant
<1>3. j \in BaseNumber(i)
  BY BaseNumberIs DEF Meant
<1>4. TheBase(i) \in BaseNumber(i)
  BY <1>3 DEF TheBase
<1>5. IsBase(meant, ids, Known, i, TheBase(i))
  BY <1>4, BaseNumberIs DEF Meant
<1>6. TheBase(i) = j
  BY <1>5, OneBase DEF Meant
<1> QED
  BY <1>2, <1>3, <1>6 DEF ContentOf, Type, Units

-----------------------------------------------------------------------------
(* The walk goes from base to base.                                        *)

(* p are the objects of a walk so far, the last of them not read yet.      *)
Chain(w, p) ==
    LET n == Len(p)
    IN  /\ IsSequence(p) /\ n # 0
        /\ \A t \in 1..n : p[t] \in 1..Len(meant)
        /\ \A t \in 1..n - 1 :
             /\ ~ NonDelta(Type(meant, p[t]))
             /\ Offset(meant, p[t]) < Len(file)
             /\ IsBase(meant, ids, Known, p[t], p[t + 1])
        /\ n - 1 + Rank(meant, p[n]) <= MaxObjects
        /\ w = [at |-> w.at, stack |-> w.stack, state |-> w.state]
        /\ w.at = Offset(meant, p[n])
        /\ IsSequence(w.stack) /\ Len(w.stack) = n - 1
        /\ \A t \in 1..n - 1 : w.stack[t] = Offset(meant, p[t]) + 1

NoBase(i) == ~ NonDelta(Type(meant, i)) /\ \A j : ~ IsBase(meant, ids, Known, i, j)

(* How a walk ends at object i.                                            *)
Stops(w, i) ==
    LET there == Offset(meant, i) < Len(file)
    IN  \/ w.state = "found" /\ there /\ NonDelta(Type(meant, i))
        \/ w.state = "error" /\ (~ there \/ NoBase(i))
        \/ w.state = "nil dereference" /\ ~ there /\ w.stack # <<>>

Walked(w, n, p) ==
    /\ Chain(w, p)
    /\ \/ w.state = "walking" /\ Len(p) = n + 1
       \/ w.state # "walking" /\ Stops(w, p[Len(p)])

LEMMA HeaderThere ==
    ASSUME Ready, NEW i \in 1..Len(meant)
    PROVE  /\ Offset(meant, i) \in Nat
           /\ HasHeader(Offset(meant, i)) <=> Offset(meant, i) < Len(file)
           /\ Offset(meant, i) < Len(file) =>
                readObjectHeader(Offset(meant, i)) = meant[i].hdr
<1>1. Offset(meant, i) \in Nat /\ Len(file) \in Nat
  BY Place, Lengths DEF Ready, Meant, RandomFile
<1>2. HasHeader(Offset(meant, i)) => Offset(meant, i) < Len(file)
  BY <1>1 DEF HasHeader
<1>3. ASSUME Offset(meant, i) < Len(file)
      PROVE  /\ HasHeader(Offset(meant, i))
             /\ readObjectHeader(Offset(meant, i)) = meant[i].hdr
  <2>1. AllMeant(meant) /\ Came(meant, file, i) /\ Sound(meant, file, i)
    BY <1>3 DEF Ready, Meant, RandomFile
  <2>2. Offset(meant, i) \in 0..(Len(file) - 1)
    BY <1>1, <1>3
  <2>3. file[Offset(meant, i) + 1].kind = "object"
    BY <1>3, <2>1 DEF Came, HeaderCame
  <2>4. HasHeader(Offset(meant, i))
    BY <2>2, <2>3 DEF HasHeader
  <2>5. HeaderSeen(meant, file, readObjectHeader(Offset(meant, i)), i)
    BY <1>3, <2>1, HeaderIsRead
  <2> QED
    BY <2>1, <2>4, <2>5, SoundHeader
<1> QED
  BY <1>1, <1>2, <1>3

(* From a delta to its base, if that is known.                             *)
LEMMA BaseFollowed ==
    ASSUME Ready, NEW i \in 1..Len(meant), ~ NonDelta(Type(meant, i))
    PROVE  LET hdr == meant[i].hdr
               place == FindID(index, hdr.base)
           IN  /\ hdr.type = "OffsetDelta" =>
                    \E j : IsBase(meant, ids, Known, i, j) /\ Offset(meant, j) = hdr.base
               /\ hdr.type # "OffsetDelta" /\ place = -1 => NoBase(i)
               /\ hdr.type # "OffsetDelta" /\ place # -1 =>
                    \E j : IsBase(meant, ids, Known, i, j)
                           /\ Offset(meant, j) = index.Offsets[place]
<1> DEFINE hdr == meant[i].hdr
           place == FindID(index, hdr.base)
<1>1. BaseSaid(meant, ids, i) /\ Len(meant) \in Nat
  BY Lengths DEF Ready, Meant, Linked, AllMeant
<1>2. hdr.type = Type(meant, i) /\ hdr.base = Base(meant, i)
  BY DEF Type, Base
<1>3. ASSUME hdr.type = "OffsetDelta"
      PROVE  \E j : IsBase(meant, ids, Known, i, j) /\ Offset(meant, j) = hdr.base
  <2>1. PICK j \in 1..(i - 1) : Base(meant, i) = Offset(meant, j)
    BY <1>1, <1>2, <1>3 DEF BaseSaid
  <2>2. j \in 1..Len(meant)
    BY <1>1
  <2> QED
    BY <1>2, <1>3, <2>1, <2>2 DEF IsBase
<1>4. ASSUME hdr.type # "OffsetDelta"
      PROVE  /\ place = -1 => NoBase(i)
             /\ place # -1 => \E j : IsBase(meant, ids, Known, i, j)
                                     /\ Offset(meant, j) = index.Offsets[place]
  <2>1. hdr.type = "RefDelta"
    BY <1>2, <1>4 DEF NonDelta
  <2>2. hdr.base \in Nat
    BY <1>1, <1>2, <2>1 DEF BaseSaid
  <2>3. CASE index = NilIndex
    <3>1. place = -1
      BY <2>3, NoIndexFinds
    <3>2. NoBase(i)
      BY <1>2, <1>4, <2>3 DEF NoBase, IsBase, Known
    <3> QED
      BY <3>1, <3>2
  <2>4. CASE index # NilIndex
    <3>1. /\ (\E j \in 1..Len(meant) : ids[j] = hdr.base) => place # -1
          /\ place # -1 => \E j \in 1..Len(meant) :
                             ids[j] = hdr.base /\ index.Offsets[place] = Offset(meant, j)
      BY <2>2, <2>4 DEF Ready, Finds
    <3> HIDE DEF place, hdr
    <3>2. place = -1 => NoBase(i)
      BY <1>2, <1>4, <3>1 DEF NoBase, IsBase
    <3>3. place # -1 => \E j : IsBase(meant, ids, Known, i, j)
                               /\ Offset(meant, j) = index.Offsets[place]
      BY <1>2, <1>4, <2>4, <3>1 DEF IsBase, Known
    <3> QED
      BY <3>2, <3>3
  <2> QED
    BY <2>3, <2>4
<1> HIDE DEF hdr, place
<1> QED
  BY <1>3, <1>4 DEF hdr, place

LEMMA ChainGoesOn ==
    ASSUME Ready, NEW w, NEW p, Chain(w, p), NEW at,
           ~ NonDelta(Type(meant, p[Len(p)])), Offset(meant, p[Len(p)]) < Len(file),
           NEW j, IsBase(meant, ids, Known, p[Len(p)], j), Offset(meant, j) = at
    PROVE  LET v == [at |-> at, stack |-> Append(w.stack, w.at + 1), state |-> w.state]
           IN  Chain(v, Append(p, j)) /\ Len(Append(p, j)) = Len(p) + 1
<1> DEFINE n == Len(p)
           q == Append(p, j)
           v == [at |-> at, stack |-> Append(w.stack, w.at + 1), state |-> w.state]
<1>1. /\ IsSequence(p) /\ n # 0 /\ n \in Nat /\ n \in 1..n
      /\ \A t \in 1..n : p[t] \in 1..Len(meant)
      /\ \A t \in 1..n - 1 :
           /\ ~ NonDelta(Type(meant, p[t]))
           /\ Offset(meant, p[t]) < Len(file)
           /\ IsBase(meant, ids, Known, p[t], p[t + 1])
      /\ n - 1 + Rank(meant, p[n]) <= MaxObjects
      /\ w.at = Offset(meant, p[n])
      /\ IsSequence(w.stack) /\ Len(w.stack) = n - 1
      /\ \A t \in 1..n - 1 : w.stack[t] = Offset(meant, p[t]) + 1
  BY Lengths DEF Chain
<1>2. IsSequence(q) /\ Len(q) = n + 1 /\ (\A t \in 1..n : q[t] = p[t]) /\ q[n + 1] = j
  BY <1>1, AppendAt
<1>3. /\ IsSequence(v.stack) /\ Len(v.stack) = (n - 1) + 1
      /\ (\A t \in 1..n - 1 : v.stack[t] = w.stack[t]) /\ v.stack[(n - 1) + 1] = w.at + 1
  BY <1>1, AppendAt
<1>4. v = [at |-> v.at, stack |-> v.stack, state |-> v.state] /\ v.at = at /\ v.state = w.state
  OBVIOUS
<1>5. /\ (n - 1) + 1 = n /\ (n + 1) - 1 = n /\ n + 1 # 0
      /\ \A t \in 1..n + 1 : t \in 1..n \/ t = n + 1
      /\ \A t \in 1..n : (t \in 1..n - 1 /\ t + 1 \in 1..n) \/ t = n
  BY <1>1
<1>6. p[n] \in 1..Len(meant) /\ j \in 1..Len(meant)
  BY <1>1 DEF IsBase
<1>7. n + Rank(meant, j) <= MaxObjects
  <2>1. Rank(meant, j) < Rank(meant, p[n]) /\ Rank(meant, j) \in Nat /\ Rank(meant, p[n]) = p[n]
    BY <1>6, RanksFall DEF Ready, Meant
  <2>2. Len(meant) \in Nat /\ MaxObjects \in Nat
    BY StreamAssumption, Lengths DEF Ready, Meant, AllMeant
  <2>3. p[n] \in Nat
    BY <1>6, <2>2
  <2> HIDE DEF n
  <2> QED
    BY <1>1, <2>1, <2>2, <2>3
<1> HIDE DEF n, q, v
<1>8. \A t \in 1..n : /\ ~ NonDelta(Type(meant, q[t])) /\ Offset(meant, q[t]) < Len(file)
                      /\ IsBase(meant, ids, Known, q[t], q[t + 1])
  <2> TAKE t \in 1..n
  <2>1. CASE t = n
    BY <1>2, <2>1, <1>1 DEF n
  <2>2. CASE t # n
    <3>1. t \in 1..n - 1 /\ t + 1 \in 1..n
      BY <1>5, <2>2
    <3> QED
      BY <1>1, <1>2, <3>1
  <2> QED
    BY <2>1, <2>2
<1>9. \A t \in 1..n : v.stack[t] = Offset(meant, q[t]) + 1
  <2> TAKE t \in 1..n
  <2>1. CASE t = n
    BY <1>1, <1>2, <1>3, <1>5, <2>1
  <2>2. CASE t # n
    <3>1. t \in 1..n - 1
      BY <1>5, <2>2
    <3> QED
      BY <1>1, <1>2, <1>3, <3>1
  <2> QED
    BY <2>1, <2>2
<1>10. \A t \in 1..n + 1 : q[t] \in 1..Len(meant)
  BY <1>1, <1>2, <1>5, <1>6
<1>11. Chain(v, q)
  BY <1>2, <1>3, <1>4, <1>5, <1>7, <1>8, <1>9, <1>10 DEF Chain
<1> QED
  BY <1>2, <1>11 DEF v, q, n

LEMMA OneDeeper ==
    ASSUME Ready, NEW n \in Nat, NEW w, NEW p, Walked(w, n, p)
    PROVE  \E q : Walked(Deeper(w), n + 1, q) /\ q[1] = p[1]
<1> DEFINE i == p[Len(p)]
           hdr == readObjectHeader(w.at)
           place == FindID(index, hdr.base)
<1>1. /\ Chain(w, p) /\ Len(p) \in Nat /\ Len(p) # 0 /\ i \in 1..Len(meant)
      /\ IsSequence(p) /\ w.at = Offset(meant, i) /\ 1 \in 1..Len(p)
      /\ w = [at |-> w.at, stack |-> w.stack, state |-> w.state]
  BY Lengths DEF Walked, Chain
<1>2. CASE w.state # "walking"
  <2>1. Deeper(w) = w
    BY <1>2 DEF Deeper
  <2>2. Walked(w, n + 1, p)
    BY <1>2 DEF Walked
  <2> QED
    BY <2>1, <2>2
<1>3. CASE w.state = "walking"
  <2> HIDE DEF i
  <2>1. /\ HasHeader(w.at) <=> Offset(meant, i) < Len(file)
        /\ HasHeader(w.at) => hdr = meant[i].hdr
    BY <1>1, HeaderThere
  <2>2. Len(p) = n + 1
    BY <1>3 DEF Walked
  <2>3. ASSUME NEW s, s # "walking",
               Deeper(w) = [at |-> w.at, stack |-> w.stack, state |-> s],
               Stops([at |-> w.at, stack |-> w.stack, state |-> s], i)
        PROVE  \E q : Walked(Deeper(w), n + 1, q) /\ q[1] = p[1]
    <3> DEFINE v == [at |-> w.at, stack |-> w.stack, state |-> s]
    <3>1. v.at = w.at /\ v.stack = w.stack /\ v.state = s
          /\ v = [at |-> v.at, stack |-> v.stack, state |-> v.state]
      OBVIOUS
    <3> HIDE DEF v
    <3>2. Chain(v, p)
      BY <1>1, <3>1 DEF Chain
    <3>3. Walked(v, n + 1, p)
      BY <2>3, <3>1, <3>2 DEF Walked, v, i
    <3> QED
      BY <2>3, <3>3 DEF v
  <2>4. ASSUME HasHeader(w.at), ~ NonDelta(Type(meant, i)), NEW at, NEW j,
               IsBase(meant, ids, Known, i, j), Offset(meant, j) = at,
               Deeper(w) = [at |-> at, stack |-> Append(w.stack, w.at + 1), state |-> w.state]
        PROVE  \E q : Walked(Deeper(w), n + 1, q) /\ q[1] = p[1]
    <3>1. Chain(Deeper(w), Append(p, j)) /\ Len(Append(p, j)) = (n + 1) + 1
      BY <1>1, <2>1, <2>2, <2>4, ChainGoesOn DEF i
    <3>2. Append(p, j)[1] = p[1]
      BY <1>1, AppendAt
    <3>3. Deeper(w).state = "walking"
      BY <1>3, <2>4
    <3>4. Walked(Deeper(w), n + 1, Append(p, j))
      BY <3>1, <3>3 DEF Walked
    <3> QED
      BY <3>2, <3>4
  <2> DEFINE next == [w EXCEPT !.stack = Append(@, w.at + 1)]
  <2>5. ASSUME NEW at PROVE [next EXCEPT !.at = at]
                              = [at |-> at, stack |-> Append(w.stack, w.at + 1), state |-> w.state]
    <3>1. PICK a, s, t : w = [at |-> a, stack |-> s, state |-> t]
      BY <1>1
    <3>2. w.at = a /\ w.stack = s /\ w.state = t
      BY <3>1
    <3> DEFINE y == Append(w.stack, w.at + 1)
    <3>3. next = [w EXCEPT !.stack = y]
      OBVIOUS
    <3> HIDE DEF next, y
    <3>4. next = [at |-> a, stack |-> y, state |-> t]
      BY <3>1, <3>3
    <3>5. [next EXCEPT !.at = at] = [at |-> at, stack |-> y, state |-> t]
      BY <3>4
    <3> QED
      BY <3>2, <3>5 DEF y
  <2>6. ASSUME NEW s PROVE [w EXCEPT !.state = s] = [at |-> w.at, stack |-> w.stack, state |-> s]
    BY <1>1
  <2>7. CASE ~ HasHeader(w.at)
    <3> DEFINE s == IF w.stack = <<>> THEN "error" ELSE "nil dereference"
    <3>1. Deeper(w) = [w EXCEPT !.state = s]
      BY <1>3, <2>7 DEF Deeper
    <3>2. s # "walking"
      OBVIOUS
    <3>3. Stops([at |-> w.at, stack |-> w.stack, state |-> s], i)
      BY <2>1, <2>7 DEF Stops
    <3> HIDE DEF s
    <3> QED
      BY <2>3, <2>6, <3>1, <3>2, <3>3
  <2>8. CASE HasHeader(w.at)
    <3>1. hdr.type = Type(meant, i) /\ hdr = meant[i].hdr /\ Offset(meant, i) < Len(file)
      BY <2>1, <2>8 DEF Type
    <3>2. CASE NonDelta(hdr.type)
      <4>1. Deeper(w) = [w EXCEPT !.state = "found"]
        BY <1>3, <2>8, <3>2 DEF Deeper, NonDelta
      <4>2. Stops([at |-> w.at, stack |-> w.stack, state |-> "found"], i)
        BY <3>1, <3>2 DEF Stops
      <4> QED
        BY <2>3, <2>6, <4>1, <4>2
    <3>3. CASE hdr.type = "OffsetDelta"
      <4>1. ~ NonDelta(hdr.type)
        BY <3>3 DEF NonDelta
      <4>2. Deeper(w) = [next EXCEPT !.at = hdr.base]
        BY <1>3, <2>8, <3>3, <4>1 DEF Deeper
      <4>3. PICK j : IsBase(meant, ids, Known, i, j) /\ Offset(meant, j) = hdr.base
        BY <1>1, <3>1, <3>3, <4>1, BaseFollowed
      <4> HIDE DEF next, hdr
      <4> QED
        BY <2>4, <2>5, <2>8, <3>1, <4>1, <4>2, <4>3
    <3>4. CASE ~ NonDelta(hdr.type) /\ hdr.type # "OffsetDelta"
      <4>1. CASE place = -1
        <5>1. Deeper(w) = [w EXCEPT !.state = "error"]
          BY <1>3, <2>8, <3>4, <4>1 DEF Deeper
        <5>2. NoBase(i)
          BY <1>1, <3>1, <3>4, <4>1, BaseFollowed
        <5>3. Stops([at |-> w.at, stack |-> w.stack, state |-> "error"], i)
          BY <5>2 DEF Stops
        <5> QED
          BY <2>3, <2>6, <5>1, <5>3
      <4>2. CASE place # -1
        <5>1. Deeper(w) = [next EXCEPT !.at = index.Offsets[place]]
          BY <1>3, <2>8, <3>4, <4>2 DEF Deeper
        <5>2. PICK j : IsBase(meant, ids, Known, i, j) /\ Offset(meant, j) = index.Offsets[place]
          BY <1>1, <3>1, <3>4, <4>2, BaseFollowed
        <5> HIDE DEF next, hdr, place
        <5> QED
          BY <2>4, <2>5, <2>8, <3>1, <3>4, <5>1, <5>2
      <4> QED
        BY <4>1, <4>2
    <3> QED
      BY <3>2, <3>3, <3>4
  <2> QED
    BY <2>7, <2>8
<1> QED
  BY <1>2, <1>3

(* Every walk ends, since the ranks of what it comes to fall.              *)
LEMMA WalkEnds ==
    ASSUME Ready, NEW no \in 1..Len(meant)
    PROVE  LET w == Walk(no)
           IN  \E p : Chain(w, p) /\ p[1] = no /\ w.state # "walking" /\ Stops(w, p[Len(p)])
<1> DEFINE start == [at |-> Offset(meant, no), stack |-> <<>>, state |-> "walking"]
           last == MaxObjects + 1
           Is(f, m) == \A n \in 0..m : f[n] = IF n = 0 THEN start ELSE Deeper(f[n - 1])
           S == {m \in Nat : \E f : Is(f, m)}
<1>1. last \in Nat /\ last \in 0..last /\ MaxObjects \in Nat /\ Len(meant) \in Nat
      /\ Len(meant) <= MaxObjects
  BY StreamAssumption, Lengths DEF Ready, Meant, AllMeant
<1> HIDE DEF start
<1>2. 0 \in S
  <2> DEFINE f == [n \in {0} |-> start]
  <2>1. Is(f, 0)
    OBVIOUS
  <2> HIDE DEF f
  <2> QED
    BY <2>1
<1>3. ASSUME NEW m \in 0..last - 1, m \in S PROVE m + 1 \in S
  <2>1. PICK f : Is(f, m)
    BY <1>3
  <2> DEFINE g == [n \in 0..m + 1 |-> IF n = m + 1 THEN Deeper(f[m]) ELSE f[n]]
  <2>2. ASSUME NEW n \in 0..m + 1 PROVE g[n] = IF n = 0 THEN start ELSE Deeper(g[n - 1])
    <3>1. m \in Nat /\ m + 1 # 0 /\ (m + 1) - 1 = m /\ m \in 0..m + 1 /\ m # m + 1
      BY <1>1
    <3>2. CASE n = m + 1
      BY <3>1, <3>2
    <3>3. CASE n # m + 1
      <4>1. n \in 0..m /\ (n # 0 => n - 1 \in 0..m + 1 /\ n - 1 # m + 1)
        BY <3>1, <3>3
      <4>2. g[n] = f[n] /\ (n # 0 => g[n - 1] = f[n - 1])
        BY <3>3, <4>1
      <4> HIDE DEF g
      <4> QED
        BY <2>1, <4>1, <4>2
    <3> QED
      BY <3>2, <3>3
  <2> HIDE DEF g
  <2>3. Is(g, m + 1)
    BY <2>2
  <2>4. m + 1 \in Nat
    BY <1>1
  <2> HIDE DEF Is
  <2> QED
    BY <2>3, <2>4
<1>4. PICK f : Is(f, last)
  <2>1. \A m \in 0..last : m \in S
    <3> HIDE DEF S, last
    <3> QED
      BY <1>1, <1>2, <1>3, CountUp
  <2> QED
    BY <1>1, <2>1
<1> DEFINE g == [n \in 0..last |-> f[n]]
           IsRun(h) == h = [n \in 0..last |-> IF n = 0 THEN start ELSE Deeper(h[n - 1])]
           walk == CHOOSE h : IsRun(h)
<1>5. IsRun(g)
  <2>1. ASSUME NEW n \in 0..last, n # 0 PROVE n - 1 \in 0..last
    BY <1>1, <2>1
  <2> HIDE DEF last
  <2>2. \A n \in 0..last : g[n] = IF n = 0 THEN start ELSE Deeper(g[n - 1])
    BY <1>4, <2>1
  <2>3. g = [n \in 0..last |-> g[n]]
    OBVIOUS
  <2> HIDE DEF g
  <2> QED
    BY <2>2, <2>3
<1>6. IsRun(walk)
  <2> HIDE DEF g, IsRun
  <2> QED
    BY <1>5
<1>7. Walk(no) = walk[last]
  BY DEF Walk, walkDeltaChain, start, Offset
<1> HIDE DEF walk, g
<1> DEFINE T == {n \in Nat : \E p : Walked(walk[n], n, p) /\ p[1] = no}
<1>8. 0 \in T
  <2>1. walk[0] = start
    BY <1>1, <1>6
  <2>2. IsSequence(<<no>>) /\ Len(<<no>>) = 1 /\ <<no>>[1] = no
    BY Singleton
  <2>3. /\ start.at = Offset(meant, no) /\ start.stack = <<>> /\ start.state = "walking"
        /\ start = [at |-> start.at, stack |-> start.stack, state |-> start.state]
    BY DEF start
  <2>4. Rank(meant, no) <= MaxObjects
    BY <1>1 DEF Rank
  <2>5. /\ 1 - 1 = 0 /\ \A t \in 1..0 : FALSE
        /\ \A t \in 1..1 : t = 1
        /\ 0 + Rank(meant, no) = Rank(meant, no)
    BY <1>1 DEF Rank
  <2> DEFINE p == <<no>>
  <2>6. IsSequence(p) /\ Len(p) = 1 /\ p[1] = no
    BY <2>2
  <2> HIDE DEF p
  <2>7. Chain(start, p)
    BY <2>3, <2>4, <2>5, <2>6, EmptySequence DEF Chain
  <2>8. Walked(start, 0, p)
    BY <2>3, <2>6, <2>7 DEF Walked
  <2> QED
    BY <2>1, <2>6, <2>8
<1>9. ASSUME NEW m \in 0..last - 1, m \in T PROVE m + 1 \in T
  <2>1. m + 1 \in 0..last /\ m + 1 # 0 /\ (m + 1) - 1 = m /\ m \in Nat /\ m + 1 \in Nat
    BY <1>1
  <2>2. walk[m + 1] = Deeper(walk[m])
    <3> HIDE DEF last
    <3>1. walk[m + 1] = Deeper(walk[(m + 1) - 1])
      BY <1>6, <2>1
    <3> QED
      BY <2>1, <3>1
  <2>3. PICK p : Walked(walk[m], m, p) /\ p[1] = no
    BY <1>9
  <2>4. \E q : Walked(walk[m + 1], m + 1, q) /\ q[1] = no
    BY <2>1, <2>2, <2>3, OneDeeper
  <2> QED
    BY <2>1, <2>4
<1>10. last \in T
  <2>1. \A m \in 0..last : m \in T
    <3> HIDE DEF T, last
    <3> QED
      BY <1>1, <1>8, <1>9, CountUp
  <2> QED
    BY <1>1, <2>1
<1>11. PICK p : Walked(Walk(no), last, p) /\ p[1] = no
  BY <1>7, <1>10
<1>12. Chain(Walk(no), p)
  BY <1>11 DEF Walked
<1>13. Walk(no).state # "walking"
  <2>1. SUFFICES ASSUME Walk(no).state = "walking" PROVE FALSE
    OBVIOUS
  <2>2. Len(p) = last + 1
    BY <1>11, <2>1 DEF Walked
  <2>3. Len(p) - 1 + Rank(meant, p[Len(p)]) <= MaxObjects /\ p[Len(p)] \in 1..Len(meant)
    <3>1. Len(p) \in 1..Len(p)
      BY <1>1, <2>2
    <3> QED
      BY <1>12, <3>1 DEF Chain
  <2>4. Rank(meant, p[Len(p)]) \in Nat
    BY <1>1, <2>3 DEF Rank
  <2> QED
    BY <1>1, <2>2, <2>3, <2>4
<1> QED
  BY <1>11, <1>12, <1>13 DEF Walked

-----------------------------------------------------------------------------
(* Up the chain again.                                                     *)

LEMMA StreamThere ==
    ASSUME Ready, NEW i \in 1..Len(meant), Offset(meant, i) < Len(file)
    PROVE  LET at == Offset(meant, i) + 1
           IN  /\ Inflates(at) <=> After(meant, i) <= Len(file)
               /\ Inflates(at) => Inflate(at) = Units(meant, i)
               /\ IsPrefix(Inflate(at), Units(meant, i))
<1> DEFINE o == Offset(meant, i)
           at == o + 1
           there == EndOfData(meant, i) - (o + 1)
           t == Inflate(at)
           d == Units(meant, i)
<1>1. /\ AllMeant(meant) /\ IsSequence(file) /\ Came(meant, file, i)
      /\ o \in Nat /\ Size(meant, i) \in Nat /\ Len(file) \in Nat
      /\ IsSequence(d) /\ Len(d) = Size(meant, i)
  BY Place, Lengths DEF Ready, Meant, RandomFile
<1>2. 0 \in 0..Size(meant, i) /\ o + 1 + 0 <= Len(file) /\ o + 1 + 0 = at
  BY <1>1
<1>3. /\ Inflates(at) <=> After(meant, i) <= Len(file)
      /\ there \in Nat /\ 0 + there <= Size(meant, i)
      /\ After(meant, i) <= Len(file) => 0 + there = Size(meant, i)
      /\ IsSequence(t) /\ Len(t) = there
      /\ \A j \in 1..there : t[j] = d[0 + j]
  <2> DEFINE Said(a) == LET n == EndOfData(meant, i) - a
                        IN  /\ Inflates(a) <=> After(meant, i) <= Len(file)
                            /\ n \in Nat /\ 0 + n <= Size(meant, i)
                            /\ After(meant, i) <= Len(file) => 0 + n = Size(meant, i)
                            /\ IsSequence(Inflate(a)) /\ Len(Inflate(a)) = n
                            /\ \A j \in 1..n : Inflate(a)[j] = d[0 + j]
  <2>1. Said(o + 1 + 0)
    BY <1>1, <1>2, InflateIs
  <2> HIDE DEF Said
  <2>2. Said(at)
    BY <1>2, <2>1, Zenon
  <2> QED
    BY <2>2 DEF Said
<1> HIDE DEF o, at, t, d, there
<1>4. \A j \in 1..there : t[j] = d[j]
  BY <1>3
<1>5. DataSeen(meant, t, i)
  BY <1>3, <1>4 DEF DataSeen, d
<1>6. IsPrefix(t, d)
  BY <1>1, <1>5, PrefixSeen DEF d, Units
<1>7. ASSUME After(meant, i) <= Len(file) PROVE t = d
  BY <1>1, <1>3, <1>4, <1>7, SameSequence
<1> QED
  BY <1>3, <1>6, <1>7 DEF o, at, t, d

(* r is what an application left of object i.                              *)
Rebuilt(r, i, type) ==
    /\ r.ok \in BOOLEAN
    /\ r.ok => /\ IsSequence(r.base)
               /\ Content[i] = [ok |-> TRUE, type |-> type, data |-> r.base]
    /\ WholeData(meant, file) /\ ~ r.ok => ~ Content[i].ok

LEMMA OneApplied ==
    ASSUME Ready, NEW r, NEW j, NEW type, Rebuilt(r, j, type),
           NEW i \in 1..Len(meant), ~ NonDelta(Type(meant, i)), Offset(meant, i) < Len(file),
           IsBase(meant, ids, Known, i, j),
           NonDelta(Type(meant, j)) => Size(meant, j) <= MaxDeltaObjectSize
    PROVE  LET s == ApplyOne(r, Offset(meant, i) + 1)
           IN  /\ Rebuilt(s, i, type)
               /\ s.ok => DeltaObjectSize(Units(meant, i)) = Len(s.base)
<1> DEFINE at == Offset(meant, i) + 1
           s == ApplyOne(r, at)
           delta == Units(meant, i)
           b == Content[j]
           d == ReadDelta(r.base, Inflate(at))
<1>1. /\ Inflates(at) <=> After(meant, i) <= Len(file)
      /\ Inflates(at) => Inflate(at) = delta
  BY StreamThere
<1>2. Content[i] = OnBase(b, j, delta)
  BY ContentOnBase DEF Ready
<1>3. j \in 1..Len(meant) /\ AllMeant(meant) /\ IsUnits(delta)
  BY DEF IsBase, Ready, Meant, Linked
<1>4. Len(Units(meant, j)) = Size(meant, j)
  BY <1>3, Place
<1> HIDE DEF delta, b
<1>5. CASE ~ r.ok
  <2>1. s = r
    BY <1>5 DEF ApplyOne
  <2>2. WholeData(meant, file) => ~ b.ok
    BY <1>5 DEF Rebuilt, b
  <2>3. ~ b.ok => ~ Content[i].ok
    BY <1>2 DEF OnBase, NoContent
  <2> HIDE DEF s
  <2> QED
    BY <1>5, <2>1, <2>2, <2>3 DEF Rebuilt, s, at
<1>6. CASE r.ok
  <2>1. IsSequence(r.base) /\ b = [ok |-> TRUE, type |-> type, data |-> r.base]
    BY <1>6 DEF Rebuilt, b
  <2>2. b.ok /\ b.data = r.base /\ b.type = type
    BY <2>1
  <2>3. ~(NonDelta(meant[j].hdr.type) /\ Len(b.data) > MaxDeltaObjectSize)
    <3>1. SUFFICES ASSUME NonDelta(Type(meant, j)) PROVE ~(Len(b.data) > MaxDeltaObjectSize)
      BY DEF Type
    <3>2. b.data = Units(meant, j)
      <4>1. b = [ok |-> TRUE, type |-> Type(meant, j), data |-> Units(meant, j)]
        BY <1>3, <3>1, ContentPlain DEF b, Ready
      <4> QED
        BY <4>1
    <3>3. Size(meant, j) \in Nat /\ MaxDeltaObjectSize \in Nat
      BY <1>3, Place, UndeltifyAssumption
    <3> QED
      BY <1>4, <3>1, <3>2, <3>3
  <2>4. Content[i] = IF ~ Applies(r.base, delta) THEN NoContent
                     ELSE [ok |-> TRUE, type |-> type, data |-> FlattenSeq(Pieces(r.base, delta))]
    BY <1>2, <2>2, <2>3 DEF OnBase
  <2>5. CASE ~ Inflates(at)
    <3>1. ~ s.ok
      BY <1>6, <2>5 DEF ApplyOne
    <3>2. s.ok \in BOOLEAN
      BY <1>6, <2>5 DEF ApplyOne
    <3>3. ~ WholeData(meant, file)
      BY <1>1, <2>5 DEF WholeData
    <3> HIDE DEF s
    <3> QED
      BY <3>1, <3>2, <3>3 DEF Rebuilt, s, at
  <2>6. CASE Inflates(at)
    <3>1. d = ReadDelta(r.base, delta)
      BY <1>1, <2>6
    <3> HIDE DEF d
    <3>2. /\ d = [ok |-> d.ok, out |-> d.out] /\ d.ok \in BOOLEAN
          /\ d.ok <=> Applies(r.base, delta)
          /\ d.ok => /\ IsSequence(d.out)
                     /\ d.out = FlattenSeq(Pieces(r.base, delta))
                     /\ DeltaObjectSize(delta) = Len(d.out)
      BY <1>3, <2>1, <3>1, DeltasApply
    <3>3. s = IF d.ok THEN [ok |-> TRUE, base |-> d.out, target |-> r.base]
              ELSE [ok |-> FALSE, base |-> r.base, target |-> d.out]
      BY <1>6, <2>6 DEF ApplyOne, Refill, d
    <3> HIDE DEF s, at
    <3>4. CASE d.ok
      <4>1. s.ok = TRUE /\ s.base = d.out
        BY <3>3, <3>4
      <4>2. Content[i] = [ok |-> TRUE, type |-> type, data |-> d.out]
        BY <2>4, <3>2, <3>4
      <4> QED
        BY <3>2, <3>4, <4>1, <4>2 DEF Rebuilt, s, at, delta
    <3>5. CASE ~ d.ok
      <4>1. s.ok = FALSE
        BY <3>3, <3>5
      <4>2. Content[i] = NoContent
        BY <2>4, <3>2, <3>5
      <4>3. ~ Content[i].ok
        BY <4>2 DEF NoContent
      <4>4. Rebuilt(s, i, type)
        BY <4>1, <4>3 DEF Rebuilt
      <4> QED
        BY <4>1, <4>4 DEF s, at
    <3> QED
      BY <3>4, <3>5
  <2> QED
    BY <2>5, <2>6
<1> QED
  BY <1>5, <1>6

(* What rests on an object without content has none.                       *)
LEMMA NoContentUp ==
    ASSUME Ready, NEW w, NEW p, Chain(w, p), NEW s \in 1..Len(p), ~ Content[p[s]].ok
    PROVE  ~ Content[p[1]].ok
<1> DEFINE S == {t \in Nat : t < s => ~ Content[p[s - t]].ok}
<1>1. /\ Len(p) \in Nat /\ s \in Nat /\ s - 1 \in Nat /\ s # 0 /\ s - 0 = s /\ s - (s - 1) = 1
      /\ s - 1 \in 0..s - 1 /\ s - 1 < s
  BY Lengths DEF Chain
<1>2. 0 \in S
  BY <1>1
<1>3. ASSUME NEW m \in 0..(s - 1) - 1, m \in S PROVE m + 1 \in S
  <2> DEFINE t == s - (m + 1)
  <2>1. m \in Nat /\ m + 1 \in Nat /\ m < s /\ t \in 1..Len(p) - 1 /\ t + 1 = s - m /\ t \in 1..Len(p)
    BY <1>1
  <2>2. ~ Content[p[t + 1]].ok
    BY <1>3, <2>1
  <2> HIDE DEF t
  <2>3. /\ p[t] \in 1..Len(meant) /\ ~ NonDelta(Type(meant, p[t]))
        /\ IsBase(meant, ids, Known, p[t], p[t + 1])
    BY <2>1 DEF Chain
  <2>4. Content[p[t]] = OnBase(Content[p[t + 1]], p[t + 1], Units(meant, p[t]))
    BY <2>3, ContentOnBase DEF Ready
  <2>5. ~ Content[p[t]].ok
    BY <2>2, <2>4 DEF OnBase, NoContent
  <2> QED
    BY <2>1, <2>5 DEF t
<1>4. s - 1 \in S
  <2>1. \A m \in 0..s - 1 : m \in S
    <3> HIDE DEF S
    <3> QED
      BY <1>1, <1>2, <1>3, CountUp
  <2> QED
    BY <1>1, <2>1
<1> QED
  BY <1>1, <1>4

LEMMA AppliedIs ==
    ASSUME NEW base, NEW stack, IsSequence(stack)
    PROVE  \E f : /\ ApplyAll(base, stack) = f[Len(stack)]
                  /\ f[0] = [ok |-> TRUE, base |-> base, target |-> u.target]
                  /\ \A n \in 1..Len(stack) :
                       f[n] = ApplyOne(f[n - 1], stack[Len(stack) - n + 1])
<1> DEFINE k == Len(stack)
           start == [ok |-> TRUE, base |-> base, target |-> u.target]
           OneStep(r, n) == ApplyOne(r, stack[k - n + 1])
           Is(f, m) == \A n \in 0..m : f[n] = IF n = 0 THEN start ELSE OneStep(f[n - 1], n)
           S == {m \in Nat : \E f : Is(f, m)}
<1>1. k \in Nat /\ k \in 0..k
  BY Lengths
<1> HIDE DEF start, k, OneStep
<1>2. 0 \in S
  <2> DEFINE f == [n \in {0} |-> start]
  <2>1. Is(f, 0)
    OBVIOUS
  <2> HIDE DEF f
  <2> QED
    BY <2>1
<1>3. ASSUME NEW m \in 0..k - 1, m \in S PROVE m + 1 \in S
  <2>1. PICK f : Is(f, m)
    BY <1>3
  <2> DEFINE g == [n \in 0..m + 1 |-> IF n = m + 1 THEN OneStep(f[m], n) ELSE f[n]]
  <2>2. ASSUME NEW n \in 0..m + 1 PROVE g[n] = IF n = 0 THEN start ELSE OneStep(g[n - 1], n)
    <3>1. m \in Nat /\ m + 1 # 0 /\ (m + 1) - 1 = m /\ m \in 0..m + 1 /\ m # m + 1
      BY <1>1
    <3>2. CASE n = m + 1
      BY <3>1, <3>2
    <3>3. CASE n # m + 1
      <4>1. n \in 0..m /\ (n # 0 => n - 1 \in 0..m + 1 /\ n - 1 # m + 1)
        BY <3>1, <3>3
      <4>2. g[n] = f[n] /\ (n # 0 => g[n - 1] = f[n - 1])
        BY <3>3, <4>1
      <4> HIDE DEF g
      <4> QED
        BY <2>1, <4>1, <4>2
    <3> QED
      BY <3>2, <3>3
  <2> HIDE DEF g
  <2>3. Is(g, m + 1)
    BY <2>2
  <2>4. m + 1 \in Nat
    BY <1>1
  <2> HIDE DEF Is
  <2> QED
    BY <2>3, <2>4
<1>4. PICK f : Is(f, k)
  <2>1. \A m \in 0..k : m \in S
    <3> HIDE DEF S
    <3> QED
      BY <1>1, <1>2, <1>3, CountUp
  <2> QED
    BY <1>1, <2>1
<1> DEFINE g == [n \in 0..k |-> f[n]]
           IsRun(h) == h = [n \in 0..k |-> IF n = 0 THEN start ELSE OneStep(h[n - 1], n)]
           applied == CHOOSE h : IsRun(h)
<1>5. IsRun(g)
  <2>1. ASSUME NEW n \in 0..k, n # 0 PROVE n - 1 \in 0..k
    BY <1>1, <2>1
  <2>2. \A n \in 0..k : g[n] = IF n = 0 THEN start ELSE OneStep(g[n - 1], n)
    BY <1>4, <2>1
  <2>3. g = [n \in 0..k |-> g[n]]
    OBVIOUS
  <2> HIDE DEF g
  <2> QED
    BY <2>2, <2>3
<1>6. IsRun(applied)
  <2> HIDE DEF g, IsRun
  <2> QED
    BY <1>5
<1>7. ApplyAll(base, stack) = applied[k]
  BY DEF ApplyAll, start, k, OneStep
<1> HIDE DEF applied, g
<1>8. applied[0] = start
  BY <1>1, <1>6
<1>9. ASSUME NEW n \in 1..k PROVE applied[n] = OneStep(applied[n - 1], n)
  <2>1. n \in 0..k /\ n # 0
    BY <1>1
  <2> QED
    BY <1>6, <2>1
<1> QED
  BY <1>7, <1>8, <1>9 DEF start, k, OneStep

LEMMA AllApplied ==
    ASSUME Ready, NEW w, NEW p, Chain(w, p), Len(p) # 1,
           NEW i, i = p[Len(p)], NonDelta(Type(meant, i)), Size(meant, i) <= MaxDeltaObjectSize
    PROVE  LET r == ApplyAll(Units(meant, i), w.stack)
           IN  /\ Rebuilt(r, p[1], Type(meant, i))
               /\ r.ok => DeltaObjectSize(Units(meant, p[1])) = Len(r.base)
<1> DEFINE type == Type(meant, i)
           base == Units(meant, i)
           k == Len(p) - 1
<1>1. /\ Len(p) \in Nat /\ Len(p) # 0 /\ k \in Nat /\ k # 0 /\ k + 1 = Len(p) /\ i \in 1..Len(meant)
      /\ IsSequence(w.stack) /\ Len(w.stack) = k
      /\ \A t \in 1..k + 1 : p[t] \in 1..Len(meant)
      /\ \A t \in 1..k :
           /\ ~ NonDelta(Type(meant, p[t])) /\ Offset(meant, p[t]) < Len(file)
           /\ IsBase(meant, ids, Known, p[t], p[t + 1])
           /\ w.stack[t] = Offset(meant, p[t]) + 1
  <2>1. Len(p) \in Nat /\ Len(p) # 0 /\ Len(p) \in 1..Len(p)
    BY Lengths DEF Chain
  <2> QED
    BY <2>1 DEF Chain
<1>2. PICK f : /\ ApplyAll(base, w.stack) = f[k]
               /\ f[0] = [ok |-> TRUE, base |-> base, target |-> u.target]
               /\ \A n \in 1..k : f[n] = ApplyOne(f[n - 1], w.stack[k - n + 1])
  <2> DEFINE s == w.stack
  <2>1. IsSequence(s) /\ Len(s) = k
    BY <1>1
  <2> HIDE DEF k, base, s
  <2>2. PICK f : /\ ApplyAll(base, s) = f[Len(s)]
                 /\ f[0] = [ok |-> TRUE, base |-> base, target |-> u.target]
                 /\ \A n \in 1..Len(s) : f[n] = ApplyOne(f[n - 1], s[Len(s) - n + 1])
    BY <2>1, AppliedIs
  <2>3. /\ ApplyAll(base, s) = f[k]
        /\ \A n \in 1..k : f[n] = ApplyOne(f[n - 1], s[k - n + 1])
    BY <2>1, <2>2
  <2> QED
    BY <2>2, <2>3 DEF s
<1> HIDE DEF k
<1> DEFINE Good(n) == /\ Rebuilt(f[n], p[k + 1 - n], type)
                      /\ n # 0 /\ f[n].ok =>
                           DeltaObjectSize(Units(meant, p[k + 1 - n])) = Len(f[n].base)
           S == {n \in Nat : Good(n)}
<1>3. 0 \in S
  <2>1. k + 1 - 0 = Len(p)
    BY <1>1
  <2>2. f[0].ok = TRUE /\ f[0].base = base
    BY <1>2
  <2>3. Content[i] = [ok |-> TRUE, type |-> type, data |-> base]
    BY <1>1, ContentPlain DEF Ready
  <2>4. IsSequence(base)
    BY <1>1, Place DEF Ready, Meant
  <2> HIDE DEF type, base
  <2>5. Rebuilt(f[0], i, type)
    BY <2>2, <2>3, <2>4 DEF Rebuilt
  <2> QED
    BY <2>1, <2>5
<1>4. ASSUME NEW m \in 0..k - 1, m \in S PROVE m + 1 \in S
  <2> DEFINE t == k - m
  <2>1. /\ m + 1 \in 1..k /\ (m + 1) - 1 = m /\ k - (m + 1) + 1 = t /\ t \in 1..k /\ t + 1 = k + 1 - m
        /\ k + 1 - (m + 1) = t /\ m + 1 \in Nat /\ m + 1 # 0 /\ t \in 1..k + 1 /\ t + 1 \in 1..k + 1
    BY <1>1
  <2>2. Rebuilt(f[m], p[t + 1], type)
    BY <1>4, <2>1
  <2> HIDE DEF t
  <2>3. f[m + 1] = ApplyOne(f[m], Offset(meant, p[t]) + 1)
    <3>1. f[m + 1] = ApplyOne(f[(m + 1) - 1], w.stack[k - (m + 1) + 1])
      BY <1>2, <2>1
    <3>2. w.stack[t] = Offset(meant, p[t]) + 1
      BY <1>1, <2>1
    <3> QED
      BY <2>1, <3>1, <3>2
  <2>4. NonDelta(Type(meant, p[t + 1])) => Size(meant, p[t + 1]) <= MaxDeltaObjectSize
    <3>1. CASE t = k
      BY <1>1, <3>1
    <3>2. CASE t # k
      <4>1. t + 1 \in 1..k
        BY <1>1, <2>1, <3>2
      <4> QED
        BY <1>1, <4>1
    <3> QED
      BY <3>1, <3>2
  <2>5. /\ Rebuilt(f[m + 1], p[t], type)
        /\ f[m + 1].ok => DeltaObjectSize(Units(meant, p[t])) = Len(f[m + 1].base)
    <3>1. /\ p[t] \in 1..Len(meant) /\ ~ NonDelta(Type(meant, p[t]))
          /\ Offset(meant, p[t]) < Len(file) /\ IsBase(meant, ids, Known, p[t], p[t + 1])
      BY <1>1, <2>1
    <3> QED
      BY <2>2, <2>3, <2>4, <3>1, OneApplied
  <2> QED
    BY <2>1, <2>5
<1>5. Good(k)
  <2>1. \A m \in 0..k : m \in S
    <3> HIDE DEF S
    <3> QED
      BY <1>1, <1>3, <1>4, CountUp
  <2>2. k \in 0..k
    BY <1>1
  <2> HIDE DEF Good
  <2> QED
    BY <2>1, <2>2
<1>6. k + 1 - k = 1
  BY <1>1
<1> QED
  BY <1>1, <1>2, <1>5, <1>6

(* What an answer to a call must be.                                       *)
Right(a) ==
    LET c == Content[a.no]
    IN  /\ file = sent => (a.result = "read" <=> c.ok)
        /\ a.result = "read" =>
             /\ a.data = c.data
             /\ a.prefix = <<c.type, Len(c.data)>>
             /\ ResolveType(a.no) = c.type
             /\ ~ NonDelta(meant[a.no].hdr.type) =>
                  DeltaObjectSize(meant[a.no].data) = Len(c.data)
        /\ a.result = "cut" => IsPrefix(a.data, c.data)
        /\ a.result = "nil dereference" => file # sent

Sent == WholeData(meant, sent)

LEMMA AllOffsetsThere ==
    ASSUME Ready, Sent, file = sent, NEW i \in 1..Len(meant)
    PROVE  WholeData(meant, file) /\ Offset(meant, i) + 1 < Len(file) /\ Offset(meant, i) < Len(file)
<1>1. WholeData(meant, file)
  BY DEF Sent
<1>2. /\ Offset(meant, i) \in Nat /\ Size(meant, i) \in Nat /\ Len(file) \in Nat
      /\ After(meant, i) = Offset(meant, i) + Size(meant, i) + 2
  BY Place, Lengths DEF Ready, Meant, RandomFile
<1>3. After(meant, i) <= Len(file)
  BY <1>1 DEF WholeData
<1> QED
  BY <1>1, <1>2, <1>3

Answer(no, result, prefix, data) == [no |-> no, result |-> result, prefix |-> prefix, data |-> data]

LEMMA FailsRight ==
    ASSUME Ready, Sent, NEW no \in 1..Len(meant), ~ BaseFound(Walk(no))
    PROVE  LET w == Walk(no)
           IN  Right(Answer(no, IF w.state = "found" THEN "error" ELSE w.state, <<>>, <<>>))
<1> DEFINE w == Walk(no)
           result == IF w.state = "found" THEN "error" ELSE w.state
           a == Answer(no, result, <<>>, <<>>)
<1>1. PICK p : Chain(w, p) /\ p[1] = no /\ w.state # "walking" /\ Stops(w, p[Len(p)])
  BY WalkEnds
<1> DEFINE i == p[Len(p)]
<1>2. Len(p) \in 1..Len(p) /\ i \in 1..Len(meant) /\ w.at = Offset(meant, i)
  <2>1. Len(p) \in Nat /\ Len(p) # 0
    BY <1>1, Lengths DEF Chain
  <2>2. Len(p) \in 1..Len(p)
    BY <2>1
  <2> QED
    BY <1>1, <2>2 DEF Chain
<1> HIDE DEF w
<1>3. ~ BaseFound(w)
  BY DEF w
<1>4. result \in {"error", "nil dereference"}
  BY <1>1 DEF Stops
<1>5. ASSUME file = sent PROVE result # "nil dereference" /\ ~ Content[no].ok
  <2>1. Offset(meant, i) + 1 < Len(file) /\ Offset(meant, i) < Len(file)
    BY <1>2, <1>5, AllOffsetsThere
  <2>2. w.state # "found"
    BY <1>2, <1>3, <2>1 DEF BaseFound
  <2>3. w.state = "error" /\ NoBase(i)
    BY <1>1, <2>1, <2>2 DEF Stops
  <2>4. Content[i] = NoContent
    BY <1>2, <2>3, ContentNoBase DEF NoBase, Ready
  <2>5. ~ Content[i].ok
    BY <2>4 DEF NoContent
  <2>6. ~ Content[p[1]].ok
    BY <1>1, <1>2, <2>5, NoContentUp
  <2> QED
    BY <1>1, <2>3, <2>6
<1> HIDE DEF result
<1>6. a.no = no /\ a.result = result
  BY DEF Answer
<1> HIDE DEF a
<1>7. Right(a)
  BY <1>4, <1>5, <1>6 DEF Right
<1> QED
  BY <1>7 DEF a, result, w

(* The root of the chain, when it was found.                               *)
LEMMA RootFound ==
    ASSUME Ready, NEW no \in 1..Len(meant), BaseFound(Walk(no))
    PROVE  LET w == Walk(no)
           IN  \E p, i :
                 /\ Chain(w, p) /\ p[1] = no /\ i = p[Len(p)] /\ i \in 1..Len(meant)
                 /\ Len(p) \in Nat /\ Len(p) # 0
                 /\ w.stack = <<>> <=> Len(p) = 1
                 /\ w.at = Offset(meant, i) /\ Offset(meant, i) < Len(file)
                 /\ NonDelta(Type(meant, i))
                 /\ readObjectHeader(w.at) = meant[i].hdr
                 /\ ResolveType(no) = Type(meant, i)
                 /\ Content[i] = [ok |-> TRUE, type |-> Type(meant, i), data |-> Units(meant, i)]
<1> DEFINE w == Walk(no)
<1>1. PICK p : Chain(w, p) /\ p[1] = no /\ w.state # "walking" /\ Stops(w, p[Len(p)])
  BY WalkEnds
<1> DEFINE i == p[Len(p)]
<1>2. ResolveType(no) = readObjectHeader(w.at).type
  BY DEF ResolveType
<1>3. w.state = "found"
  BY DEF BaseFound
<1> HIDE DEF w
<1>4. /\ Len(p) \in Nat /\ Len(p) # 0 /\ Len(p) \in 1..Len(p) /\ i \in 1..Len(meant)
      /\ w.at = Offset(meant, i) /\ IsSequence(w.stack) /\ Len(w.stack) = Len(p) - 1
  <2>1. Len(p) \in Nat /\ Len(p) # 0
    BY <1>1, Lengths DEF Chain
  <2>2. Len(p) \in 1..Len(p)
    BY <2>1
  <2> QED
    BY <1>1, <2>1, <2>2 DEF Chain
<1>5. w.stack = <<>> <=> Len(p) = 1
  <2>1. w.stack = <<>> => Len(w.stack) = 0
    BY EmptySequence
  <2>2. Len(w.stack) = 0 => w.stack = <<>>
    BY <1>4, NoneLeft
  <2>3. Len(w.stack) = 0 <=> Len(p) = 1
    BY <1>4
  <2> QED
    BY <2>1, <2>2, <2>3
<1> HIDE DEF i
<1>6. Offset(meant, i) < Len(file) /\ NonDelta(Type(meant, i))
  BY <1>1, <1>3 DEF Stops, i
<1>7. readObjectHeader(w.at) = meant[i].hdr
  BY <1>4, <1>6, HeaderThere
<1>8. ResolveType(no) = Type(meant, i)
  BY <1>2, <1>7 DEF Type
<1>9. Content[i] = [ok |-> TRUE, type |-> Type(meant, i), data |-> Units(meant, i)]
  BY <1>4, <1>6, ContentPlain DEF Ready
<1>10. i = p[Len(p)]
  BY DEF i
<1>11. p[1] = no
  BY <1>1
<1>12. Chain(w, p)
  BY <1>1
<1> QED
  BY <1>4, <1>5, <1>6, <1>7, <1>8, <1>9, <1>10, <1>11, <1>12 DEF w

LEMMA PlainRight ==
    ASSUME Ready, Sent, NEW no \in 1..Len(meant), BaseFound(Walk(no)), Walk(no).stack = <<>>
    PROVE  LET at  == Walk(no).at
               hdr == readObjectHeader(at)
           IN  Right(Answer(no, IF Inflates(at + 1) THEN "read" ELSE "cut",
                            <<hdr.type, hdr.size>>, Inflate(at + 1)))
<1> DEFINE w == Walk(no)
           hdr == readObjectHeader(w.at)
           result == IF Inflates(w.at + 1) THEN "read" ELSE "cut"
           a == Answer(no, result, <<hdr.type, hdr.size>>, Inflate(w.at + 1))
<1>1. /\ w.at = Offset(meant, no) /\ Offset(meant, no) < Len(file)
      /\ NonDelta(Type(meant, no)) /\ hdr = meant[no].hdr /\ ResolveType(no) = Type(meant, no)
      /\ Content[no] = [ok |-> TRUE, type |-> Type(meant, no), data |-> Units(meant, no)]
  <2>1. PICK p, i :
          /\ p[1] = no /\ i = p[Len(p)] /\ (w.stack = <<>> <=> Len(p) = 1)
          /\ w.at = Offset(meant, i) /\ Offset(meant, i) < Len(file)
          /\ NonDelta(Type(meant, i))
          /\ readObjectHeader(w.at) = meant[i].hdr
          /\ ResolveType(no) = Type(meant, i)
          /\ Content[i] = [ok |-> TRUE, type |-> Type(meant, i), data |-> Units(meant, i)]
    BY RootFound
  <2>2. Len(p) = 1
    BY <2>1
  <2>3. i = no
    BY <2>1, <2>2
  <2> HIDE DEF w
  <2> QED
    BY <2>1, <2>3
<1>2. /\ Inflates(w.at + 1) <=> After(meant, no) <= Len(file)
      /\ Inflates(w.at + 1) => Inflate(w.at + 1) = Units(meant, no)
      /\ IsPrefix(Inflate(w.at + 1), Units(meant, no))
  BY <1>1, StreamThere
<1>3. Len(Units(meant, no)) = Size(meant, no)
  BY Place DEF Ready, Meant
<1>4. hdr.type = Type(meant, no) /\ hdr.size = Size(meant, no)
  BY <1>1 DEF Type, Size
<1>5. file = sent => Inflates(w.at + 1)
  BY <1>2, AllOffsetsThere DEF WholeData
<1>6. /\ Content[no].ok = TRUE /\ Content[no].type = Type(meant, no)
      /\ Content[no].data = Units(meant, no)
  BY <1>1
<1>7. NonDelta(meant[no].hdr.type)
  BY <1>1 DEF Type
<1> HIDE DEF w, hdr
<1>8. result \in {"read", "cut"} /\ (result = "read" <=> Inflates(w.at + 1))
  OBVIOUS
<1> HIDE DEF result
<1>9. /\ a.no = no /\ a.result = result /\ a.prefix = <<hdr.type, hdr.size>>
      /\ a.data = Inflate(w.at + 1)
  BY DEF Answer
<1> HIDE DEF a
<1>10. Right(a)
  BY <1>1, <1>2, <1>3, <1>4, <1>5, <1>6, <1>7, <1>8, <1>9 DEF Right
<1> QED
  BY <1>10 DEF a, result, hdr, w

LEMMA RefusedRight ==
    ASSUME NEW no, file = sent => ~ Content[no].ok
    PROVE  Right(Answer(no, "error", <<>>, <<>>))
<1> DEFINE a == Answer(no, "error", <<>>, <<>>)
<1>1. a.no = no /\ a.result = "error"
  BY DEF Answer
<1> HIDE DEF a
<1>2. Right(a)
  BY <1>1 DEF Right
<1> QED
  BY <1>2 DEF a

LEMMA DeltaRight ==
    ASSUME Ready, Sent, NEW no \in 1..Len(meant), BaseFound(Walk(no)), Walk(no).stack # <<>>
    PROVE  LET w   == Walk(no)
               hdr == readObjectHeader(w.at)
               r   == ApplyAll(Refill(u.base, Inflate(w.at + 1)), w.stack)
           IN  /\ hdr.size > MaxDeltaObjectSize => Right(Answer(no, "error", <<>>, <<>>))
               /\ ~ Inflates(w.at + 1) => Right(Answer(no, "error", <<>>, <<>>))
               /\ hdr.size <= MaxDeltaObjectSize /\ Inflates(w.at + 1) =>
                    Right(IF r.ok THEN Answer(no, "read", <<hdr.type, Len(r.base)>>, r.base)
                                  ELSE Answer(no, "error", <<>>, <<>>))
<1> DEFINE w == Walk(no)
           hdr == readObjectHeader(w.at)
           r == ApplyAll(Refill(u.base, Inflate(w.at + 1)), w.stack)
<1>1. PICK p, i :
        /\ Chain(w, p) /\ p[1] = no /\ i = p[Len(p)] /\ i \in 1..Len(meant)
        /\ Len(p) \in Nat /\ Len(p) # 0
        /\ w.stack = <<>> <=> Len(p) = 1
        /\ w.at = Offset(meant, i) /\ Offset(meant, i) < Len(file)
        /\ NonDelta(Type(meant, i))
        /\ readObjectHeader(w.at) = meant[i].hdr
        /\ ResolveType(no) = Type(meant, i)
        /\ Content[i] = [ok |-> TRUE, type |-> Type(meant, i), data |-> Units(meant, i)]
  BY RootFound
<1>2. w.stack # <<>>
  OBVIOUS
<1> HIDE DEF w
<1>3. Len(p) # 1 /\ hdr.type = Type(meant, i) /\ hdr.size = Size(meant, i)
  BY <1>1, <1>2 DEF Type, Size
<1>4. /\ Inflates(w.at + 1) <=> After(meant, i) <= Len(file)
      /\ Inflates(w.at + 1) => Inflate(w.at + 1) = Units(meant, i)
  BY <1>1, StreamThere
<1> HIDE DEF hdr
<1>5. ASSUME hdr.size > MaxDeltaObjectSize PROVE Right(Answer(no, "error", <<>>, <<>>))
  <2> DEFINE t == Len(p) - 1
  <2>1. t \in 1..Len(p) - 1 /\ t \in 1..Len(p) /\ t + 1 = Len(p)
    <3>1. Len(p) \in Nat /\ Len(p) # 0 /\ Len(p) # 1
      BY <1>1, <1>3
    <3> QED
      BY <3>1
  <2> HIDE DEF t
  <2>2. /\ p[t] \in 1..Len(meant) /\ ~ NonDelta(Type(meant, p[t]))
        /\ IsBase(meant, ids, Known, p[t], i)
    BY <1>1, <2>1 DEF Chain
  <2>3. Content[p[t]] = OnBase(Content[i], i, Units(meant, p[t]))
    BY <2>2, ContentOnBase DEF Ready
  <2>4. Content[i].data = Units(meant, i)
    BY <1>1
  <2>5. Len(Units(meant, i)) = Size(meant, i)
    BY <1>1, Place DEF Ready, Meant
  <2>6. Content[p[t]] = NoContent
    BY <1>1, <1>3, <1>5, <2>3, <2>4, <2>5 DEF OnBase, Type
  <2>7. ~ Content[p[t]].ok
    BY <2>6 DEF NoContent
  <2>8. ~ Content[p[1]].ok
    BY <1>1, <2>1, <2>7, NoContentUp
  <2> QED
    BY <1>1, <2>8, RefusedRight
<1>6. ASSUME ~ Inflates(w.at + 1) PROVE Right(Answer(no, "error", <<>>, <<>>))
  <2>1. file # sent
    BY <1>1, <1>4, <1>6, AllOffsetsThere DEF WholeData
  <2> QED
    BY <2>1, RefusedRight
<1>7. ASSUME hdr.size <= MaxDeltaObjectSize, Inflates(w.at + 1)
      PROVE  Right(IF r.ok THEN Answer(no, "read", <<hdr.type, Len(r.base)>>, r.base)
                           ELSE Answer(no, "error", <<>>, <<>>))
  <2> DEFINE q == ApplyAll(Units(meant, i), w.stack)
  <2>1. r = q
    BY <1>4, <1>7 DEF Refill
  <2>2. /\ Rebuilt(q, p[1], Type(meant, i))
        /\ q.ok => DeltaObjectSize(Units(meant, p[1])) = Len(q.base)
    BY <1>1, <1>3, <1>7, AllApplied
  <2> HIDE DEF q, r
  <2>3. /\ r.ok \in BOOLEAN
        /\ r.ok => /\ Content[no] = [ok |-> TRUE, type |-> Type(meant, i), data |-> r.base]
                   /\ DeltaObjectSize(meant[no].data) = Len(r.base)
        /\ WholeData(meant, file) /\ ~ r.ok => ~ Content[no].ok
    BY <1>1, <2>1, <2>2 DEF Rebuilt, Units
  <2>4. CASE ~ r.ok
    <3>1. file = sent => ~ Content[no].ok
      BY <1>1, <2>3, <2>4, AllOffsetsThere
    <3>2. Right(Answer(no, "error", <<>>, <<>>))
      BY <3>1, RefusedRight
    <3> QED
      BY <2>4, <3>2
  <2>5. CASE r.ok
    <3> DEFINE a == Answer(no, "read", <<hdr.type, Len(r.base)>>, r.base)
    <3>1. /\ a.no = no /\ a.result = "read" /\ a.prefix = <<hdr.type, Len(r.base)>>
          /\ a.data = r.base
      BY DEF Answer
    <3> HIDE DEF a
    <3>2. Content[no] = [ok |-> TRUE, type |-> Type(meant, i), data |-> r.base]
          /\ DeltaObjectSize(meant[no].data) = Len(r.base)
      BY <2>3, <2>5
    <3>3. Content[no].ok = TRUE /\ Content[no].type = Type(meant, i) /\ Content[no].data = r.base
      BY <3>2
    <3>4. Right(a)
      BY <1>1, <1>3, <3>1, <3>2, <3>3 DEF Right
    <3> QED
      BY <2>5, <3>4 DEF a
  <2> QED
    BY <2>4, <2>5
<1> HIDE DEF r
<1> QED
  BY <1>5, <1>6, <1>7 DEF r, hdr, w

(* Between calls: the IDs and what the caller said of bases, the file as   *)
(* it came and the index of what was sent, as soon as there are any, and   *)
(* that the last call was answered as it should.                           *)
UndInv ==
    /\ ids \in IDOrders
    /\ Linked(meant, ids)
    /\ phase = "random" => RandomFile(meant, file) /\ Sent
    /\ index # NilIndex => phase = "random" /\ Finds(index, ids, meant)
    /\ calls \in Nat
    /\ calls = 0 => call = NoCall
    /\ calls # 0 => phase = "random"
    /\ UndeltifyExact

LEMMA UndReady ==
    ASSUME PackInv, UndInv, phase = "random"
    PROVE  Ready /\ Sent
  BY OrdersDiffer DEF PackInv, UndInv, Ready, Meant

LEMMA NoCallExact == ASSUME call = NoCall PROVE UndeltifyExact
<1>1. call.result = "none"
  BY DEF NoCall
<1> QED
  BY <1>1 DEF UndeltifyExact

(* While the pack is written or read serially, there are no calls.         *)
LEMMA NoCallsYet ==
    ASSUME UndInv, phase # "random", UNCHANGED <<ids, index, calls, call>>,
           Linked(meant', ids'),
           phase' = "random" => RandomFile(meant', file') /\ WholeData(meant', sent')
    PROVE  UndInv'
<1>1. ids \in IDOrders /\ calls = 0 /\ calls \in Nat /\ call = NoCall /\ index = NilIndex
  BY DEF UndInv
<1>2. call' = NoCall
  BY <1>1
<1>3. UndeltifyExact'
  <2>1. call'.result = "none"
    BY <1>2 DEF NoCall
  <2> QED
    BY <2>1 DEF UndeltifyExact
<1> QED
  BY <1>1, <1>2, <1>3 DEF UndInv, Sent

LEMMA SameContent ==
    ASSUME UNCHANGED <<streamVars, index>>
    PROVE  Content' = Content /\ \A no : ResolveType(no)' = ResolveType(no)
<1>1. meant' = meant /\ ids' = ids /\ file' = file /\ index' = index
  BY DEF streamVars
<1>2. Content' = Content
  BY <1>1 DEF Content, BaseNumber
<1>3. ASSUME NEW no PROVE ResolveType(no)' = ResolveType(no)
  BY <1>1 DEF ResolveType, Walk, walkDeltaChain, Deeper, HasHeader, readObjectHeader
<1> QED
  BY <1>2, <1>3

LEMMA Called ==
    ASSUME UndInv, phase = "random", UNCHANGED <<streamVars, index>>, calls' = calls + 1,
           NEW a, Right(a), call' = a
    PROVE  UndInv'
<1>1. /\ ids' = ids /\ meant' = meant /\ phase' = phase /\ file' = file /\ sent' = sent
      /\ index' = index
  BY DEF streamVars
<1>2. Content' = Content /\ \A no : ResolveType(no)' = ResolveType(no)
  BY SameContent
<1>3. UndeltifyExact'
  BY <1>1, <1>2 DEF UndeltifyExact, Right
<1>4. calls' \in Nat /\ calls' # 0
  BY DEF UndInv
<1> QED
  BY <1>1, <1>3, <1>4 DEF UndInv, Sent

LEMMA CallingIs ==
    ASSUME PackInv, UndInv, NEW no, Calling(no)
    PROVE  /\ phase = "random" /\ Ready /\ Sent /\ no \in 1..Len(meant)
           /\ UNCHANGED <<streamVars, index>> /\ calls' = calls + 1
<1>1. /\ phase = "random" /\ no \in DOMAIN meant
      /\ UNCHANGED <<streamVars, index>> /\ calls' = calls + 1
  BY DEF Calling
<1>2. Ready /\ Sent
  BY <1>1, UndReady
<1>3. DOMAIN meant = 1..Len(meant)
  BY <1>2 DEF Ready, Meant, AllMeant, IsSequence
<1> QED
  BY <1>1, <1>2, <1>3

LEMMA UndeltifyFailsKeeps ==
    ASSUME PackInv, UndInv, NEW no, UndeltifyFails(no)
    PROVE  UndInv'
<1> DEFINE w == Walk(no)
           a == Answer(no, IF w.state = "found" THEN "error" ELSE w.state, <<>>, <<>>)
<1>1. Calling(no) /\ ~ BaseFound(w) /\ call' = a
  BY DEF UndeltifyFails, Returns, Answer
<1>2. /\ phase = "random" /\ Ready /\ Sent /\ no \in 1..Len(meant)
      /\ UNCHANGED <<streamVars, index>> /\ calls' = calls + 1
  BY <1>1, CallingIs
<1>3. Right(a)
  BY <1>1, <1>2, FailsRight
<1> HIDE DEF a
<1> QED
  BY <1>1, <1>2, <1>3, Called

LEMMA UndeltifyPlainKeeps ==
    ASSUME PackInv, UndInv, NEW no, UndeltifyPlain(no)
    PROVE  UndInv'
<1> DEFINE w == Walk(no)
           hdr == readObjectHeader(w.at)
           a == Answer(no, IF Inflates(w.at + 1) THEN "read" ELSE "cut",
                       <<hdr.type, hdr.size>>, Inflate(w.at + 1))
<1>1. Calling(no) /\ BaseFound(w) /\ w.stack = <<>> /\ call' = a
  BY DEF UndeltifyPlain, Returns, Answer
<1>2. /\ phase = "random" /\ Ready /\ Sent /\ no \in 1..Len(meant)
      /\ UNCHANGED <<streamVars, index>> /\ calls' = calls + 1
  BY <1>1, CallingIs
<1>3. Right(a)
  BY <1>1, <1>2, PlainRight
<1> HIDE DEF a
<1> QED
  BY <1>1, <1>2, <1>3, Called

LEMMA UndeltifyDeltaKeeps ==
    ASSUME PackInv, UndInv, NEW no, UndeltifyDelta(no)
    PROVE  UndInv'
<1> DEFINE w == Walk(no)
           hdr == readObjectHeader(w.at)
           r == ApplyAll(Refill(u.base, Inflate(w.at + 1)), w.stack)
           refused == Answer(no, "error", <<>>, <<>>)
           done == Answer(no, "read", <<hdr.type, Len(r.base)>>, r.base)
<1>1. Calling(no) /\ BaseFound(w) /\ w.stack # <<>>
  BY DEF UndeltifyDelta
<1>2. /\ phase = "random" /\ Ready /\ Sent /\ no \in 1..Len(meant)
      /\ UNCHANGED <<streamVars, index>> /\ calls' = calls + 1
  BY <1>1, CallingIs
<1>3. /\ hdr.size > MaxDeltaObjectSize => Right(refused)
      /\ ~ Inflates(w.at + 1) => Right(refused)
      /\ hdr.size <= MaxDeltaObjectSize /\ Inflates(w.at + 1) =>
           Right(IF r.ok THEN done ELSE refused)
  BY <1>1, <1>2, DeltaRight
<1>4. \/ hdr.size > MaxDeltaObjectSize /\ call' = refused
      \/ ~ Inflates(w.at + 1) /\ call' = refused
      \/ /\ hdr.size <= MaxDeltaObjectSize /\ Inflates(w.at + 1)
         /\ call' = IF r.ok THEN done ELSE refused
  <2>1. CASE hdr.size > MaxDeltaObjectSize
    <3>1. ~(hdr.size <= MaxDeltaObjectSize)
      <4>1. hdr.size \in Nat /\ MaxDeltaObjectSize \in Nat
        <5>1. PICK i \in 1..Len(meant) : hdr = meant[i].hdr
          BY <1>1, <1>2, RootFound
        <5>2. Size(meant, i) \in Nat
          BY <1>2, Place DEF Ready, Meant
        <5> QED
          BY <5>1, <5>2, UndeltifyAssumption DEF Size
      <4> QED
        BY <2>1, <4>1
    <3>2. call' = refused
      BY <2>1, <3>1 DEF UndeltifyDelta, Returns, Answer
    <3> QED
      BY <2>1, <3>2
  <2>2. CASE ~(hdr.size > MaxDeltaObjectSize)
    <3>1. hdr.size <= MaxDeltaObjectSize
      <4>1. hdr.size \in Nat /\ MaxDeltaObjectSize \in Nat
        <5>1. PICK i \in 1..Len(meant) : hdr = meant[i].hdr
          BY <1>1, <1>2, RootFound
        <5>2. Size(meant, i) \in Nat
          BY <1>2, Place DEF Ready, Meant
        <5> QED
          BY <5>1, <5>2, UndeltifyAssumption DEF Size
      <4> QED
        BY <2>2, <4>1
    <3>2. CASE ~ Inflates(w.at + 1)
      <4>1. call' = refused
        BY <2>2, <3>1, <3>2 DEF UndeltifyDelta, Returns, Answer
      <4> QED
        BY <3>2, <4>1
    <3>3. CASE Inflates(w.at + 1)
      <4>1. call' = IF r.ok THEN done ELSE refused
        BY <2>2, <3>1, <3>3 DEF UndeltifyDelta, Returns, Answer
      <4> QED
        BY <3>1, <3>3, <4>1
    <3> QED
      BY <3>2, <3>3
  <2> QED
    BY <2>1, <2>2
<1> DEFINE a == IF r.ok THEN done ELSE refused
<1> HIDE DEF refused, a
<1>5. \/ Right(refused) /\ call' = refused
      \/ Right(a) /\ call' = a
  BY <1>3, <1>4 DEF a
<1> QED
  BY <1>2, <1>5, Called

LEMMA RowsAre ==
    ASSUME Meant, ids \in IDOrders
    PROVE  AreRows(Rows)
<1> DEFINE n == Len(meant)
           Row(i) == [id |-> ids[i], offset |-> meant[i].hdr.offset]
           f == [i \in 1..n |-> Row(i)]
<1>1. n \in Nat /\ n <= MaxObjects /\ MaxObjects \in Nat /\ DOMAIN meant = 1..n
  BY StreamAssumption, Lengths DEF Meant, AllMeant, IsSequence
<1>2. Rows = {Row(i) : i \in 1..n}
  BY <1>1 DEF Rows
<1>3. IsFiniteSet(Rows)
  <2>1. f \in Surjection(1..n, Rows)
    BY <1>2 DEF Surjection
  <2>2. IsFiniteSet(1..n)
    BY <1>1, FS_Interval
  <2> HIDE DEF f, Row
  <2> QED
    BY <2>1, <2>2, FS_Surjection
<1>4. ASSUME NEW i \in 1..n PROVE ids[i] \in DOMAIN FirstByte /\ meant[i].hdr.offset \in Nat
  <2>1. i \in 1..MaxObjects
    BY <1>1
  <2>2. Offset(meant, i) \in Nat
    BY Place DEF Meant
  <2> QED
    BY <2>1, <2>2, UndeltifyAssumption DEF Offset
<1>5. ASSUME NEW i \in 1..n, NEW j \in 1..n, ids[i] = ids[j] PROVE i = j
  <2>1. i \in 1..MaxObjects /\ j \in 1..MaxObjects
    BY <1>1
  <2> QED
    BY <1>5, <2>1 DEF Meant, Differ
<1> HIDE DEF n
<1>6. \A r \in Rows : r.id \in DOMAIN FirstByte /\ r.offset \in Nat
  BY <1>2, <1>4
<1>7. ASSUME NEW r \in Rows, NEW q \in Rows, r.id = q.id PROVE r = q
  <2>1. PICK i \in 1..n : r = Row(i)
    BY <1>2
  <2>2. PICK j \in 1..n : q = Row(j)
    BY <1>2
  <2>3. ids[i] = ids[j]
    BY <1>7, <2>1, <2>2
  <2> QED
    BY <1>5, <2>1, <2>2, <2>3
<1> QED
  BY <1>3, <1>6, <1>7 DEF AreRows

(* The index read from the file finds each object and nothing else.        *)
LEMMA IndexFinds ==
    ASSUME Meant, ids \in IDOrders
    PROVE  LET idx == SortedIndex(Rows)
           IN  /\ IsIndex(idx) /\ Finds(idx, ids, meant)
               /\ \A k \in 1..Len(idx.Offsets) :
                    \E i \in 1..Len(meant) : idx.Offsets[k] = Offset(meant, i)
<1> DEFINE idx == SortedIndex(Rows)
           n == Len(idx.ObjectIDs)
<1>1. /\ IsIndex(idx)
      /\ \A r \in Rows : \E k \in 1..n : HasRow(idx, k, r)
      /\ \A k \in 1..n : \E r \in Rows : HasRow(idx, k, r)
  BY RowsAre, SortedIs
<1>2. DOMAIN meant = 1..Len(meant)
  BY DEF Meant, AllMeant, IsSequence
<1> HIDE DEF idx
<1>3. ASSUME NEW k \in 1..n
      PROVE  \E i \in 1..Len(meant) :
               idx.ObjectIDs[k] = ids[i] /\ idx.Offsets[k] = Offset(meant, i)
  <2>1. PICK r \in Rows : HasRow(idx, k, r)
    BY <1>1
  <2>2. PICK i \in 1..Len(meant) : r = [id |-> ids[i], offset |-> meant[i].hdr.offset]
    BY <1>2 DEF Rows
  <2>3. r.id = ids[i] /\ r.offset = Offset(meant, i)
    BY <2>2 DEF Offset
  <2> QED
    BY <2>1, <2>3 DEF HasRow
<1>4. ASSUME NEW i \in 1..Len(meant)
      PROVE  \E k \in 1..n : idx.ObjectIDs[k] = ids[i]
  <2> DEFINE r == [id |-> ids[i], offset |-> meant[i].hdr.offset]
  <2>1. r \in Rows /\ r.id = ids[i]
    BY <1>2 DEF Rows
  <2> HIDE DEF r
  <2> QED
    BY <1>1, <2>1 DEF HasRow
<1>5. n \in Nat /\ n = Len(idx.Offsets)
  BY <1>1 DEF IsIndex
<1>6. ASSUME NEW x \in Nat
      PROVE  LET place == FindID(idx, x)
             IN  /\ (\E j \in 1..Len(meant) : ids[j] = x) => place # -1
                 /\ place # -1 =>
                      \E j \in 1..Len(meant) : ids[j] = x /\ idx.Offsets[place] = Offset(meant, j)
  <2> DEFINE place == FindID(idx, x)
  <2>1. /\ \A k \in 1..n : idx.ObjectIDs[k] = x => place = k
        /\ (\A k \in 1..n : idx.ObjectIDs[k] # x) => place = -1
    BY <1>1, FindIDExact
  <2>2. \A k \in 1..n : k # -1
    BY <1>5
  <2> HIDE DEF place, n
  <2>3. ASSUME NEW j \in 1..Len(meant), ids[j] = x PROVE place # -1
    <3>1. PICK k \in 1..n : idx.ObjectIDs[k] = x
      BY <1>4, <2>3
    <3> QED
      BY <2>1, <2>2, <3>1
  <2>4. ASSUME place # -1
        PROVE  \E j \in 1..Len(meant) : ids[j] = x /\ idx.Offsets[place] = Offset(meant, j)
    <3>1. PICK k \in 1..n : idx.ObjectIDs[k] = x
      BY <2>1, <2>4
    <3>2. place = k
      BY <2>1, <3>1
    <3>3. PICK j \in 1..Len(meant) : idx.ObjectIDs[k] = ids[j] /\ idx.Offsets[k] = Offset(meant, j)
      BY <1>3
    <3> QED
      BY <3>1, <3>2, <3>3
  <2> QED
    BY <2>3, <2>4 DEF place
<1>7. Finds(idx, ids, meant)
  BY <1>6 DEF Finds
<1>8. \A k \in 1..Len(idx.Offsets) : \E i \in 1..Len(meant) : idx.Offsets[k] = Offset(meant, i)
  BY <1>3, <1>5
<1> QED
  BY <1>1, <1>7, <1>8 DEF idx

LEMMA OpenIndexKeeps ==
    ASSUME PackInv, UndInv, NEW version \in Versions, OpenIndex(version)
    PROVE  UndInv'
<1> DEFINE idx == SortedIndex(Rows)
           written == IF version = 1 THEN EncodeV1(idx) ELSE EncodeV2(idx)
<1>1. /\ phase = "random" /\ calls = 0
      /\ version = 1 => Len(sent) <= 2 * Large
      /\ index' = ReadIndex(written)
      /\ UNCHANGED <<streamVars, u, calls, call>>
  BY DEF OpenIndex
<1>2. Ready /\ Sent /\ ids \in IDOrders /\ call = NoCall
  BY <1>1, UndReady DEF UndInv
<1>3. /\ IsIndex(idx) /\ Finds(idx, ids, meant)
      /\ \A k \in 1..Len(idx.Offsets) :
           \E i \in 1..Len(meant) : idx.Offsets[k] = Offset(meant, i)
  BY <1>2, IndexFinds DEF Ready
<1> HIDE DEF idx
<1>4. ASSUME version = 1, NEW k \in 1..Len(idx.Offsets) PROVE idx.Offsets[k] < 2 * Large
  <2>1. PICK i \in 1..Len(meant) : idx.Offsets[k] = Offset(meant, i)
    BY <1>3
  <2>2. /\ Offset(meant, i) \in Nat /\ Size(meant, i) \in Nat
        /\ After(meant, i) = Offset(meant, i) + Size(meant, i) + 2
    BY <1>2, Place DEF Ready, Meant
  <2>3. After(meant, i) <= Len(sent)
    BY <1>2 DEF Sent, WholeData
  <2>4. Large \in Nat /\ Len(sent) <= 2 * Large
    BY <1>1, <1>4, IndexAssumption
  <2> DEFINE most == 2 * Large
  <2>5. most \in Nat /\ Len(sent) <= most
    BY <2>4
  <2> HIDE DEF most
  <2>6. Offset(meant, i) < most
    BY <2>2, <2>3, <2>5
  <2> QED
    BY <2>1, <2>6 DEF most
<1>5. ReadIndex(written) = idx
  BY <1>3, <1>4, IndexReadsBack
<1>6. index' = idx
  BY <1>1, <1>5
<1>7. /\ ids' = ids /\ meant' = meant /\ phase' = phase /\ file' = file /\ sent' = sent
      /\ calls' = calls /\ call' = call
  BY <1>1 DEF streamVars
<1>8. UndeltifyExact'
  <2>1. call'.result = "none"
    BY <1>2, <1>7 DEF NoCall
  <2> QED
    BY <2>1 DEF UndeltifyExact
<1> QED
  BY <1>1, <1>2, <1>3, <1>6, <1>7, <1>8 DEF UndInv, Sent

-----------------------------------------------------------------------------
(* What the caller of the writer means, and what comes of it.              *)

LEMMA LinkedKept ==
    ASSUME NEW m, AllMeant(m), NEW d, Linked(m, d), NEW h, NEW units, IsUnits(units),
           h.type = "OffsetDelta" => \E j \in 1..Len(m) : h.base = Offset(m, j),
           h.type = "RefDelta" => h.base \in Nat /\ h.base # d[Len(m) + 1],
           \A i \in 1..Len(m) : Type(m, i) = "RefDelta" /\ Base(m, i) = d[Len(m) + 1] => NonDelta(h.type)
    PROVE  Linked(Append(m, [hdr |-> h, data |-> units]), d)
<1> DEFINE q == Append(m, [hdr |-> h, data |-> units])
           n == Len(m)
<1>1. /\ n \in Nat /\ Len(q) = n + 1 /\ IsSequence(m)
      /\ (\A i \in 1..n : q[i] = m[i]) /\ q[n + 1] = [hdr |-> h, data |-> units]
  BY AppendAt, Lengths DEF AllMeant
<1> HIDE DEF q
<1>2. /\ \A i \in 1..n : /\ Type(q, i) = Type(m, i) /\ Base(q, i) = Base(m, i)
                         /\ Units(q, i) = Units(m, i) /\ Offset(q, i) = Offset(m, i)
      /\ Type(q, n + 1) = h.type /\ Base(q, n + 1) = h.base /\ Units(q, n + 1) = units
  BY <1>1 DEF Type, Base, Units, Offset
<1>3. ASSUME NEW i \in 1..n PROVE IsUnits(Units(q, i)) /\ BaseSaid(q, d, i)
  <2>1. IsUnits(Units(m, i)) /\ BaseSaid(m, d, i)
    BY DEF Linked
  <2>2. ASSUME Type(m, i) = "OffsetDelta"
        PROVE  \E j \in 1..(i - 1) : Base(q, i) = Offset(q, j)
    <3>1. PICK j \in 1..(i - 1) : Base(m, i) = Offset(m, j)
      BY <2>1, <2>2 DEF BaseSaid
    <3>2. j \in 1..n
      BY <1>1
    <3> QED
      BY <1>2, <3>1, <3>2
  <2>3. ASSUME Type(m, i) = "RefDelta"
        PROVE  /\ Base(m, i) \in Nat /\ Base(m, i) # d[i]
               /\ \A j \in (i + 1)..n + 1 : d[j] = Base(m, i) => NonDelta(Type(q, j))
    <3>1. /\ Base(m, i) \in Nat /\ Base(m, i) # d[i]
          /\ \A j \in (i + 1)..n : d[j] = Base(m, i) => NonDelta(Type(m, j))
      BY <2>1, <2>3 DEF BaseSaid
    <3>2. ASSUME NEW j \in (i + 1)..n + 1, d[j] = Base(m, i) PROVE NonDelta(Type(q, j))
      <4>1. CASE j = n + 1
        BY <1>2, <2>3, <3>2, <4>1
      <4>2. CASE j # n + 1
        <5>1. j \in (i + 1)..n /\ j \in 1..n
          BY <1>1, <4>2
        <5> QED
          BY <1>2, <3>1, <3>2, <5>1
      <4> QED
        BY <4>1, <4>2
    <3> QED
      BY <3>1, <3>2
  <2> QED
    BY <1>1, <1>2, <2>1, <2>2, <2>3 DEF BaseSaid
<1>4. IsUnits(Units(q, n + 1)) /\ BaseSaid(q, d, n + 1)
  <2>1. ASSUME h.type = "OffsetDelta" PROVE \E j \in 1..n : h.base = Offset(q, j)
    BY <1>2, <2>1
  <2>2. (n + 1) - 1 = n /\ \A j \in ((n + 1) + 1)..(n + 1) : FALSE
    BY <1>1
  <2> HIDE DEF n
  <2>3. Type(q, n + 1) = "OffsetDelta" => \E j \in 1..((n + 1) - 1) : Base(q, n + 1) = Offset(q, j)
    BY <1>2, <2>1, <2>2
  <2>4. Type(q, n + 1) = "RefDelta" => Base(q, n + 1) \in Nat /\ Base(q, n + 1) # d[n + 1]
    BY <1>2 DEF n
  <2> QED
    BY <1>1, <1>2, <2>2, <2>3, <2>4 DEF BaseSaid
<1>5. \A i \in 1..n + 1 : i \in 1..n \/ i = n + 1
  BY <1>1
<1>6. Linked(q, d)
  BY <1>1, <1>3, <1>4, <1>5 DEF Linked
<1> QED
  BY <1>6 DEF q

LEMMA WriteHeaderLinks ==
    ASSUME PackInv, UndInv, NEW o \in Objects, WriteHeader(o), RandomUnchanged
    PROVE  UndInv'
<1> DEFINE start == PreviousEnded(WithFileHeader)
           hdr == [offset |-> Len(start), type |-> o.type, size |-> Len(o.data), base |-> BaseOf(o)]
<1>1. /\ Writing /\ CanMean(o)
      /\ meant' = Append(meant, [hdr |-> hdr, data |-> o.data])
      /\ UNCHANGED <<ids, phase>>
  BY DEF WriteHeader
<1>2. AllMeant(meant) /\ Linked(meant, ids) /\ phase = "writing"
  BY <1>1 DEF PackInv, UndInv, Writing
<1>3. DOMAIN meant = 1..Len(meant)
  BY <1>2 DEF AllMeant, IsSequence
<1> DEFINE h == hdr
<1>4. h.type = o.type /\ h.base = BaseOf(o)
  OBVIOUS
<1> HIDE DEF h, start
<1>5. IsUnits(o.data)
  <2>1. IsObject(o) /\ \A n \in 1..Len(o.data) : IsUnit(o.data[n])
    BY StreamAssumption, UndeltifyAssumption
  <2>2. IsSequence(o.data)
    BY <2>1, StreamAssumption DEF IsObject, IsSequence
  <2> QED
    BY <2>1, <2>2 DEF IsUnits
<1>6. h.type = "OffsetDelta" => \E j \in 1..Len(meant) : h.base = Offset(meant, j)
  BY <1>1, <1>3, <1>4 DEF CanMean, BaseOf, Offset
<1>7. h.type = "RefDelta" => h.base \in Nat /\ h.base # ids[Len(meant) + 1]
  <2>1. h.type = "RefDelta" => h.base = o.baseID
    BY <1>4 DEF BaseOf
  <2> QED
    BY <1>1, <1>4, <2>1, UndeltifyAssumption DEF CanMean
<1>8. \A i \in 1..Len(meant) :
        Type(meant, i) = "RefDelta" /\ Base(meant, i) = ids[Len(meant) + 1] => NonDelta(h.type)
  BY <1>1, <1>3, <1>4 DEF CanMean, Type, Base
<1>9. Linked(meant', ids')
  <2>1. Linked(Append(meant, [hdr |-> h, data |-> o.data]), ids)
    BY <1>2, <1>5, <1>6, <1>7, <1>8, LinkedKept
  <2> QED
    BY <1>1, <2>1 DEF h
<1> QED
  BY <1>1, <1>2, <1>9, NoCallsYet DEF RandomUnchanged

LEMMA SentWhole ==
    ASSUME PackInv, NEW as, NEW f, Arrive(as, f)
    PROVE  /\ phase = "writing" /\ AllMeant(meant)
           /\ RandomFile(meant, file) /\ WholeData(meant, file)
           /\ phase' = as /\ sent' = file /\ file' = f /\ UNCHANGED <<ids, meant>>
<1>1. /\ phase = "writing" /\ AllMeant(meant) /\ WrittenSoFar(meant, file, writer) /\ writer.closed
      /\ phase' = as /\ sent' = file /\ file' = f /\ meant' = meant
  BY ArriveIs
<1>2. ids' = ids
  BY DEF Arrive
<1>3. IsSequence(file) /\ \A i \in 1..Len(meant) : Ended(meant, file, i)
  BY <1>1 DEF WrittenSoFar
<1>4. \A i \in 1..Len(meant) : Came(meant, file, i) /\ Sound(meant, file, i) /\ After(meant, i) <= Len(file)
  BY <1>1, <1>3, EndedCame
<1> QED
  BY <1>1, <1>2, <1>3, <1>4 DEF RandomFile, WholeData

LEMMA CutRandom ==
    ASSUME NEW m, AllMeant(m), NEW f, RandomFile(m, f), NEW n \in Nat, n < Len(f)
    PROVE  RandomFile(m, SubSeq(f, 1, n))
<1> DEFINE g == SubSeq(f, 1, n)
<1>1. IsSequence(f) /\ Len(f) \in Nat /\ n <= Len(f)
  BY Lengths DEF RandomFile
<1>2. IsSequence(g) /\ Len(g) = n /\ \A j \in 1..n : g[j] = f[j]
  BY <1>1, StartAt
<1> HIDE DEF g
<1>3. ASSUME NEW i \in 1..Len(m)
      PROVE  Came(m, g, i) /\ (Offset(m, i) < Len(g) => Sound(m, g, i))
  <2>1. Came(m, f, i) /\ (Offset(m, i) < Len(f) => Sound(m, f, i)) /\ Offset(m, i) \in Nat
    BY Place DEF RandomFile
  <2>2. Came(m, g, i)
    BY <1>1, <1>2, <2>1, CutCame
  <2>3. ASSUME Offset(m, i) < Len(g) PROVE Sound(m, g, i)
    <3>1. Offset(m, i) + 1 \in 1..n /\ Offset(m, i) < Len(f)
      BY <1>1, <1>2, <2>1, <2>3
    <3> QED
      BY <1>2, <2>1, <3>1 DEF Sound, SizeTold
  <2> QED
    BY <2>2, <2>3
<1>4. RandomFile(m, g)
  BY <1>2, <1>3 DEF RandomFile
<1> QED
  BY <1>4 DEF g

LEMMA ArriveLinks ==
    ASSUME PackInv, UndInv, NEW as, Arrive(as, file), RandomUnchanged
    PROVE  UndInv'
<1>1. /\ phase = "writing" /\ RandomFile(meant, file) /\ WholeData(meant, file)
      /\ sent' = file /\ file' = file /\ UNCHANGED <<ids, meant>>
  BY SentWhole
<1>2. Linked(meant', ids') /\ RandomFile(meant', file') /\ WholeData(meant', sent')
  BY <1>1 DEF UndInv
<1> QED
  BY <1>1, <1>2, NoCallsYet DEF RandomUnchanged

LEMMA ArriveCutLinks ==
    ASSUME PackInv, UndInv, NEW as, NEW n \in 0..MaxCut, ArriveCut(as, n), RandomUnchanged
    PROVE  UndInv'
<1>1. n < Len(file) /\ Arrive(as, SubSeq(file, 1, n)) /\ n \in Nat
  <2>1. n \in Nat
    BY UndeltifyAssumption
  <2> QED
    BY <2>1 DEF ArriveCut
<1>2. /\ phase = "writing" /\ AllMeant(meant) /\ RandomFile(meant, file) /\ WholeData(meant, file)
      /\ sent' = file /\ file' = SubSeq(file, 1, n) /\ UNCHANGED <<ids, meant>>
  BY <1>1, SentWhole
<1>3. RandomFile(meant, SubSeq(file, 1, n))
  BY <1>1, <1>2, CutRandom
<1>4. Linked(meant', ids') /\ RandomFile(meant', file') /\ WholeData(meant', sent')
  BY <1>2, <1>3 DEF UndInv
<1> QED
  BY <1>2, <1>4, NoCallsYet DEF RandomUnchanged

LEMMA ArriveDamagedLinks ==
    ASSUME PackInv, UndInv, NEW i, NEW d, ArriveDamaged(i, d), RandomUnchanged
    PROVE  UndInv'
<1>1. /\ phase = "writing" /\ phase' = "serial" /\ UNCHANGED <<ids, meant>>
  BY DEF ArriveDamaged, Arrive
<1>2. Linked(meant', ids')
  BY <1>1 DEF UndInv
<1> QED
  BY <1>1, <1>2, NoCallsYet DEF RandomUnchanged

LEMMA StreamLinks ==
    ASSUME UndInv, phase # "random", UNCHANGED <<ids, meant, phase>>, RandomUnchanged
    PROVE  UndInv'
<1>1. Linked(meant', ids')
  BY DEF UndInv
<1> QED
  BY <1>1, NoCallsYet DEF RandomUnchanged

LEMMA UndStays == ASSUME UndInv, UNCHANGED vars PROVE UndInv'
<1>1. /\ UNCHANGED streamVars
      /\ index' = index /\ calls' = calls /\ call' = call
  BY DEF vars
<1>2. /\ ids' = ids /\ meant' = meant /\ phase' = phase /\ file' = file /\ sent' = sent
  BY <1>1 DEF streamVars
<1>3. Content' = Content /\ \A no : ResolveType(no)' = ResolveType(no)
  BY <1>1, SameContent
<1>4. UndeltifyExact'
  <2>1. UndeltifyExact /\ call' = call
    BY <1>1 DEF UndInv
  <2> QED
    BY <1>2, <1>3, <2>1 DEF UndeltifyExact
<1> QED
  BY <1>1, <1>2, <1>4 DEF UndInv, Sent

LEMMA UndStarts == BytesInit => UndInv
<1> SUFFICES ASSUME BytesInit PROVE UndInv
  OBVIOUS
<1>1. Init
  BY DEF BytesInit, PackIdle
<1>2. /\ ids \in IDOrders /\ meant = <<>> /\ phase = "writing" /\ index = NilIndex /\ calls = 0
      /\ call = NoCall
  BY <1>1 DEF Init, StreamInit
<1>3. Linked(meant, ids)
  <2>1. \A i \in 1..Len(<<>>) : FALSE
    BY EmptySequence
  <2> QED
    BY <1>2, <2>1 DEF Linked
<1>4. UndeltifyExact
  BY <1>2, NoCallExact
<1> QED
  BY <1>2, <1>3, <1>4 DEF UndInv

LEMMA UndSteps == PackInv /\ UndInv /\ [BytesNext]_bytesVars => UndInv'
<1> SUFFICES ASSUME PackInv, UndInv, [BytesNext]_bytesVars PROVE UndInv'
  OBVIOUS
<1>1. ASSUME InStream, NEW o \in Objects, WriteHeader(o) PROVE UndInv'
  BY <1>1, WriteHeaderLinks DEF InStream
<1>2. ASSUME InStream, WriteHeaderTooMany PROVE UndInv'
  <2>1. phase # "random" /\ UNCHANGED <<ids, meant, phase>> /\ RandomUnchanged
    BY <1>2 DEF WriteHeaderTooMany, Writing, InStream
  <2> QED
    BY <2>1, StreamLinks
<1>3. ASSUME InStream, NEW k, Write(k) PROVE UndInv'
  <2>1. phase # "random" /\ UNCHANGED <<ids, meant, phase>> /\ RandomUnchanged
    BY <1>3 DEF Write, Writing, InStream
  <2> QED
    BY <2>1, StreamLinks
<1>4. ASSUME InStream, CloseWriter PROVE UndInv'
  <2>1. phase # "random" /\ UNCHANGED <<ids, meant, phase>> /\ RandomUnchanged
    BY <1>4 DEF CloseWriter, Writing, InStream
  <2> QED
    BY <2>1, StreamLinks
<1>5. ASSUME InStream, NEW as \in {"serial", "random"}, Arrive(as, file) PROVE UndInv'
  BY <1>5, ArriveLinks DEF InStream
<1>6. ASSUME InStream, NEW as \in {"serial", "random"}, NEW n \in 0..MaxCut, ArriveCut(as, n)
      PROVE  UndInv'
  BY <1>6, ArriveCutLinks DEF InStream
<1>7. ASSUME InStream, NEW i \in 1..MaxObjects, NEW d \in {-1, 1}, ArriveDamaged(i, d) PROVE UndInv'
  BY <1>7, ArriveDamagedLinks DEF InStream
<1>8. ASSUME InStream, NextRefuses \/ NextEnds \/ NextCut \/ NextObject PROVE UndInv'
  <2>1. phase # "random"
    BY <1>8 DEF NextRefuses, NextEnds, NextCut, NextObject, Reading
  <2>2. UNCHANGED <<ids, meant, phase>> /\ RandomUnchanged
    BY <1>8 DEF NextRefuses, NextEnds, NextCut, NextObject, NextFails, NextReturns, InStream
  <2> QED
    BY <2>1, <2>2, StreamLinks
<1>9. ASSUME InStream, NEW k, Read(k) PROVE UndInv'
  <2>1. phase # "random" /\ UNCHANGED <<ids, meant, phase>> /\ RandomUnchanged
    BY <1>9 DEF Read, Reading, InStream
  <2> QED
    BY <2>1, StreamLinks
<1>10. ASSUME NEW version \in Versions, OpenIndex(version) PROVE UndInv'
  BY <1>10, OpenIndexKeeps
<1>11. ASSUME NEW no, UndeltifyFails(no) \/ UndeltifyPlain(no) \/ UndeltifyDelta(no)
       PROVE  UndInv'
  BY <1>11, UndeltifyFailsKeeps, UndeltifyPlainKeeps, UndeltifyDeltaKeeps
<1>12. ASSUME InTree \/ InCommit PROVE UNCHANGED vars
  BY <1>12 DEF InTree, InCommit
<1>13. ASSUME UNCHANGED bytesVars PROVE UNCHANGED vars
  BY <1>13 DEF bytesVars
<1> QED
  BY <1>1, <1>2, <1>3, <1>4, <1>5, <1>6, <1>7, <1>8, <1>9, <1>10, <1>11, <1>12, <1>13,
     UndStays, Zenon DEF BytesNext

(***************************************************************************)
(* Undeltify gives an object's content and nothing else, whatever the      *)
(* chain of its deltas, the calls before and the format of the index.      *)
(***************************************************************************)
THEOREM UndeltifiesExactly == BytesSpec => []UndeltifyExact
<1>1. PackInv /\ UndInv => UndeltifyExact
  BY DEF UndInv
<1> QED
  BY <1>1, BytesStart, PackSteps, UndStarts, UndSteps, PTL DEF BytesSpec

=============================================================================
