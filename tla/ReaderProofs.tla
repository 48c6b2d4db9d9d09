---------------------------- MODULE ReaderProofs ----------------------------
(***************************************************************************)
(* Proofs about the two readers of the output of one subprocess, over a    *)
(* pipe of any size.                                                       *)
(*                                                                         *)
(* IterateRefs and IterateRemoteRefs, for repositories with any number of  *)
(* refs: the types, and that a listing that ends without an error is the   *)
(* whole listing.                                                          *)
(*                                                                         *)
(* Git.Cat, for a blob of any size: the types, that a reader whose end was *)
(* seen and whose Close succeeded gave the whole blob, and that no         *)
(* subprocess is left behind.                                              *)
(***************************************************************************)
EXTENDS RefIterator, CatFile, TLAPS, SequenceTheorems

USE IteratorAssumption, PipeAssumption

Lines == [n : Nat, ref : Refs, deref : BOOLEAN, whole : BOOLEAN]
Numbers(s) == {s[i].n : i \in 1..Len(s)}

(* What Git has printed up to a line and is not in a pipe with s any more. *)
Passed(s, last) == {n \in Output : n <= last /\ n \notin Numbers(s)}
Kept(lines) == {n \in lines : filter(Line(n))}

(* What is in the pipe comes after what was read, in order.                *)
InOrder(s) == \A i, j \in 1..Len(s) : i < j => s[i].n < s[j].n
Whole(s, last) ==
    \A i \in 1..Len(s) : s[i].n \in Output /\ s[i].n <= last /\ s[i] = Line(s[i].n)
Behind(s, last) == \A m \in Passed(s, last) : \A i \in 1..Len(s) : m < s[i].n

(***************************************************************************)
(* While Git has not failed, what was written is in the pipe or was read;  *)
(* of what was read, Next was true for the lines that filter keeps.        *)
(***************************************************************************)
LinesKnown ==
    proc[P] # "failed" /\ (P \in readEnd \/ user = "nextWait") =>
        /\ InOrder(pipe[P]) /\ Whole(pipe[P], sent) /\ Behind(pipe[P], sent)
        /\ GotExactly(Kept(Passed(pipe[P], sent)))

ReaderKnown ==
    /\ pipe \in [Procs -> Seq(Lines)] /\ got \in Seq(Lines)
    /\ P \notin readEnd => pipe[P] = <<>>
    /\ user = "start" => /\ proc[P] = "none" /\ P \notin readEnd /\ ~scanDone
                         /\ got = <<>> /\ sent = 0
    /\ user = "next" \/ (user = "ready" /\ ~scanDone) => P \in readEnd
    /\ user = "nextWait" => P \notin readEnd
    /\ user \in {"close", "closeWait"} => scanDone
    /\ scanDone => user \in {"ready", "close", "closeWait"}
    /\ endedByNext => scanDone
    /\ proc[P] \in {"ok", "exit1"} => Left = {}

EndKnown == user = "nextEnds" \/ (endedByNext /\ ~scanErr) => GotExactly(Kept(Output))

RefsInv == TypeOK /\ ReaderKnown /\ LinesKnown /\ EndKnown

-----------------------------------------------------------------------------

(* Of what Git prints, filter keeps what the options promise.              *)
LEMMA KeptIsWanted == ASSUME TypeOK PROVE Kept(Output) = Wanted
<1> SUFFICES ASSUME NEW n \in DOMAIN repo
             PROVE  Prints(repo[n]) /\ filter(Line(n)) <=>
                      LET l == repo[n]
                          limited == opts.LimitToBranches \/ opts.LimitToTags
                      IN IF l.ref = "HEAD" THEN opts.IncludeHead /\ ~limited
                         ELSE /\ l.deref => opts.DereferenceTags
                              /\ limited => \/ opts.LimitToBranches /\ l.ref \in Branches
                                            \/ opts.LimitToTags /\ l.ref \in Tags
  BY DEF Kept, Output, Wanted
<1> DEFINE l == repo[n]
<1>1. repo[n].deref => repo[n].ref # "HEAD"
  BY DEF TypeOK
<1>2. Line(n).ref = repo[n].ref /\ Line(n).deref = repo[n].deref
  BY DEF Line
<1>3. command \in {"show-ref", "ls-remote"}
  BY DEF TypeOK
<1>4. filter(Line(n)) <=> /\ ~(repo[n].ref = "HEAD" /\ ~opts.IncludeHead)
                          /\ ~(repo[n].deref /\ ~opts.DereferenceTags)
                          /\ opts.LimitToBranches \/ opts.LimitToTags =>
                                 \/ repo[n].ref \in Branches /\ opts.LimitToBranches
                                 \/ repo[n].ref \in Tags /\ opts.LimitToTags
  BY <1>2 DEF filter
<1>5. CASE command = "show-ref"
  BY <1>1, <1>4, <1>5 DEF Prints, ShowRefPrints, Branches, Tags
<1>6. CASE command = "ls-remote"
  BY <1>1, <1>4, <1>6 DEF Prints, LsRemotePrints, Branches, Tags
<1> QED
  BY <1>3, <1>5, <1>6

-----------------------------------------------------------------------------

LEMMA TailFacts ==
    ASSUME NEW T, NEW s \in Seq(T), s # <<>>
    PROVE  /\ Tail(s) \in Seq(T) /\ Len(Tail(s)) = Len(s) - 1 /\ Len(s) \in Nat \ {0}
           /\ Head(s) = s[1] /\ \A i \in 1..Len(Tail(s)) : Tail(s)[i] = s[i + 1]
OBVIOUS

LEMMA AppendFacts ==
    ASSUME NEW T, NEW s \in Seq(T), NEW x \in T
    PROVE  /\ Append(s, x) \in Seq(T) /\ Len(Append(s, x)) = Len(s) + 1 /\ Len(s) \in Nat
           /\ Append(s, x)[Len(s) + 1] = x /\ \A i \in 1..Len(s) : Append(s, x)[i] = s[i]
OBVIOUS

(* The numbers of a sequence without its first line.                       *)
LEMMA NumbersOfTail ==
    ASSUME NEW s \in Seq(Lines), s # <<>>, InOrder(s)
    PROVE  /\ Numbers(Tail(s)) = Numbers(s) \ {s[1].n} /\ s[1].n \in Numbers(s)
           /\ InOrder(Tail(s)) /\ \A i \in 1..Len(Tail(s)) : s[1].n < Tail(s)[i].n
<1> DEFINE t == Tail(s)
           k == Len(s)
<1>1. Len(t) = k - 1 /\ k \in Nat \ {0} /\ \A i \in 1..Len(t) : t[i] = s[i + 1]
  BY TailFacts
<1> HIDE DEF t, k
<1>2. \A i, j \in 1..k : i < j => s[i].n < s[j].n
  BY DEF InOrder, k
<1>3. \A i \in 1..k : s[i].n \in Nat
  <2>1. \A l \in Lines : l.n \in Nat
    BY DEF Lines
  <2>2. \A i \in 1..k : s[i] \in Lines
    BY DEF k
  <2> QED
    BY <2>1, <2>2
<1>4. \A i \in 1..Len(t) : i + 1 \in 1..k /\ 1 \in 1..k /\ 1 < i + 1
  BY <1>1
<1>5. \A i \in 1..Len(t) : s[1].n < t[i].n
  BY <1>1, <1>2, <1>4
<1>6. InOrder(t)
  <2>1. SUFFICES ASSUME NEW i \in 1..Len(t), NEW j \in 1..Len(t), i < j PROVE t[i].n < t[j].n
    BY DEF InOrder
  <2>2. i + 1 \in 1..k /\ j + 1 \in 1..k /\ i + 1 < j + 1
    BY <1>1, <2>1
  <2> QED
    BY <1>1, <1>2, <2>2
<1>7. ASSUME NEW n \in Numbers(t) PROVE n \in Numbers(s) \ {s[1].n}
  <2>1. PICK i \in 1..Len(t) : n = t[i].n
    BY DEF Numbers
  <2>2. i + 1 \in 1..k /\ n = s[i + 1].n /\ s[1].n < n
    BY <1>1, <1>4, <1>5, <2>1
  <2>3. s[1].n \in Nat
    BY <1>1, <1>3
  <2> QED
    BY <2>2, <2>3 DEF Numbers, k
<1>8. ASSUME NEW n \in Numbers(s), n # s[1].n PROVE n \in Numbers(t)
  <2>1. PICK i \in 1..k : n = s[i].n
    BY DEF Numbers, k
  <2>2. i - 1 \in 1..Len(t) /\ i - 1 + 1 = i
    BY <1>1, <1>8, <2>1
  <2>3. t[i - 1] = s[i]
    BY <1>1, <2>2
  <2> QED
    BY <2>1, <2>2, <2>3 DEF Numbers
<1>9. s[1].n \in Numbers(s)
  BY <1>1 DEF Numbers, k
<1> QED
  BY <1>5, <1>6, <1>7, <1>8, <1>9 DEF t

LEMMA NumbersOfAppend ==
    ASSUME NEW s \in Seq(Lines), NEW x \in Lines
    PROVE  Numbers(Append(s, x)) = Numbers(s) \cup {x.n}
<1> DEFINE t == Append(s, x)
           k == Len(s)
<1>1. Len(t) = k + 1 /\ k \in Nat /\ t[k + 1] = x /\ \A i \in 1..k : t[i] = s[i]
  BY AppendFacts
<1> HIDE DEF t, k
<1>2. \A i \in 1..k + 1 : i \in 1..k \/ i = k + 1
  BY <1>1
<1>3. \A i \in 1..k : i \in 1..k + 1
  BY <1>1
<1>4. k + 1 \in 1..k + 1
  BY <1>1
<1>5. Numbers(t) = {t[i].n : i \in 1..k + 1} /\ Numbers(s) = {s[i].n : i \in 1..k}
  BY <1>1 DEF Numbers, k
<1>6. ASSUME NEW n \in Numbers(t) PROVE n \in Numbers(s) \cup {x.n}
  BY <1>1, <1>2, <1>5, <1>6
<1>7. ASSUME NEW n \in Numbers(s) \cup {x.n} PROVE n \in Numbers(t)
  BY <1>1, <1>3, <1>4, <1>5, <1>7
<1> QED
  BY <1>6, <1>7 DEF t

(* A sequence of lines is these lines, in order.                           *)
GotIs(g, lines) ==
    /\ {g[i] : i \in DOMAIN g} = {Line(n) : n \in lines}
    /\ \A i, j \in DOMAIN g : i < j => g[i].n < g[j].n

LEMMA GotAppend ==
    ASSUME NEW g \in Seq(Lines), NEW lines, GotIs(g, lines), NEW n, Line(n) \in Lines,
           \A m \in lines : m < n
    PROVE  GotIs(Append(g, Line(n)), lines \cup {n})
<1> DEFINE t == Append(g, Line(n))
           k == Len(g)
           x == Line(n)
<1>1. Len(t) = k + 1 /\ k \in Nat /\ t[k + 1] = x /\ \A i \in 1..k : t[i] = g[i]
  BY AppendFacts
<1>2. DOMAIN t = 1..k + 1 /\ DOMAIN g = 1..k
  OBVIOUS
<1>3. \A m : Line(m).n = m
  BY DEF Line
<1> HIDE DEF t, k, x
<1>4. {g[i] : i \in 1..k} = {Line(m) : m \in lines} /\ \A i, j \in 1..k : i < j => g[i].n < g[j].n
  BY <1>2 DEF GotIs
<1>5. 1..k + 1 = 1..k \cup {k + 1}
  BY <1>1
<1>6. \A i \in 1..k : g[i].n < n
  <2>1. SUFFICES ASSUME NEW i \in 1..k PROVE g[i].n < n
    OBVIOUS
  <2>2. PICK m \in lines : g[i] = Line(m)
    BY <1>4
  <2> QED
    BY <1>3, <2>2
<1>7. {t[i] : i \in 1..k + 1} = {g[i] : i \in 1..k} \cup {x}
  BY <1>1, <1>5
<1>8. {Line(m) : m \in lines \cup {n}} = {Line(m) : m \in lines} \cup {x}
  BY DEF x
<1>9. ASSUME NEW i \in 1..k + 1, NEW j \in 1..k + 1, i < j PROVE t[i].n < t[j].n
  <2>1. i \in 1..k
    BY <1>1, <1>9
  <2>2. CASE j \in 1..k
    BY <1>1, <1>4, <1>9, <2>1, <2>2
  <2>3. CASE j = k + 1
    BY <1>1, <1>3, <1>6, <2>1, <2>3 DEF x
  <2> QED
    BY <1>5, <2>2, <2>3
<1> QED
  BY <1>2, <1>4, <1>7, <1>8, <1>9 DEF GotIs, t, x

LEMMA OutputIsNat == ASSUME TypeOK PROVE Output \subseteq Nat
<1>1. repo \in Seq(RepoLines)
  BY DEF TypeOK
<1> QED
  BY <1>1 DEF Output

LEMMA LineTyped == ASSUME TypeOK, NEW n \in Output PROVE Line(n) \in Lines /\ CutLine(n) \in Lines
<1>1. repo[n] \in RepoLines
  BY DEF TypeOK, Output
<1>2. repo[n].ref \in Refs /\ repo[n].deref \in BOOLEAN
  BY <1>1 DEF RepoLines
<1> QED
  BY <1>2, OutputIsNat DEF Line, CutLine, Lines

(* A line leaves the pipe, and is behind what is left.                     *)
LEMMA ReadLine ==
    ASSUME TypeOK, NEW s \in Seq(Lines), s # <<>>, NEW last \in Nat,
           InOrder(s), Whole(s, last), Behind(s, last)
    PROVE  /\ s[1].n \in Output /\ s[1] = Line(s[1].n)
           /\ InOrder(Tail(s)) /\ Whole(Tail(s), last) /\ Behind(Tail(s), last)
           /\ Passed(Tail(s), last) = Passed(s, last) \cup {s[1].n}
           /\ \A m \in Passed(s, last) : m < s[1].n
<1> DEFINE t == Tail(s)
           n == s[1].n
<1>1. /\ Len(t) = Len(s) - 1 /\ Len(s) \in Nat \ {0} /\ \A i \in 1..Len(t) : t[i] = s[i + 1]
  BY TailFacts
<1>2. /\ Numbers(t) = Numbers(s) \ {n} /\ n \in Numbers(s)
      /\ InOrder(t) /\ \A i \in 1..Len(t) : n < t[i].n
  BY NumbersOfTail
<1> HIDE DEF t
<1>3. 1 \in 1..Len(s) /\ \A i \in 1..Len(t) : i + 1 \in 1..Len(s)
  BY <1>1
<1>4. n \in Output /\ n <= last /\ s[1] = Line(n)
  BY <1>3 DEF Whole
<1>5. Whole(t, last)
  BY <1>1, <1>3 DEF Whole
<1>6. Passed(t, last) = Passed(s, last) \cup {n}
  BY <1>2, <1>4 DEF Passed
<1>7. \A m \in Passed(s, last) : m < n
  BY <1>3 DEF Behind
<1>8. Behind(t, last)
  BY <1>1, <1>2, <1>3, <1>6 DEF Behind
<1> QED
  BY <1>2, <1>4, <1>5, <1>6, <1>7, <1>8 DEF t

(* The next line enters the pipe, and is ahead of what is in it.           *)
LEMMA WriteLine ==
    ASSUME TypeOK, NEW s \in Seq(Lines), InOrder(s), Whole(s, sent), Behind(s, sent),
           NEW n, IsNext(n)
    PROVE  LET t == Append(s, Line(n))
           IN InOrder(t) /\ Whole(t, n) /\ Behind(t, n) /\ Passed(t, n) = Passed(s, sent)
<1> DEFINE t == Append(s, Line(n))
           k == Len(s)
<1>1. n \in Output /\ n > sent /\ \A m \in Left : n <= m
  BY DEF IsNext, Left
<1>2. Line(n) \in Lines /\ Line(n).n = n
  BY <1>1, LineTyped DEF Line
<1>3. Len(t) = k + 1 /\ k \in Nat /\ t[k + 1] = Line(n) /\ \A i \in 1..k : t[i] = s[i]
  BY <1>2, AppendFacts
<1>4. Numbers(t) = Numbers(s) \cup {n}
  BY <1>2, NumbersOfAppend
<1> HIDE DEF t, k
<1>5. n \in Nat /\ sent \in Nat /\ Output \subseteq Nat
  BY <1>1, OutputIsNat DEF TypeOK
<1>6. 1..k + 1 = 1..k \cup {k + 1}
  BY <1>3
<1>7. \A i \in 1..k : s[i].n \in Output /\ s[i].n <= sent /\ s[i] = Line(s[i].n)
  BY DEF Whole, k
<1>8. ASSUME NEW i \in 1..k PROVE s[i].n < n /\ s[i].n <= n
  <2>1. s[i].n \in Nat /\ s[i].n <= sent
    BY <1>5, <1>7
  <2> QED
    BY <1>1, <1>5, <2>1
<1>9. Whole(t, n)
  <2>1. n <= n
    BY <1>5
  <2> QED
    BY <1>1, <1>2, <1>3, <1>6, <1>7, <1>8, <2>1 DEF Whole
<1>10. InOrder(t)
  <2>1. SUFFICES ASSUME NEW i \in 1..k + 1, NEW j \in 1..k + 1, i < j PROVE t[i].n < t[j].n
    BY <1>3 DEF InOrder
  <2>2. i \in 1..k
    BY <1>3, <2>1
  <2>3. CASE j \in 1..k
    BY <1>3, <2>1, <2>2, <2>3 DEF InOrder, k
  <2>4. CASE j = k + 1
    BY <1>2, <1>3, <1>8, <2>2, <2>4
  <2> QED
    BY <1>6, <2>3, <2>4
<1>11. Passed(t, n) = Passed(s, sent)
  <2>1. ASSUME NEW m \in Output PROVE m <= n <=> m <= sent \/ m = n
    BY <1>1, <1>5, <2>1 DEF Left
  <2> QED
    BY <1>1, <1>4, <1>5, <2>1 DEF Passed
<1>12. Behind(t, n)
  <2>1. \A m \in Passed(s, sent) : m < n
    BY <1>1, <1>5 DEF Passed
  <2>2. \A m \in Passed(s, sent) : \A i \in 1..k : m < s[i].n
    BY DEF Behind, k
  <2> QED
    BY <1>2, <1>3, <1>6, <1>11, <2>1, <2>2 DEF Behind
<1> QED
  BY <1>9, <1>10, <1>11, <1>12 DEF t

-----------------------------------------------------------------------------

LEMMA ListingStays ==
    ASSUME UNCHANGED listing
    PROVE  /\ command' = command /\ repo' = repo /\ opts' = opts /\ Output' = Output
           /\ \A n : Line(n)' = Line(n)
           /\ \A s, last : /\ Whole(s, last)' = Whole(s, last)
                           /\ Behind(s, last)' = Behind(s, last)
                           /\ Passed(s, last)' = Passed(s, last)
           /\ \A lines : Kept(lines)' = Kept(lines)
           /\ \A g, lines : GotIs(g, lines)' = GotIs(g, lines)
<1>1. command' = command /\ repo' = repo /\ opts' = opts
  BY DEF listing
<1>2. Output' = Output
  BY <1>1 DEF Output, Prints, ShowRefPrints, LsRemotePrints
<1>3. \A n : Line(n)' = Line(n)
  BY <1>1 DEF Line
<1>4. \A s, last : Passed(s, last)' = Passed(s, last)
  BY <1>2 DEF Passed
<1>5. \A s, last : Whole(s, last)' = Whole(s, last)
  BY <1>2, <1>3 DEF Whole
<1>6. \A s, last : Behind(s, last)' = Behind(s, last)
  BY <1>4 DEF Behind
<1>7. \A lines : Kept(lines)' = Kept(lines)
  BY <1>1 DEF Kept, filter, Line
<1>8. \A g, lines : GotIs(g, lines)' = GotIs(g, lines)
  BY <1>3 DEF GotIs
<1> QED
  BY <1>1, <1>2, <1>3, <1>4, <1>5, <1>6, <1>7, <1>8

\* A step that neither writes nor reads.
LEMMA LinesStay ==
    ASSUME LinesKnown, UNCHANGED <<listing, sent, got>>, pipe'[P] = pipe[P],
           proc[P] = "failed" => proc'[P] = "failed",
           P \in readEnd' \/ user' = "nextWait" => P \in readEnd \/ user = "nextWait"
    PROVE  LinesKnown'
BY ListingStays DEF LinesKnown, GotExactly, GotIs

\* What the pipe then has and what was then read.
LEMMA LinesThen ==
    ASSUME UNCHANGED listing, NEW s, NEW last, NEW g, pipe'[P] = s, sent' = last, got' = g,
           InOrder(s), Whole(s, last), Behind(s, last), GotIs(g, Kept(Passed(s, last)))
    PROVE  LinesKnown'
<1>1. Whole(s, last)' /\ Behind(s, last)'
  BY ListingStays
<1>2. Kept(Passed(s, last))' = Kept(Passed(s, last))
  BY ListingStays
<1>3. GotIs(g, Kept(Passed(s, last)))'
  BY <1>2, ListingStays
<1> QED
  BY <1>1, <1>3 DEF LinesKnown, GotExactly, GotIs

LEMMA EndStays ==
    ASSUME EndKnown, UNCHANGED <<listing, got>>,
           user' = "nextEnds" => user = "nextEnds",
           endedByNext' /\ ~scanErr' => endedByNext /\ ~scanErr
    PROVE  EndKnown'
<1>1. Kept(Output)' = Kept(Output)
  BY ListingStays
<1>2. \A n : Line(n)' = Line(n)
  BY ListingStays
<1> QED
  BY <1>1, <1>2 DEF EndKnown, GotExactly

LEMMA LeftStays ==
    ASSUME UNCHANGED <<listing, sent>>
    PROVE  Left' = Left
BY ListingStays DEF Left

-----------------------------------------------------------------------------

LEMMA InitRefs == Init => RefsInv
<1> SUFFICES ASSUME Init PROVE RefsInv
  OBVIOUS
<1> USE DEF Init, PipeInit
<1>1. PipeTypeOK
  <2>1. proc \in [Procs -> {"none", "running", "signalled"} \cup Exited]
    OBVIOUS
  <2>2. \A p \in Procs : Len(pipe[p]) <= PipeCap
    OBVIOUS
  <2> QED
    BY <2>1, <2>2, Zenon DEF PipeTypeOK
<1>2. repo \in Seq(RepoLines) /\ sent \in 0..Len(repo)
  OBVIOUS
<1>3. TypeOK
  <2>1. command \in Commands /\ repo \in Repos /\ opts \in OptionSets
    OBVIOUS
  <2>2. \A i \in DOMAIN got : got[i].ref \in Refs
    OBVIOUS
  <2>3. /\ user = "start" /\ closeErr = "none"
        /\ scanErr = FALSE /\ scanDone = FALSE /\ closer = FALSE /\ hasResults = FALSE
        /\ endedByNext = FALSE
    OBVIOUS
  <2> HIDE DEF Init, PipeInit
  <2> QED
    BY <1>1, <1>2, <2>1, <2>2, <2>3 DEF TypeOK
<1>4. pipe \in [Procs -> Seq(Lines)] /\ got \in Seq(Lines) /\ pipe[P] = <<>> /\ proc[P] = "none"
  OBVIOUS
<1>5. ReaderKnown
  BY <1>4 DEF ReaderKnown
<1>6. LinesKnown /\ EndKnown
  BY DEF LinesKnown, EndKnown
<1> QED
  BY <1>3, <1>5, <1>6 DEF RefsInv

(***************************************************************************)
(* The steps.                                                              *)
(***************************************************************************)
LEMMA StartSteps == ASSUME RefsInv, IterateFails \/ Iterate PROVE RefsInv'
<1>1. CASE IterateFails
  <2> USE <1>1 DEF IterateFails, Goto, pipeVars, listing
  <2>1. TypeOK'
    BY DEF RefsInv, TypeOK, PipeTypeOK, Output
  <2>2. ReaderKnown'
    BY LeftStays DEF RefsInv, ReaderKnown
  <2>3. LinesKnown' /\ EndKnown'
    BY LinesStay, EndStays DEF RefsInv
  <2> QED
    BY <2>1, <2>2, <2>3 DEF RefsInv
<1>2. CASE Iterate
  <2> USE <1>2 DEF Iterate, Goto, StartPipe
  <2>1. UNCHANGED <<listing, sent, got, pipe, reaped, ctxDone, piper>> /\ P \in Procs
    OBVIOUS
  <2>2. proc' = [proc EXCEPT ![P] = "running"] /\ proc'[P] = "running"
    BY DEF RefsInv, TypeOK, PipeTypeOK
  <2>3. TypeOK'
    <3>1. PipeTypeOK'
      BY <2>2 DEF RefsInv, TypeOK, PipeTypeOK
    <3> QED
      BY <3>1 DEF RefsInv, TypeOK, listing
  <2>4. ReaderKnown'
    BY <2>1, <2>2, LeftStays DEF RefsInv, ReaderKnown
  <2>5. EndKnown'
    BY EndStays DEF RefsInv
  <2>6. LinesKnown'
    <3>1. pipe[P] = <<>> /\ got = <<>> /\ sent = 0
      BY DEF RefsInv, ReaderKnown
    <3>2. Numbers(<<>>) = {} /\ InOrder(<<>>) /\ Whole(<<>>, 0) /\ Behind(<<>>, 0)
      BY DEF Numbers, InOrder, Whole, Behind
    <3>3. Passed(<<>>, 0) = {}
      <4>1. \A n \in Output : n \in 1..Len(repo)
        BY DEF RefsInv, TypeOK, Output
      <4> QED
        BY <4>1 DEF Passed
    <3>4. Kept({}) = {} /\ GotIs(<<>>, {})
      BY DEF Kept, GotIs
    <3>5. Kept(Passed(<<>>, 0)) = {}
      BY <3>3, <3>4
    <3>6. /\ InOrder(pipe[P])' /\ Whole(pipe[P], sent)' /\ Behind(pipe[P], sent)'
          /\ GotIs(got, Kept(Passed(pipe[P], sent)))'
      <4>1. pipe'[P] = <<>> /\ got' = <<>> /\ sent' = 0
        BY <2>1, <3>1
      <4>2. Whole(<<>>, 0)' /\ Behind(<<>>, 0)' /\ Kept(Passed(<<>>, 0))' = {} /\ GotIs(<<>>, {})'
        BY <2>1, <3>2, <3>4, <3>5, ListingStays
      <4> QED
        BY <3>2, <4>1, <4>2
    <3> QED
      BY <3>6 DEF LinesKnown, GotExactly, GotIs
  <2> QED
    BY <2>3, <2>4, <2>5, <2>6 DEF RefsInv
<1> QED
  BY <1>1, <1>2

LEMMA NextReads == ASSUME RefsInv, SkipLine \/ NextTrue \/ ParseFails PROVE RefsInv'
<1> DEFINE s == pipe[P]
           n == s[1].n
           passed == Passed(s, sent)
<1>1. /\ ReadChunk(P) /\ UNCHANGED <<listing, sent>> /\ user = "next" /\ P \in readEnd /\ s # <<>>
      /\ pipe' = [pipe EXCEPT ![P] = Tail(s)] /\ UNCHANGED <<proc, readEnd, writeEnd, reaped, watchers, piper, ctxDone>>
  BY DEF SkipLine, NextTrue, ParseFails, ReadChunk, Goto
<1>2. s \in Seq(Lines) /\ P \in Procs /\ Head(s) = s[1] /\ s[1] \in Lines
  BY <1>1 DEF RefsInv, ReaderKnown
<1>3. Tail(s) \in Seq(Lines) /\ Len(Tail(s)) = Len(s) - 1 /\ Len(s) \in Nat
  BY <1>1, <1>2, TailFacts
<1>4. pipe'[P] = Tail(s) /\ pipe' \in [Procs -> Seq(Lines)]
  BY <1>1, <1>2, <1>3 DEF RefsInv, ReaderKnown
<1>5. user' \in {"next", "ready", "nextFails"} /\ UNCHANGED <<scanErr, scanDone, closer, endedByNext, closeErr>>
  BY DEF SkipLine, NextTrue, ParseFails, Goto, iterVars
<1>6. got' = got \/ (NextTrue /\ got' = Append(got, s[1]))
  BY <1>2 DEF SkipLine, NextTrue, ParseFails, iterVars
<1>7. got' \in Seq(Lines)
  BY <1>2, <1>6 DEF RefsInv, ReaderKnown
<1>8. TypeOK'
  <2>1. PipeTypeOK'
    <3>1. \A p \in Procs : Len(pipe'[p]) <= PipeCap
      BY <1>1, <1>3, <1>4 DEF RefsInv, TypeOK, PipeTypeOK
    <3> QED
      BY <1>1, <3>1 DEF RefsInv, TypeOK, PipeTypeOK
  <2>2. \A i \in DOMAIN got' : got'[i].ref \in Refs
    <3>1. \A l \in Lines : l.ref \in Refs
      BY DEF Lines
    <3> QED
      BY <1>7, <3>1
  <2>3. hasResults' \in BOOLEAN
    BY DEF SkipLine, NextTrue, ParseFails, iterVars, RefsInv, TypeOK
  <2> QED
    BY <1>1, <1>5, <2>1, <2>2, <2>3, ListingStays DEF RefsInv, TypeOK
<1>9. ReaderKnown'
  BY <1>1, <1>4, <1>5, <1>7, LeftStays DEF RefsInv, ReaderKnown
<1>10. EndKnown'
  <2>1. ~endedByNext
    BY <1>1 DEF RefsInv, ReaderKnown
  <2> QED
    BY <1>5, <2>1 DEF EndKnown
<1>11. LinesKnown'
  <2>1. SUFFICES ASSUME proc[P] # "failed"
                 PROVE  /\ InOrder(Tail(s)) /\ Whole(Tail(s), sent) /\ Behind(Tail(s), sent)
                        /\ GotIs(got', Kept(Passed(Tail(s), sent)))
    BY <1>1, <1>4, ListingStays DEF LinesKnown, GotExactly, GotIs
  <2>2. InOrder(s) /\ Whole(s, sent) /\ Behind(s, sent) /\ GotIs(got, Kept(passed))
    BY <1>1, <2>1 DEF RefsInv, LinesKnown, GotExactly, GotIs
  <2>3. TypeOK /\ sent \in Nat
    BY DEF RefsInv, TypeOK
  <2> HIDE DEF s
  <2>4. /\ n \in Output /\ s[1] = Line(n)
        /\ InOrder(Tail(s)) /\ Whole(Tail(s), sent) /\ Behind(Tail(s), sent)
        /\ Passed(Tail(s), sent) = passed \cup {n} /\ \A m \in passed : m < n
    BY <1>1, <1>2, <2>2, <2>3, ReadLine
  <2> HIDE DEF n, passed
  <2>5. CASE got' = got /\ ~filter(Line(n))
    <3>1. Kept(passed \cup {n}) = Kept(passed)
      BY <2>5 DEF Kept
    <3> QED
      BY <2>2, <2>4, <2>5, <3>1
  <2>6. CASE got' = Append(got, s[1]) /\ filter(Line(n))
    <3>1. Kept(passed \cup {n}) = Kept(passed) \cup {n}
      BY <2>6 DEF Kept
    <3>2. \A m \in Kept(passed) : m < n
      BY <2>4 DEF Kept
    <3>3. got \in Seq(Lines) /\ Line(n) \in Lines
      BY <1>2, <2>4 DEF RefsInv, ReaderKnown
    <3>4. GotIs(Append(got, Line(n)), Kept(passed) \cup {n})
      BY <2>2, <3>2, <3>3, GotAppend
    <3> QED
      BY <2>4, <2>6, <3>1, <3>4
  <2>7. Line(n).whole
    BY DEF Line
  <2>8. CASE SkipLine
    <3>1. got' = got /\ ~filter(s[1])
      BY <1>2, <2>4, <2>7, <2>8 DEF SkipLine, iterVars, s
    <3> QED
      BY <2>4, <2>5, <3>1
  <2>9. CASE NextTrue
    <3>1. got' = Append(got, s[1]) /\ filter(s[1])
      BY <1>2, <2>9 DEF NextTrue, s
    <3> QED
      BY <2>4, <2>6, <3>1
  <2>10. CASE ParseFails
    BY <1>2, <2>4, <2>7, <2>10 DEF ParseFails, s
  <2> QED
    BY <2>8, <2>9, <2>10
<1> QED
  BY <1>8, <1>9, <1>10, <1>11 DEF RefsInv

\* The steps of Next that read nothing.
LEMMA NextEnds ==
    ASSUME RefsInv, NextCalled \/ ScanEnds \/ NextWaits \/ NextFalse
    PROVE  RefsInv'
<1>1. CASE NextCalled
  <2> USE <1>1 DEF NextCalled, Goto, pipeVars, iterVars
  <2>1. TypeOK'
    BY ListingStays DEF RefsInv, TypeOK, PipeTypeOK
  <2>2. ReaderKnown'
    BY LeftStays DEF RefsInv, ReaderKnown
  <2>3. P \in readEnd
    BY DEF RefsInv, ReaderKnown
  <2>4. LinesKnown' /\ EndKnown'
    BY <2>3, LinesStay, EndStays DEF RefsInv
  <2> QED
    BY <2>1, <2>2, <2>4 DEF RefsInv
<1>2. CASE ScanEnds
  <2> USE <1>2 DEF ScanEnds, Goto, iterVars
  <2>1. /\ pipe[P] = <<>> /\ P \in readEnd /\ P \in Procs /\ UNCHANGED <<listing, sent, got>>
    BY DEF AtEOF, RefsInv, ReaderKnown
  <2>2. /\ pipe' = [pipe EXCEPT ![P] = <<>>] /\ readEnd' = readEnd \ {P}
        /\ UNCHANGED <<piper, ctxDone, writeEnd, reaped, watchers>>
        /\ proc' = [proc EXCEPT ![P] = proc[P]]
    BY <2>1 DEF CloseReadEnd
  <2>3. proc' = proc /\ pipe'[P] = <<>> /\ pipe' \in [Procs -> Seq(Lines)]
    BY <2>1, <2>2 DEF RefsInv, TypeOK, PipeTypeOK, ReaderKnown
  <2>4. TypeOK'
    <3>1. PipeTypeOK'
      BY <2>2, <2>3 DEF RefsInv, TypeOK, PipeTypeOK
    <3> QED
      BY <3>1, ListingStays DEF RefsInv, TypeOK
  <2>5. ReaderKnown'
    BY <2>1, <2>2, <2>3, LeftStays DEF RefsInv, ReaderKnown
  <2>6. LinesKnown' /\ EndKnown'
    BY <2>1, <2>3, LinesStay, EndStays DEF RefsInv
  <2> QED
    BY <2>4, <2>5, <2>6 DEF RefsInv
<1>3. CASE NextWaits
  <2> USE <1>3 DEF NextWaits, Wait
  <2>1. /\ UNCHANGED <<listing, sent, got, pipe, proc, readEnd>> /\ P \notin readEnd
        /\ user = "nextWait" /\ user' = IF CloseErr THEN "nextFails" ELSE "nextEnds"
    BY DEF RefsInv, ReaderKnown
  <2>2. TypeOK'
    BY ListingStays DEF RefsInv, TypeOK, PipeTypeOK
  <2>3. ReaderKnown'
    BY <2>1, LeftStays DEF RefsInv, ReaderKnown
  <2>4. LinesKnown'
    BY <2>1, LinesStay DEF RefsInv
  <2>5. EndKnown'
    <3>1. ~endedByNext /\ endedByNext' = endedByNext
      BY <2>1 DEF RefsInv, ReaderKnown
    <3>2. CASE CloseErr
      BY <2>1, <3>1, <3>2 DEF EndKnown
    <3>3. CASE ~CloseErr
      <4>1. proc[P] \in {"ok", "exit1"}
        BY <3>3 DEF CloseErr, IgnoredExit
      <4>2. Left = {} /\ pipe[P] = <<>>
        BY <2>1, <4>1 DEF RefsInv, ReaderKnown
      <4>3. Passed(<<>>, sent) = Output
        <5>1. Numbers(<<>>) = {}
          BY DEF Numbers
        <5>2. Output \subseteq Nat /\ sent \in Nat
          BY OutputIsNat DEF RefsInv, TypeOK
        <5>3. \A n \in Output : n <= sent
          BY <4>2, <5>2 DEF Left
        <5> QED
          BY <5>1, <5>3 DEF Passed
      <4>4. GotExactly(Kept(Output))
        BY <2>1, <4>1, <4>2, <4>3 DEF RefsInv, LinesKnown
      <4>5. GotExactly(Kept(Output))'
        BY <2>1, <4>4, ListingStays DEF GotExactly
      <4> QED
        BY <4>5 DEF EndKnown
    <3> QED
      BY <3>2, <3>3
  <2> QED
    BY <2>2, <2>3, <2>4, <2>5 DEF RefsInv
<1>4. CASE NextFalse
  <2> USE <1>4 DEF NextFalse, CancelContext
  <2>1. TypeOK'
    BY ListingStays DEF RefsInv, TypeOK, PipeTypeOK
  <2>2. ReaderKnown'
    BY LeftStays DEF RefsInv, ReaderKnown
  <2>3. LinesKnown'
    BY LinesStay DEF RefsInv
  <2>4. EndKnown'
    <3>1. user # "nextFails" => GotExactly(Kept(Output))
      BY DEF RefsInv, EndKnown
    <3>2. GotExactly(Kept(Output)) => GotExactly(Kept(Output))'
      <4>1. Kept(Output)' = Kept(Output) /\ got' = got /\ \A n : Line(n)' = Line(n)
        BY ListingStays
      <4> QED
        BY <4>1 DEF GotExactly
    <3> QED
      BY <3>1, <3>2 DEF EndKnown
  <2> QED
    BY <2>1, <2>2, <2>3, <2>4 DEF RefsInv
<1> QED
  BY <1>1, <1>2, <1>3, <1>4

LEMMA CloseSteps == ASSUME RefsInv, CloseCalled \/ CloseStep PROVE RefsInv'
<1>1. CASE CloseCalled
  <2> USE <1>1 DEF CloseCalled, Goto, CancelContext
  <2>1. TypeOK'
    BY ListingStays DEF RefsInv, TypeOK, PipeTypeOK
  <2>2. ReaderKnown'
    BY LeftStays DEF RefsInv, ReaderKnown
  <2>3. LinesKnown' /\ EndKnown'
    BY LinesStay, EndStays DEF RefsInv
  <2> QED
    BY <2>1, <2>2, <2>3 DEF RefsInv
<1>2. CASE ClosePipe
  <2> USE <1>2 DEF ClosePipe, Goto, iterVars
  <2>1. /\ pipe' = [pipe EXCEPT ![P] = <<>>] /\ readEnd' = readEnd \ {P}
        /\ UNCHANGED <<piper, ctxDone, writeEnd, reaped, watchers, listing, sent, got>>
        /\ proc' = proc \/ proc' = [proc EXCEPT ![P] = "failed"]
        /\ P \in Procs
    BY DEF CloseReadEnd, RefsInv, TypeOK, PipeTypeOK
  <2>2. pipe'[P] = <<>> /\ pipe' \in [Procs -> Seq(Lines)]
    BY <2>1 DEF RefsInv, ReaderKnown
  <2>3. proc' \in [Procs -> {"none", "running", "signalled"} \cup Exited]
    BY <2>1 DEF RefsInv, TypeOK, PipeTypeOK, Exited
  <2>4. TypeOK'
    <3>1. PipeTypeOK'
      BY <2>1, <2>3 DEF RefsInv, TypeOK, PipeTypeOK
    <3> QED
      BY <2>1, <3>1, ListingStays DEF RefsInv, TypeOK
  <2>5. ReaderKnown'
    <3>1. proc'[P] \in {"ok", "exit1"} => proc[P] \in {"ok", "exit1"}
      BY <2>1 DEF RefsInv, TypeOK, PipeTypeOK
    <3> QED
      BY <2>1, <2>2, <3>1, LeftStays DEF RefsInv, ReaderKnown
  <2>6. LinesKnown' /\ EndKnown'
    BY <2>1, EndStays DEF RefsInv, LinesKnown
  <2> QED
    BY <2>4, <2>5, <2>6 DEF RefsInv
<1>3. CASE CloseWaits
  <2> USE <1>3 DEF CloseWaits, Goto, Wait
  <2>1. TypeOK'
    BY ListingStays DEF RefsInv, TypeOK, PipeTypeOK
  <2>2. scanDone
    BY DEF RefsInv, ReaderKnown
  <2>3. ReaderKnown'
    BY <2>2, LeftStays DEF RefsInv, ReaderKnown
  <2>4. LinesKnown' /\ EndKnown'
    BY LinesStay, EndStays DEF RefsInv
  <2> QED
    BY <2>1, <2>3, <2>4 DEF RefsInv
<1>4. CASE CloseAgain
  <2> USE <1>4 DEF CloseAgain, Goto, pipeVars
  <2>1. TypeOK'
    BY ListingStays DEF RefsInv, TypeOK, PipeTypeOK
  <2>2. scanDone
    BY DEF RefsInv, ReaderKnown
  <2>3. ReaderKnown'
    BY <2>2, LeftStays DEF RefsInv, ReaderKnown
  <2>4. LinesKnown' /\ EndKnown'
    BY LinesStay, EndStays DEF RefsInv
  <2> QED
    BY <2>1, <2>3, <2>4 DEF RefsInv
<1> QED
  BY <1>1, <1>2, <1>3, <1>4 DEF CloseStep

(* Git's steps.                                                            *)
LEMMA GitWritesStep == ASSUME RefsInv, GitWrites PROVE RefsInv'
<1> PICK n \in Left : IsNext(n) /\ WriteChunk(P, Line(n)) /\ sent' = n
  BY DEF GitWrites
<1> DEFINE s == pipe[P]
           t == Append(s, Line(n))
<1>1. /\ UNCHANGED <<listing, user, iterVars>> /\ P \in readEnd /\ Running(P) /\ Len(s) < PipeCap
      /\ pipe' = [pipe EXCEPT ![P] = t]
      /\ UNCHANGED <<piper, ctxDone, proc, writeEnd, readEnd, reaped, watchers>>
  BY DEF GitWrites, WriteChunk
<1>2. UNCHANGED <<got, scanErr, scanDone, closer, hasResults, endedByNext, closeErr>>
  BY <1>1 DEF iterVars
<1>3. TypeOK /\ s \in Seq(Lines) /\ P \in Procs /\ proc[P] \notin {"none", "ok", "exit1", "failed"}
  BY <1>1 DEF RefsInv, ReaderKnown, Running
<1>4. n \in Output /\ Line(n) \in Lines /\ n \in 1..Len(repo) /\ Len(repo) \in Nat
  BY <1>3, LineTyped DEF Left, Output, TypeOK
<1>5. t \in Seq(Lines) /\ Len(t) = Len(s) + 1 /\ Len(s) \in Nat
  BY <1>3, <1>4, AppendFacts
<1> HIDE DEF t
<1>6. pipe'[P] = t /\ pipe' \in [Procs -> Seq(Lines)]
  BY <1>1, <1>3, <1>5 DEF RefsInv, ReaderKnown
<1>7. TypeOK'
  <2>1. PipeTypeOK'
    <3>1. \A p \in Procs : Len(pipe'[p]) <= PipeCap
      BY <1>1, <1>5, <1>6
    <3> QED
      BY <1>1, <3>1 DEF RefsInv, TypeOK, PipeTypeOK
  <2>2. sent' \in 0..Len(repo')
    BY <1>1, <1>4, ListingStays
  <2> QED
    BY <1>1, <1>2, <2>1, <2>2, ListingStays DEF RefsInv, TypeOK
<1>8. ReaderKnown'
  <2>1. user # "start"
    BY <1>3 DEF RefsInv, ReaderKnown
  <2> QED
    BY <1>1, <1>2, <1>3, <1>6, <2>1 DEF RefsInv, ReaderKnown
<1>9. LinesKnown'
  <2>1. InOrder(s) /\ Whole(s, sent) /\ Behind(s, sent) /\ GotIs(got, Kept(Passed(s, sent)))
    BY <1>1, <1>3 DEF RefsInv, LinesKnown, GotExactly, GotIs
  <2>2. InOrder(t) /\ Whole(t, n) /\ Behind(t, n) /\ Passed(t, n) = Passed(s, sent)
    BY <1>3, <2>1, WriteLine DEF t
  <2>3. GotIs(got, Kept(Passed(t, n)))
    BY <2>1, <2>2
  <2> QED
    BY <1>1, <1>2, <1>6, <2>2, <2>3, LinesThen
<1>10. EndKnown'
  BY <1>1, <1>2, EndStays DEF RefsInv
<1> QED
  BY <1>7, <1>8, <1>9, <1>10 DEF RefsInv

LEMMA GitStops == ASSUME RefsInv, GitStopsMidLine PROVE RefsInv'
<1> PICK n \in Left : StopsAfter(P, CutLine(n))
  BY DEF GitStopsMidLine
<1> DEFINE t == Append(pipe[P], CutLine(n))
<1>1. /\ UNCHANGED <<listing, sent, user, iterVars>> /\ P \in readEnd /\ Running(P)
      /\ Len(pipe[P]) < PipeCap
      /\ pipe' = [pipe EXCEPT ![P] = t] /\ proc' = [proc EXCEPT ![P] = "failed"]
      /\ writeEnd' = IF piper THEN writeEnd \ {P} ELSE writeEnd
      /\ UNCHANGED <<piper, ctxDone, readEnd, reaped, watchers>>
  BY DEF GitStopsMidLine, StopsAfter
<1>2. UNCHANGED <<got, scanErr, scanDone, closer, hasResults, endedByNext, closeErr>>
  BY <1>1 DEF iterVars
<1>3. /\ TypeOK /\ pipe[P] \in Seq(Lines) /\ P \in Procs /\ user # "start"
      /\ proc[P] \notin {"none", "ok", "exit1", "failed"}
  BY <1>1 DEF RefsInv, ReaderKnown, Running
<1>4. CutLine(n) \in Lines
  BY <1>3, LineTyped DEF Left
<1>5. t \in Seq(Lines) /\ Len(t) = Len(pipe[P]) + 1 /\ Len(pipe[P]) \in Nat
  BY <1>3, <1>4, AppendFacts
<1> HIDE DEF t
<1>6. pipe' \in [Procs -> Seq(Lines)] /\ pipe'[P] = t /\ proc'[P] = "failed"
  BY <1>1, <1>3, <1>5 DEF RefsInv, ReaderKnown, TypeOK, PipeTypeOK
<1>7. TypeOK'
  <2>1. proc' \in [Procs -> {"none", "running", "signalled"} \cup Exited]
    BY <1>1, <1>3 DEF TypeOK, PipeTypeOK, Exited
  <2>2. PipeTypeOK'
    <3>1. \A p \in Procs : Len(pipe'[p]) <= PipeCap
      BY <1>1, <1>5, <1>6
    <3> QED
      BY <1>1, <2>1, <3>1 DEF RefsInv, TypeOK, PipeTypeOK
  <2> QED
    BY <1>1, <1>2, <2>2, ListingStays DEF RefsInv, TypeOK
<1>8. ReaderKnown'
  BY <1>1, <1>2, <1>3, <1>6 DEF RefsInv, ReaderKnown
<1>9. LinesKnown' /\ EndKnown'
  BY <1>1, <1>2, <1>6, EndStays DEF RefsInv, LinesKnown
<1> QED
  BY <1>7, <1>8, <1>9 DEF RefsInv

\* A step after which only the process, its end of the pipe and its watcher
\* differ; it has exited with a status that says so only when all is written.
LEMMA ProcessSteps ==
    ASSUME RefsInv, UNCHANGED <<piper, ctxDone, pipe, readEnd, reaped, listing, sent, user, iterVars>>,
           writeEnd' \in SUBSET Procs, watchers' \in SUBSET Procs,
           proc' \in [Procs -> {"none", "running", "signalled"} \cup Exited],
           proc'[P] = "none" <=> proc[P] = "none", proc[P] = "failed" => proc'[P] = "failed",
           proc'[P] \in {"ok", "exit1"} => proc[P] \in {"ok", "exit1"} \/ Left = {}
    PROVE  RefsInv'
<1>1. UNCHANGED <<got, scanErr, scanDone, closer, hasResults, endedByNext, closeErr>>
  BY DEF iterVars
<1>2. TypeOK'
  <2>1. PipeTypeOK'
    BY DEF RefsInv, TypeOK, PipeTypeOK
  <2> QED
    BY <1>1, <2>1, ListingStays DEF RefsInv, TypeOK
<1>3. ReaderKnown'
  BY <1>1, LeftStays DEF RefsInv, ReaderKnown
<1>4. LinesKnown' /\ EndKnown'
  BY <1>1, LinesStay, EndStays DEF RefsInv
<1> QED
  BY <1>2, <1>3, <1>4 DEF RefsInv

LEMMA GitEndsStep == ASSUME RefsInv, GitEnds PROVE RefsInv'
<1>1. PICK status \in Exited : Exit(P, status) /\ (status \in {"ok", "exit1"} => Left = {})
  BY DEF GitEnds, WriteFails, Exited
<1>2. /\ UNCHANGED <<piper, ctxDone, pipe, readEnd, reaped, watchers, listing, sent, user, iterVars>>
      /\ Running(P) /\ proc' = [proc EXCEPT ![P] = status]
      /\ writeEnd' = IF piper THEN writeEnd \ {P} ELSE writeEnd
  BY <1>1 DEF GitEnds, Exit
<1>3. /\ P \in Procs /\ proc \in [Procs -> {"none", "running", "signalled"} \cup Exited]
      /\ writeEnd \in SUBSET Procs /\ watchers \in SUBSET Procs
  BY DEF RefsInv, TypeOK, PipeTypeOK
<1>4. proc'[P] = status /\ proc' \in [Procs -> {"none", "running", "signalled"} \cup Exited]
  BY <1>2, <1>3
<1>5. status # "none" /\ proc[P] # "none" /\ proc[P] # "failed"
  BY <1>2 DEF Exited, Running
<1> QED
  BY <1>1, <1>2, <1>3, <1>4, <1>5, ProcessSteps

LEMMA BackgroundStep == ASSUME RefsInv, Background PROVE RefsInv'
<1>1. /\ P \in Procs /\ proc \in [Procs -> {"none", "running", "signalled"} \cup Exited]
      /\ writeEnd \in SUBSET Procs /\ watchers \in SUBSET Procs
  BY DEF RefsInv, TypeOK, PipeTypeOK
<1>2. UNCHANGED <<piper, ctxDone, pipe, readEnd, reaped, listing, sent, user, iterVars>>
  BY DEF Background, Terminate, WatcherEnds, KilledBySignal, Exit
<1>3. writeEnd' \in SUBSET Procs /\ watchers' \in SUBSET Procs
  BY <1>1 DEF Background, Terminate, WatcherEnds, KilledBySignal, Exit
<1>4. \/ proc' = proc
      \/ proc[P] = "running" /\ proc' = [proc EXCEPT ![P] = "signalled"]
      \/ proc[P] = "signalled" /\ proc' = [proc EXCEPT ![P] = "failed"]
  BY <1>1 DEF Background, Terminate, WatcherEnds, KilledBySignal, Exit
<1>5. /\ proc' \in [Procs -> {"none", "running", "signalled"} \cup Exited]
      /\ proc'[P] = proc[P] \/ (proc[P] \in {"running", "signalled"} /\ proc'[P] \in {"signalled", "failed"})
  BY <1>1, <1>4 DEF Exited
<1> QED
  BY <1>2, <1>3, <1>5, ProcessSteps

LEMMA ContextStep == ASSUME RefsInv, CancelParent PROVE RefsInv'
<1> USE DEF CancelParent, CancelContext, iterVars
<1>1. TypeOK'
  BY ListingStays DEF RefsInv, TypeOK, PipeTypeOK
<1>2. ReaderKnown'
  BY LeftStays DEF RefsInv, ReaderKnown
<1>3. LinesKnown' /\ EndKnown'
  BY LinesStay, EndStays DEF RefsInv
<1> QED
  BY <1>1, <1>2, <1>3 DEF RefsInv

LEMMA StutterStep == ASSUME RefsInv, UNCHANGED vars PROVE RefsInv'
<1>1. /\ writeEnd' \in SUBSET Procs /\ watchers' \in SUBSET Procs
      /\ proc' \in [Procs -> {"none", "running", "signalled"} \cup Exited]
  BY DEF RefsInv, TypeOK, PipeTypeOK, vars, pipeVars
<1> QED
  BY <1>1, ProcessSteps DEF vars, pipeVars

-----------------------------------------------------------------------------

(* The inductive invariant: the types, what the reader and Git know of     *)
(* each other, and what of the output is where.                            *)
THEOREM RefsInvariant == Spec => []RefsInv
<1>1. RefsInv /\ [Next]_vars => RefsInv'
  <2> SUFFICES ASSUME RefsInv, [Next]_vars PROVE RefsInv'
    OBVIOUS
  <2>1. CASE IterateFails \/ Iterate
    BY <2>1, StartSteps
  <2>2. CASE SkipLine \/ NextTrue \/ ParseFails
    BY <2>2, NextReads
  <2>3. CASE NextCalled \/ ScanEnds \/ NextWaits \/ NextFalse
    BY <2>3, NextEnds
  <2>4. CASE CloseCalled \/ CloseStep
    BY <2>4, CloseSteps
  <2>5. CASE GitWrites \/ GitStopsMidLine \/ GitEnds
    BY <2>5, GitWritesStep, GitStops, GitEndsStep
  <2>6. CASE Background \/ CancelParent
    BY <2>6, BackgroundStep, ContextStep
  <2>7. CASE UNCHANGED vars
    BY <2>7, StutterStep
  <2> QED
    BY <2>1, <2>2, <2>3, <2>4, <2>5, <2>6, <2>7 DEF Next
<1> QED
  BY InitRefs, <1>1, PTL DEF Spec

(***************************************************************************)
(* RefIterator.Next and Close: a listing that ends without an error is the *)
(* whole listing, whatever Git failed of and wherever its output was cut.  *)
(***************************************************************************)
THEOREM RefsCleanEndIsComplete == Spec => []CleanEndIsComplete
<1>1. RefsInv => CleanEndIsComplete
  BY KeptIsWanted DEF RefsInv, EndKnown, CleanEndIsComplete
<1> QED
  BY RefsInvariant, <1>1, PTL

-----------------------------------------------------------------------------
(* Git.Cat.                                                                *)

HIDE IteratorAssumption

(* The bytes: while the read end is open, what was written was read or is  *)
(* in the pipe; afterwards nothing is written any more.                    *)
BytesKept ==
    /\ pipe \in [Procs -> Seq(Nat)]
    /\ CatGit \in readEnd => catGot + Len(pipe[CatGit]) = catSent
    /\ CatGit \notin readEnd => pipe[CatGit] = <<>>
    /\ proc[CatGit] = "none" => catSent = 0
    /\ proc[CatGit] = "ok" => catSent = size

(* The process: while it runs it holds the write end; Wait returns after   *)
(* its end.                                                                *)
ProcessKnown ==
    /\ Running(CatGit) => CatGit \in writeEnd
    /\ CatGit \in reaped => proc[CatGit] \in Exited

(* The reader's end of the pipe in every state of the user.                *)
UserKnown ==
    /\ catUser = "start" => proc[CatGit] = "none" /\ CatGit \notin readEnd /\ catGot = 0
    /\ catUser \in {"first", "catWait", "reading", "closeWait"} => proc[CatGit] # "none"
    /\ catUser = "first" => CatGit \in readEnd /\ catGot = 0
    /\ catUser = "reading" => CatGit \in readEnd
    /\ catUser \in {"catWait", "closeWait"} => CatGit \notin readEnd
    /\ catUser = "catWait" => catSent = 0
    /\ catUser = "done" => proc[CatGit] = "none" \/ CatGit \in reaped

(* What the end of the output and the results say.                         *)
ResultKnown ==
    /\ sawEOF => catGot = catSent /\ proc[CatGit] \in Exited
    /\ result \in {"empty", "closed"} => catUser = "done"
    /\ result = "empty" => size = 0
    /\ result = "closed" => proc[CatGit] = "ok"

CatInv == CatTypeOK /\ BytesKept /\ ProcessKnown /\ UserKnown /\ ResultKnown

USE CatAssumption, PipeAssumption

LEMMA InitCat == CatInit => CatInv
<1> SUFFICES ASSUME CatInit PROVE CatInv
  OBVIOUS
<1> USE DEF CatInit, PipeInit
<1>1. pipe \in [Procs -> Seq(Nat)] /\ pipe[CatGit] = <<>> /\ Len(pipe[CatGit]) = 0
  OBVIOUS
<1>2. PipeTypeOK
  <2>1. proc \in [Procs -> {"none", "running", "signalled"} \cup Exited]
    OBVIOUS
  <2>2. \A p \in Procs : Len(pipe[p]) <= PipeCap
    BY <1>1
  <2> QED
    BY <2>1, <2>2, Zenon DEF PipeTypeOK
<1>3. CatTypeOK
  <2>1. size \in 0..MaxChunks /\ catSent \in 0..size /\ catGot \in 0..catSent
    OBVIOUS
  <2> QED
    BY <1>2, <2>1 DEF CatTypeOK
<1>4. BytesKept /\ ProcessKnown
  BY <1>1 DEF BytesKept, ProcessKnown, Running, Exited
<1>5. UserKnown /\ ResultKnown
  BY DEF UserKnown, ResultKnown
<1> QED
  BY <1>3, <1>4, <1>5 DEF CatInv

LEMMA StepCat == CatInv /\ [CatNext]_catVars => CatInv'
<1> SUFFICES ASSUME CatInv, [CatNext]_catVars PROVE CatInv'
  OBVIOUS
<1> USE DEF CatInv, CatTypeOK, PipeTypeOK, BytesKept, ProcessKnown, UserKnown, ResultKnown,
            Exited, Running, CatGoto
<1>1. CASE CatStarts
  BY <1>1 DEF CatStarts, StartPipe
<1>2. CASE CatReadsFirst
  BY <1>2 DEF CatReadsFirst, ReadChunk
<1>3. CASE CatReadsNothing
  BY <1>3 DEF CatReadsNothing, AtEOF, CloseReadEnd
<1>4. CASE CatReturns
  BY <1>4 DEF CatReturns, Wait
<1>5. CASE CloseReturns
  BY <1>5 DEF CloseReturns, Wait
<1>6. CASE CatRefused
  BY <1>6 DEF CatRefused, pipeVars
<1>7. CASE Read
  BY <1>7 DEF Read, ReadChunk
<1>8. CASE ReadEnds
  BY <1>8 DEF ReadEnds, AtEOF, pipeVars
<1>9. CASE Close
  BY <1>9 DEF Close, CloseReadEnd
<1>10. CASE GitWritesBlob
  <2>1. /\ pipe' \in [Procs -> Seq(Nat)]
        /\ Len(pipe'[CatGit]) = Len(pipe[CatGit]) + 1
    BY <1>10 DEF GitWritesBlob, WriteChunk
  <2>2. CatTypeOK'
    <3>1. PipeTypeOK'
      BY <1>10, <2>1 DEF GitWritesBlob, WriteChunk
    <3>2. catSent' \in 0..size' /\ catGot' \in 0..catSent'
      BY <1>10 DEF GitWritesBlob, WriteChunk, userVars
    <3> QED
      BY <1>10, <3>1, <3>2 DEF GitWritesBlob, WriteChunk, userVars
  <2>3. catGot' + Len(pipe'[CatGit]) = catSent'
    <3>1. catSent' = catSent + 1 /\ catGot' = catGot /\ CatGit \in readEnd
      BY <1>10 DEF GitWritesBlob, WriteChunk, userVars
    <3>2. catGot + Len(pipe[CatGit]) = catSent /\ catGot \in Nat /\ Len(pipe[CatGit]) \in Nat
      BY <3>1
    <3> QED
      BY ONLY <2>1, <3>1, <3>2
  <2>4. BytesKept' /\ ProcessKnown'
    <3>1. CatGit \in readEnd' /\ Running(CatGit) /\ proc' = proc /\ writeEnd' = writeEnd /\ reaped' = reaped
      BY <1>10 DEF GitWritesBlob, WriteChunk
    <3>2. BytesKept'
      <4>1. proc'[CatGit] \notin {"none", "ok"}
        BY <3>1
      <4> QED
        BY <2>1, <2>3, <3>1, <4>1
    <3>3. ProcessKnown'
      BY <3>1
    <3> QED
      BY <3>2, <3>3
  <2>5. UserKnown' /\ ResultKnown'
    BY <1>10 DEF GitWritesBlob, WriteChunk, userVars
  <2> QED
    BY <2>2, <2>4, <2>5
<1>11. CASE GitWriteFails
  BY <1>11 DEF GitWriteFails, WriteFails, Exit, userVars
<1>12. CASE GitSucceeds
  BY <1>12 DEF GitSucceeds, Exit, userVars
<1>13. CASE GitFails
  BY <1>13 DEF GitFails, Exit, userVars
<1>14. CASE CatBackground
  <2>1. CASE Terminate(CatGit) /\ UNCHANGED <<userVars, catSent, catUser>>
    BY <2>1 DEF Terminate, userVars
  <2>2. CASE WatcherEnds(CatGit) /\ UNCHANGED <<userVars, catSent, catUser>>
    BY <2>2 DEF WatcherEnds, userVars
  <2>3. CASE KilledBySignal(CatGit) /\ UNCHANGED <<userVars, catSent, catUser>>
    BY <2>3 DEF KilledBySignal, Exit, userVars
  <2>4. CASE RunGitReturns(CatGit) /\ UNCHANGED <<userVars, catSent, catUser>>
    BY <2>4 DEF RunGitReturns, userVars
  <2> QED
    BY <1>14, <2>1, <2>2, <2>3, <2>4 DEF CatBackground
<1>15. CASE Cancel
  BY <1>15 DEF Cancel, CancelContext, userVars
<1>16. CASE UNCHANGED catVars
  BY <1>16 DEF catVars, pipeVars
<1> QED
  BY <1>1, <1>2, <1>3, <1>4, <1>5, <1>6, <1>7, <1>8, <1>9, <1>10, <1>11, <1>12, <1>13,
     <1>14, <1>15, <1>16 DEF CatNext, CatSteps

(***************************************************************************)
(* Git.Cat's state keeps its types and the relations above.                *)
(***************************************************************************)
THEOREM CatTypeCorrect == CatSpec => []CatInv
<1> QED
  BY InitCat, StepCat, PTL DEF CatSpec

(***************************************************************************)
(* An empty reader of Git.Cat is an empty blob; a reader whose end was     *)
(* seen and whose Close returned nil gave the whole blob.                  *)
(***************************************************************************)
THEOREM CatWholeFile == CatSpec => []WholeFile
<1>1. CatInv => WholeFile
  BY DEF CatInv, ResultKnown, BytesKept, WholeFile
<1> QED
  BY <1>1, CatTypeCorrect, PTL

(***************************************************************************)
(* When Cat has failed or Close has returned, Git has been waited for.     *)
(***************************************************************************)
THEOREM CatNothingLeft == CatSpec => []NothingLeft
<1>1. CatInv => NothingLeft
  BY DEF CatInv, CatTypeOK, PipeTypeOK, UserKnown, ProcessKnown, NothingLeft, Running, Exited
<1> QED
  BY <1>1, CatTypeCorrect, PTL
=============================================================================
