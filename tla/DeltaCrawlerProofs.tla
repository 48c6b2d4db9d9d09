------------------------- MODULE DeltaCrawlerProofs -------------------------
(***************************************************************************)
(* Proofs about DeltaCrawler, for every number of entries, every set of    *)
(* packfiles and every number of indexers.                                 *)
(***************************************************************************)
EXTENDS DeltaCrawler, FiniteSetTheorems, TLAPS

-----------------------------------------------------------------------------
(* The inductive invariant, in parts that each need the ones before.       *)

Deltas == {o \in Entries : pack[o].kind # "base"}

(* The goroutines that were started and have not called wg.Done. *)
Live == {o \in Entries : cpc[o] \notin {"idle", "done", "failed"}}

Types ==
    /\ pack \in Packs
    /\ pack \in [Entries -> EntryRecs]
    /\ next \in 1..(NumEntries + 1)
    /\ base \in SUBSET Entries
    /\ rootOffsets \in Seq(Entries)
    /\ ri \in Nat \ {0}
    /\ byOffset \in [Offsets -> SUBSET Entries]
    /\ byId \in [AllIds -> SUBSET Entries]
    /\ newIndex \in [Entries -> Seq(AllIds)]
    /\ main \in MainPCs
    /\ todo \in SUBSET Entries
    /\ todoBase \in AllIds
    /\ sem \in Nat
    /\ wg \in Int
    /\ err \in BOOLEAN
    /\ cpc \in [Entries -> CrawlPCs]
    /\ cbase \in [Entries -> AllIds]
    /\ ckids \in [Entries -> SUBSET Entries]

(* Where an entry is while nothing crawls it: in one of these places only. *)
InOffsetMap ==
    \A b \in Offsets : \A k \in byOffset[b] :
        pack[k].kind = "ofs" /\ pack[k].baseOff = b /\ cpc[k] = "idle" /\ k < next

InIdMap ==
    \A i \in AllIds : \A k \in byId[i] :
        pack[k].kind = "ref" /\ pack[k].baseId = i /\ cpc[k] = "idle" /\ k < next

Unmapped(k) ==
    /\ k \in Deltas /\ cpc[k] = "idle"
    /\ \A b \in Offsets : k \notin byOffset[b]
    /\ \A i \in AllIds : k \notin byId[i]

InTodo == \A k \in todo : Unmapped(k) /\ \A o \in Entries : k \notin ckids[o]

InKids ==
    \A o \in Entries : \A k \in ckids[o] :
        Unmapped(k) /\ \A q \in Entries : k \in ckids[q] => q = o

Places == InOffsetMap /\ InIdMap /\ InTodo /\ InKids

(* What the position of each goroutine says of the rest. *)
ScanIsAlone ==
    main = "scan" => todo = {} /\ ~err /\ \A o \in Entries : cpc[o] = "idle"

MainPhases ==
    /\ main \notin {"roots", "ids", "drain", "err"} => todo = {}
    /\ main \notin {"scan", "err"} => next = NumEntries + 1
    /\ main \in {"ok", "err"} => Live = {}
    /\ main = "ok" => ~err

KidsWait == \A o \in Entries : (cpc[o] \in {"handoff", "spawn"}) <=> (ckids[o] # {})

CrawlPhases ==
    /\ \A o \in Entries : cpc[o] # "idle" => o \in Deltas
    /\ \A o \in Entries : cpc[o] \in {"exitFailed", "failed"} => err

BasesScanned ==
    /\ base = {o \in Entries : o < next /\ pack[o].kind = "base"}
    /\ \A j \in 1..Len(rootOffsets) : rootOffsets[j] \in base

Phases == ScanIsAlone /\ MainPhases /\ KidsWait /\ CrawlPhases /\ BasesScanned

(* The WaitGroup counts the live goroutines, and no indexer is lost. *)
Counts ==
    /\ wg = Cardinality(Live)
    /\ sem + Cardinality(Holders) = NumIndexers

(* A row is right, and everything about to be crawled has its base. *)
Ready(k, baseId) == baseId = TrueBase(k) /\ Abstract!HasBaseIn(Indexed, k)

RowsRight ==
    \A o \in Entries : newIndex[o] = <<>> \/ newIndex[o] = <<pack[o].id>>

RowsWhen ==
    \A o \in Entries : newIndex[o] # <<>> <=>
        o \in base \/ cpc[o] \in {"release", "handoff", "spawn", "exit", "done"}

AllReady ==
    /\ \A o \in Entries : cpc[o] # "idle" => Ready(o, cbase[o])
    /\ \A k \in todo : Ready(k, todoBase)
    /\ \A o \in Entries : \A k \in ckids[o] : Ready(k, pack[o].id)

RowsResolvable == Indexed \subseteq Abstract!Resolvable

Sound == RowsRight /\ RowsWhen /\ AllReady /\ RowsResolvable

(* A delta that is in no place was crawled, and nothing waits for a base   *)
(* that will not be visited again.                                         *)
Placed(o) ==
    \/ o \in byOffset[pack[o].baseOff]
    \/ o \in byId[pack[o].baseId]
    \/ o \in todo
    \/ \E p \in Entries : o \in ckids[p]
    \/ cpc[o] # "idle"

NoneForgotten ==
    main \notin {"drain", "err"} => \A o \in Deltas : o < next => Placed(o)

RootsListed ==
    /\ main = "scan" => ri = 1
    /\ main \in {"scan", "roots"} =>
          \A b \in base : byOffset[b] # {} =>
              \E j \in 1..Len(rootOffsets) : ri <= j /\ rootOffsets[j] = b

RootsVisited == main \in {"ids", "wait", "ok"} => \A b \in base : byOffset[b] = {}

IdsVisited == main \in {"wait", "ok"} => \A i \in BaseIds : byId[i] = {}

DeltasVisited ==
    \A o \in Deltas : newIndex[o] # <<>> => byOffset[o] = {} /\ byId[pack[o].id] = {}

Complete == NoneForgotten /\ RootsListed /\ RootsVisited /\ IdsVisited /\ DeltasVisited

IInv == Types /\ Places /\ Phases /\ Counts /\ Sound /\ Complete

-----------------------------------------------------------------------------
(* Types. *)

(* The record of an entry, from the assumption on the packfiles. *)
LEMMA EntryFields ==
    ASSUME Types, NEW o \in Entries
    PROVE  /\ pack[o].kind \in {"base", "ofs", "ref"}
           /\ pack[o].id \in Ids
           /\ pack[o].baseOff \in Offsets
           /\ pack[o].baseId \in Ids
BY DEF Types, EntryRecs

(* What a goroutine computes is an object ID. *)
LEMMA UndeltifyType ==
    ASSUME Types, NEW o \in Entries, NEW b
    PROVE  Undeltify(b, o) \in AllIds
BY EntryFields DEF Undeltify, AllIds

(* The initial state has the declared types. *)
LEMMA InitTypes == Init => Types
<1> SUFFICES ASSUME Init PROVE Types
    OBVIOUS
<1>1. pack \in Packs /\ pack \in [Entries -> EntryRecs]
    BY PacksAssumption DEF Init
<1>3. /\ byOffset \in [Offsets -> SUBSET Entries]
      /\ byId \in [AllIds -> SUBSET Entries]
      /\ newIndex \in [Entries -> Seq(AllIds)]
      /\ cpc \in [Entries -> CrawlPCs]
      /\ cbase \in [Entries -> AllIds]
      /\ ckids \in [Entries -> SUBSET Entries]
    BY DEF Init, AllIds, CrawlPCs
<1>4. next \in 1..(NumEntries + 1) /\ sem \in Nat /\ rootOffsets \in Seq(Entries)
    BY SizesAssumption DEF Init
<1>5. /\ base \in SUBSET Entries /\ todo \in SUBSET Entries
      /\ ri \in Nat \ {0} /\ wg \in Int
      /\ main \in MainPCs /\ todoBase \in AllIds
    BY DEF Init, AllIds, MainPCs
<1>6. err \in BOOLEAN
    BY Zenon DEF Init
<1> QED
    BY <1>1, <1>3, <1>4, <1>5, <1>6 DEF Types

(* No step of BuildIndex or of a goroutine breaks the types. *)
LEMMA NextTypes == Types /\ [Next]_vars => Types'
<1> SUFFICES ASSUME Types, [Next]_vars PROVE Types'
    OBVIOUS
<1> USE DEF Types, vars, scanVars, mainVars, mapVars, crawlVars, MainPCs, CrawlPCs
<1>0. \A o \in Entries : pack[o].baseOff \in Offsets /\ pack[o].id \in AllIds
                        /\ pack[o].baseId \in AllIds
    BY EntryFields DEF AllIds
<1>n. NumEntries \in Nat
    BY SizesAssumption
<1>1. CASE ScanBase
    <2>1. newIndex' \in [Entries -> Seq(AllIds)]
        BY <1>0, <1>1 DEF ScanBase
    <2>2. next' \in 1..(NumEntries + 1)
        BY <1>1, <1>n DEF ScanBase, Entries
    <2> QED BY <1>1, <2>1, <2>2 DEF ScanBase
<1>2. CASE ScanOffsetDelta
    <2> DEFINE b == pack[next].baseOff
    <2>0. b \in Offsets
        BY <1>0, <1>2 DEF ScanOffsetDelta
    <2>1. CASE b \in base /\ pack[b].big
        BY <1>2, <2>1 DEF ScanOffsetDelta
    <2>2. CASE ~(b \in base /\ pack[b].big)
        <3>1. next' \in 1..(NumEntries + 1)
            BY <1>2, <1>n, <2>2 DEF ScanOffsetDelta, Entries
        <3>2. byOffset' \in [Offsets -> SUBSET Entries]
            BY <1>2, <2>0, <2>2 DEF ScanOffsetDelta
        <3>3. rootOffsets' \in Seq(Entries)
            <4>1. rootOffsets' = IF b \in base THEN Append(rootOffsets, b) ELSE rootOffsets
                BY <1>2, <2>2 DEF ScanOffsetDelta
            <4> QED BY <4>1
        <3> QED BY <1>2, <2>2, <3>1, <3>2, <3>3 DEF ScanOffsetDelta
    <2> QED BY <2>1, <2>2
<1>3. CASE ScanRefDelta
    <2>1. next' \in 1..(NumEntries + 1)
        BY <1>3, <1>n DEF ScanRefDelta, Entries
    <2>2. byId' \in [AllIds -> SUBSET Entries]
        BY <1>0, <1>3 DEF ScanRefDelta
    <2> QED BY <1>3, <2>1, <2>2 DEF ScanRefDelta
<1>4. CASE ScanEnds
    BY <1>4 DEF ScanEnds
<1>5. CASE VisitRoot
    <2>1. rootOffsets[ri] \in Entries
        BY <1>5 DEF VisitRoot
    <2>2. rootOffsets[ri] \in Offsets
        BY <2>1, <1>n DEF Entries, Offsets
    <2> QED BY <1>0, <1>5, <2>1, <2>2 DEF VisitRoot
<1>6. CASE RootsDone
    BY <1>6 DEF RootsDone
<1>7. ASSUME NEW i \in AllIds, TakeId(i) PROVE Types'
    BY <1>7 DEF TakeId
<1>8. CASE IdsDone
    BY <1>8 DEF IdsDone
<1>9. ASSUME NEW o \in Entries, StartChild(o) PROVE Types'
    BY <1>9 DEF StartChild, StartGoroutine
<1>10. CASE Return
    BY <1>10 DEF Return
<1>11. ASSUME NEW o \in Entries, Process(o) PROVE Types'
    <2> DEFINE id == Undeltify(cbase[o], o)
    <2>1. id \in AllIds
        BY UndeltifyType
    <2>2. o \in Offsets
        BY <1>n DEF Entries, Offsets
    <2>3. newIndex' \in [Entries -> Seq(AllIds)]
        BY <1>11, <2>1 DEF Process
    <2>4. /\ byOffset' \in [Offsets -> SUBSET Entries]
          /\ byId' \in [AllIds -> SUBSET Entries]
        BY <1>11, <2>1, <2>2 DEF Process
    <2>5. ckids' \in [Entries -> SUBSET Entries]
        BY <1>11, <2>1, <2>2 DEF Process
    <2>6. cpc' \in [Entries -> CrawlPCs]
        BY <1>11 DEF Process
    <2> QED BY <1>11, <2>3, <2>4, <2>5, <2>6 DEF Process
<1>12. ASSUME NEW o \in Entries, Release(o) PROVE Types'
    BY <1>12 DEF Release
<1>13. ASSUME NEW o \in Entries, Report(o) PROVE Types'
    BY <1>13 DEF Report
<1>14. ASSUME NEW o \in Entries, HandOff(o) PROVE Types'
    <2>1. PICK k \in ckids[o] :
             /\ StartGoroutine(k, Undeltify(cbase[o], o))
             /\ ckids' = [ckids EXCEPT ![o] = @ \ {k}]
             /\ cpc' = [cpc EXCEPT ![k] = "process",
                                   ![o] = IF ckids[o] = {k} THEN "exit" ELSE "spawn"]
        BY <1>14 DEF HandOff
    <2>2. cbase' \in [Entries -> AllIds] /\ wg' \in Int
        BY <2>1, UndeltifyType DEF StartGoroutine
    <2>3. ckids' \in [Entries -> SUBSET Entries] /\ cpc' \in [Entries -> CrawlPCs]
        BY <2>1
    <2>4. UNCHANGED <<pack, scanVars, mainVars, mapVars, sem, err>>
        BY <1>14 DEF HandOff
    <2> QED BY <2>2, <2>3, <2>4
<1>15. ASSUME NEW o \in Entries, SpawnNext(o) PROVE Types'
    <2>1. PICK k \in ckids[o] :
             /\ StartGoroutine(k, Undeltify(cbase[o], o))
             /\ ckids' = [ckids EXCEPT ![o] = @ \ {k}]
             /\ cpc' = [cpc EXCEPT ![k] = "process",
                                   ![o] = IF ckids[o] = {k} THEN "exit" ELSE "spawn"]
        BY <1>15 DEF SpawnNext
    <2>2. cbase' \in [Entries -> AllIds] /\ wg' \in Int
        BY <2>1, UndeltifyType DEF StartGoroutine
    <2>3. ckids' \in [Entries -> SUBSET Entries] /\ cpc' \in [Entries -> CrawlPCs]
        BY <2>1
    <2>4. /\ sem' \in Nat
          /\ UNCHANGED <<pack, scanVars, mainVars, mapVars, err>>
        BY <1>15 DEF SpawnNext
    <2> QED BY <2>2, <2>3, <2>4
<1>16. ASSUME NEW o \in Entries, Exit(o) PROVE Types'
    BY <1>16 DEF Exit
<1>17. CASE ScanFails
    BY <1>17 DEF ScanFails
<1>18. CASE ReadRootFails
    BY <1>18 DEF ReadRootFails
<1>19. ASSUME NEW i \in AllIds, ReadIdFails(i) PROVE Types'
    BY <1>19 DEF ReadIdFails
<1>20. ASSUME NEW o \in Entries, ProcessFails(o) PROVE Types'
    BY <1>20 DEF ProcessFails
<1>21. CASE UNCHANGED vars
    BY <1>21
<1> QED
    BY <1>1, <1>2, <1>3, <1>4, <1>5, <1>6, <1>7, <1>8, <1>9, <1>10, <1>11, <1>12,
       <1>13, <1>14, <1>15, <1>16, <1>17, <1>18, <1>19, <1>20, <1>21
       DEF Next, BuildIndex, Crawl, Failure, Returned
-----------------------------------------------------------------------------
(* Places. *)

LEMMA NextPlaces ==
    Types /\ Types' /\ Places /\ Phases /\ [Next]_vars => Places'
<1> SUFFICES ASSUME Types, Types', Places, Phases, [Next]_vars PROVE Places'
    OBVIOUS
<1> USE DEF vars, scanVars, mainVars, mapVars, crawlVars,
            Places, InOffsetMap, InIdMap, InTodo, InKids, Unmapped
<1>t. /\ byOffset \in [Offsets -> SUBSET Entries] /\ byId \in [AllIds -> SUBSET Entries]
      /\ todo \in SUBSET Entries /\ ckids \in [Entries -> SUBSET Entries]
      /\ cpc \in [Entries -> CrawlPCs]
    BY DEF Types
<1>d. \A o \in Entries : o \in Deltas <=> pack[o].kind # "base"
    BY DEF Deltas
<1>p. pack' = pack => Deltas' = Deltas
    BY DEF Deltas
<1>n. /\ NumEntries \in Nat
      /\ next \in Int /\ next' \in Int
      /\ \A o \in Entries : o \in Int /\ o \in Offsets
    BY SizesAssumption DEF Entries, Offsets, Types
<1>0. \A o \in Entries : pack[o].baseOff \in Offsets /\ pack[o].id \in AllIds
                        /\ pack[o].baseId \in AllIds
    BY EntryFields DEF AllIds
(* Nothing moves. *)
<1>q. ASSUME UNCHANGED <<pack, next, byOffset, byId, todo, ckids>>,
             \A o \in Entries : cpc[o] = "idle" => cpc'[o] = "idle"
      PROVE  Places'
    BY <1>q, <1>t, <1>p
<1>1. CASE ScanBase
    <2>1. next' = next + 1 /\ UNCHANGED <<pack, byOffset, byId, todo, ckids, cpc>>
        BY <1>1 DEF ScanBase
    <2> QED BY <1>t, <1>p, <1>d, <1>n, <2>1
(* While the packfile is scanned no child is anywhere but in the maps. *)
<1>s. main = "scan" => /\ todo = {}
                       /\ \A o \in Entries : ckids[o] = {} /\ cpc[o] = "idle"
    BY <1>t DEF Phases, ScanIsAlone, KidsWait
<1>2. CASE ScanOffsetDelta
    <2>1. CASE main' = "err"
        BY <1>2, <2>1, <1>q, <1>s DEF ScanOffsetDelta
    <2>2. CASE main' # "err"
        <3> DEFINE b == pack[next].baseOff
        <3>1. /\ b \in Offsets /\ next \in Entries /\ main = "scan" /\ next' = next + 1
              /\ pack[next].kind = "ofs"
              /\ byOffset' = [byOffset EXCEPT ![b] = @ \cup {next}]
              /\ UNCHANGED <<pack, byId, todo, ckids, cpc>>
            BY <1>2, <2>2, <1>0 DEF ScanOffsetDelta
        <3>2. InOffsetMap'
            <4> SUFFICES ASSUME NEW c \in Offsets, NEW k \in byOffset'[c]
                         PROVE  /\ pack[k].kind = "ofs" /\ pack[k].baseOff = c
                                /\ cpc[k] = "idle" /\ k < next + 1
                BY <3>1
            <4>1. k \in byOffset[c] \/ (k = next /\ c = b)
                BY <1>t, <3>1
            <4> QED BY <4>1, <1>t, <1>n, <1>s, <3>1
        <3>3. InIdMap'
            BY <1>t, <1>p, <1>d, <3>1, <1>n
        <3> QED BY <1>t, <1>p, <1>d, <3>1, <3>2, <3>3, <1>s
    <2> QED BY <1>t, <1>p, <1>d, <2>1, <2>2
<1>3. CASE ScanRefDelta
    <2> DEFINE i == pack[next].baseId
    <2>1. /\ i \in AllIds /\ next \in Entries /\ main = "scan" /\ next' = next + 1
          /\ pack[next].kind = "ref"
          /\ byId' = [byId EXCEPT ![i] = @ \cup {next}]
          /\ UNCHANGED <<pack, byOffset, todo, ckids, cpc>>
        BY <1>3, <1>0 DEF ScanRefDelta
    <2>2. InOffsetMap'
        <3> SUFFICES ASSUME NEW c \in Offsets, NEW k \in byOffset[c]
                     PROVE  /\ pack[k].kind = "ofs" /\ pack[k].baseOff = c
                            /\ cpc[k] = "idle" /\ k < next + 1
            BY <2>1
        <3> QED BY <1>t, <1>n
    <2>3. InIdMap'
        BY <1>t, <1>p, <1>d, <2>1, <1>n, <1>s
    <2>4. InTodo' /\ InKids'
        BY <2>1, <1>s
    <2> QED BY <2>2, <2>3, <2>4
<1>4. CASE ScanEnds
    BY <1>4, <1>q DEF ScanEnds
<1>5. CASE VisitRoot
    <2> DEFINE r == rootOffsets[ri]
    <2>1. r \in Entries
        BY <1>5 DEF VisitRoot, Types
    <2>2. /\ todo' = byOffset[r]
          /\ byOffset' = [byOffset EXCEPT ![r] = {}]
          /\ UNCHANGED <<pack, next, byId, ckids, cpc>>
        BY <1>5 DEF VisitRoot
    <2>3. \A k \in Entries : \A b \in Offsets : k \in byOffset'[b] => k \in byOffset[b] /\ b # r
        BY <1>t, <1>p, <1>d, <2>1, <2>2, <1>n
    <2>4. InTodo'
        BY <1>t, <1>p, <1>d, <2>1, <2>2, <2>3, <1>n
    <2>5. InOffsetMap' /\ InIdMap'
        BY <2>2, <2>3, <1>t
    <2>6. InKids'
        BY <1>t, <1>p, <2>2, <2>3
    <2> QED BY <2>4, <2>5, <2>6
<1>6. CASE RootsDone
    BY <1>6, <1>q DEF RootsDone
<1>7. ASSUME NEW i \in AllIds, TakeId(i) PROVE Places'
    <2>1. /\ todo' = byId[i] /\ byId' = [byId EXCEPT ![i] = {}]
          /\ UNCHANGED <<pack, next, byOffset, ckids, cpc>>
        BY <1>7 DEF TakeId
    <2>2. \A k \in Entries : \A j \in AllIds : k \in byId'[j] => k \in byId[j] /\ j # i
        BY <1>t, <1>p, <1>d, <2>1
    <2>3. InTodo'
        BY <1>t, <1>p, <1>d, <2>1, <2>2
    <2> QED BY <1>t, <1>p, <1>d, <2>1, <2>2, <2>3
<1>8. CASE IdsDone
    BY <1>8, <1>q DEF IdsDone
<1>9. ASSUME NEW o \in Entries, StartChild(o) PROVE Places'
    <2>1. /\ o \in todo /\ todo' = todo \ {o} /\ cpc' = [cpc EXCEPT ![o] = "process"]
          /\ UNCHANGED <<pack, next, byOffset, byId, ckids>>
        BY <1>9 DEF StartChild
    <2> QED BY <1>t, <1>p, <1>d, <2>1
<1>10. CASE Return
    BY <1>10, <1>q DEF Return
<1>11. ASSUME NEW o \in Entries, Process(o) PROVE Places'
    <2> DEFINE id == Undeltify(cbase[o], o)
    <2>1. id \in AllIds /\ o \in Offsets
        BY <1>t, <1>p, <1>d, UndeltifyType, <1>n
    <2>2. /\ cpc[o] = "process" /\ cpc'[o] # "idle"
          /\ \A q \in Entries \ {o} : cpc'[q] = cpc[q]
          /\ byOffset' = [byOffset EXCEPT ![o] = {}]
          /\ byId' = [byId EXCEPT ![id] = {}]
          /\ ckids' = [ckids EXCEPT ![o] = byOffset[o] \cup byId[id]]
          /\ UNCHANGED <<pack, next, todo>>
        BY <1>11 DEF Process
    <2>3. /\ \A k \in Entries : \A b \in Offsets : k \in byOffset'[b] => k \in byOffset[b] /\ b # o
          /\ \A k \in Entries : \A j \in AllIds : k \in byId'[j] => k \in byId[j] /\ j # id
        BY <1>t, <1>p, <1>d, <2>1, <2>2
    <2>4. InOffsetMap' /\ InIdMap'
        BY <1>t, <1>p, <1>d, <2>2, <2>3
    <2>5. ckids[o] = {}
        BY <2>2 DEF Phases, KidsWait
    <2>6. \A k \in ckids'[o] : Unmapped(k)' /\ k \notin todo /\ \A q \in Entries : k \notin ckids[q]
        BY <1>t, <1>p, <1>d, <2>1, <2>2, <2>3
    <2>7. InTodo'
        BY <1>t, <1>p, <1>d, <2>2, <2>3, <2>6
    <2>8. InKids'
        <3> SUFFICES ASSUME NEW p \in Entries, NEW k \in ckids'[p]
                     PROVE  Unmapped(k)' /\ \A q \in Entries : k \in ckids'[q] => q = p
            OBVIOUS
        <3>1. CASE p = o
            BY <1>t, <1>p, <1>d, <3>1, <2>2, <2>6
        <3>2. CASE p # o
            <4>1. k \in ckids[p] /\ Unmapped(k)
                BY <1>t, <1>p, <1>d, <3>2, <2>2
            <4> QED BY <1>t, <1>p, <1>d, <4>1, <3>2, <2>2, <2>3, <2>6
        <3> QED BY <1>t, <1>p, <1>d, <3>1, <3>2
    <2> QED BY <1>t, <1>p, <1>d, <2>4, <2>7, <2>8
<1>12. ASSUME NEW o \in Entries, Release(o) PROVE Places'
    BY <1>12, <1>q DEF Release
<1>13. ASSUME NEW o \in Entries, Report(o) PROVE Places'
    BY <1>13, <1>q DEF Report
<1>14. ASSUME NEW o \in Entries, HandOff(o) PROVE Places'
    <2>1. PICK k \in ckids[o] :
             /\ ckids' = [ckids EXCEPT ![o] = @ \ {k}]
             /\ cpc' = [cpc EXCEPT ![k] = "process",
                                   ![o] = IF ckids[o] = {k} THEN "exit" ELSE "spawn"]
        BY <1>14 DEF HandOff
    <2>2. UNCHANGED <<pack, next, byOffset, byId, todo>>
        BY <1>14 DEF HandOff
    <2>3. cpc[o] # "idle" /\ cpc[k] = "idle" /\ Unmapped(k) /\ k \notin todo
        BY <1>14 DEF HandOff
    <2>4. \A q \in Entries \ {k} : cpc[q] = "idle" => cpc'[q] = "idle"
        BY <1>t, <1>p, <1>d, <2>1, <2>3
    <2>5. \A q \in Entries : ckids'[q] \subseteq ckids[q] /\ k \notin ckids'[q]
        BY <1>t, <1>p, <1>d, <2>1, <2>3
    <2>6. InOffsetMap' /\ InIdMap'
        BY <1>t, <1>p, <1>d, <2>2, <2>3, <2>4
    <2>7. InTodo'
        BY <1>t, <1>p, <1>d, <2>2, <2>3, <2>4, <2>5
    <2>8. InKids'
        BY <1>t, <1>p, <1>d, <2>2, <2>3, <2>4, <2>5
    <2> QED BY <1>t, <1>p, <1>d, <2>6, <2>7, <2>8
<1>15. ASSUME NEW o \in Entries, SpawnNext(o) PROVE Places'
    <2>1. PICK k \in ckids[o] :
             /\ ckids' = [ckids EXCEPT ![o] = @ \ {k}]
             /\ cpc' = [cpc EXCEPT ![k] = "process",
                                   ![o] = IF ckids[o] = {k} THEN "exit" ELSE "spawn"]
        BY <1>15 DEF SpawnNext
    <2>2. UNCHANGED <<pack, next, byOffset, byId, todo>>
        BY <1>15 DEF SpawnNext
    <2>3. cpc[o] # "idle" /\ cpc[k] = "idle" /\ Unmapped(k) /\ k \notin todo
        BY <1>15 DEF SpawnNext
    <2>4. \A q \in Entries \ {k} : cpc[q] = "idle" => cpc'[q] = "idle"
        BY <1>t, <1>p, <1>d, <2>1, <2>3
    <2>5. \A q \in Entries : ckids'[q] \subseteq ckids[q] /\ k \notin ckids'[q]
        BY <1>t, <1>p, <1>d, <2>1, <2>3
    <2>6. InOffsetMap' /\ InIdMap'
        BY <1>t, <1>p, <1>d, <2>2, <2>3, <2>4
    <2>7. InTodo'
        BY <1>t, <1>p, <1>d, <2>2, <2>3, <2>4, <2>5
    <2>8. InKids'
        BY <1>t, <1>p, <1>d, <2>2, <2>3, <2>4, <2>5
    <2> QED BY <1>t, <1>p, <1>d, <2>6, <2>7, <2>8
<1>16. ASSUME NEW o \in Entries, Exit(o) PROVE Places'
    BY <1>16, <1>q DEF Exit
<1>17. CASE ScanFails
    BY <1>17, <1>q DEF ScanFails
<1>18. CASE ReadRootFails
    BY <1>18, <1>q DEF ReadRootFails
<1>19. ASSUME NEW i \in AllIds, ReadIdFails(i) PROVE Places'
    <2>1. byId' = [byId EXCEPT ![i] = {}] /\ UNCHANGED <<pack, next, byOffset, todo, ckids, cpc>>
        BY <1>19 DEF ReadIdFails
    <2>2. \A k \in Entries : \A j \in AllIds : k \in byId'[j] => k \in byId[j]
        BY <1>t, <1>p, <1>d, <2>1
    <2> QED BY <1>t, <1>p, <1>d, <2>1, <2>2
<1>20. ASSUME NEW o \in Entries, ProcessFails(o) PROVE Places'
    BY <1>20, <1>q DEF ProcessFails
<1>21. CASE UNCHANGED vars
    BY <1>21, <1>q
<1> QED
    BY <1>t, <1>p, <1>d, <1>1, <1>2, <1>3, <1>4, <1>5, <1>6, <1>7, <1>8, <1>9, <1>10, <1>11, <1>12,
       <1>13, <1>14, <1>15, <1>16, <1>17, <1>18, <1>19, <1>20, <1>21
       DEF Next, BuildIndex, Crawl, Failure, Returned

-----------------------------------------------------------------------------
(* Phases. *)

LEMMA EntriesFinite == IsFiniteSet(Entries) /\ IsFiniteSet(Live) /\ IsFiniteSet(Holders)
<1>1. IsFiniteSet(Entries)
    BY FS_Interval, SizesAssumption DEF Entries
<1>2. Live \subseteq Entries /\ Holders \subseteq Entries
    BY DEF Live, Holders
<1> QED
    BY <1>1, <1>2, FS_Subset

(* wg.Wait returns when no goroutine is live. *)
LEMMA NoneLive == Counts /\ wg = 0 => Live = {}
BY EntriesFinite, FS_EmptySet DEF Counts

LEMMA NextPhases ==
    Types /\ Types' /\ Places /\ Phases /\ Counts /\ [Next]_vars => Phases'
<1> SUFFICES ASSUME Types, Types', Places, Phases, Counts, [Next]_vars PROVE Phases'
    OBVIOUS
<1> USE DEF vars, scanVars, mainVars, mapVars, crawlVars,
            Phases, ScanIsAlone, MainPhases, KidsWait, CrawlPhases, BasesScanned
<1>t. /\ todo \in SUBSET Entries /\ ckids \in [Entries -> SUBSET Entries]
      /\ cpc \in [Entries -> CrawlPCs] /\ main \in MainPCs
      /\ next \in 1..(NumEntries + 1) /\ base \in SUBSET Entries
    BY DEF Types
<1>p. pack' = pack => Deltas' = Deltas
    BY DEF Deltas
<1>l. /\ \A o \in Entries : o \in Live <=> cpc[o] \notin {"idle", "done", "failed"}
      /\ \A o \in Entries : o \in Live' <=> cpc'[o] \notin {"idle", "done", "failed"}
      /\ Live \subseteq Entries /\ Live' \subseteq Entries
      /\ cpc' = cpc => Live' = Live
    BY DEF Live
<1>n. /\ NumEntries \in Nat /\ next \in Int
      /\ \A o \in Entries : o \in Int
    BY SizesAssumption, <1>t DEF Entries
(* No goroutine moves. *)
<1>q. ASSUME UNCHANGED <<pack, next, base, rootOffsets, ckids, cpc, err>>,
             ScanIsAlone', MainPhases'
      PROVE  Phases'
    BY <1>q, <1>p
(* The scan moves past an entry. *)
<1>s. ASSUME main = "scan", main' = "scan", next \in Entries, next' = next + 1,
             UNCHANGED <<pack, todo, ckids, cpc, err>>,
             base' = base \cup (IF pack[next].kind = "base" THEN {next} ELSE {}),
             \A j \in 1..Len(rootOffsets') : rootOffsets'[j] \in base'
      PROVE  Phases'
    <2>1. base' = {o \in Entries : o < next' /\ pack'[o].kind = "base"}
        <3>0. next' = next + 1
            BY <1>s
        <3>1. \A o \in Entries : o < next' <=> (o < next \/ o = next)
            BY <3>0, <1>n
        <3>2. base = {o \in Entries : o < next /\ pack[o].kind = "base"}
            OBVIOUS
        <3> QED BY <1>s, <3>1, <3>2
    <2>2. ScanIsAlone' /\ MainPhases' /\ KidsWait' /\ CrawlPhases'
        BY <1>s, <1>p, <1>l
    <2> QED BY <2>1, <2>2, <1>s
<1>1. CASE ScanBase
    BY <1>1, <1>s DEF ScanBase
<1>2. CASE ScanOffsetDelta
    <2> DEFINE b == pack[next].baseOff
    <2>1. CASE main' = "err"
        <3>1. UNCHANGED <<pack, next, base, rootOffsets, ckids, cpc, err, todo>> /\ main = "scan"
            BY <1>2, <2>1 DEF ScanOffsetDelta
        <3>2. ScanIsAlone' /\ MainPhases'
            BY <2>1, <3>1, <1>l
        <3> QED BY <1>q, <3>1, <3>2
    <2>2. CASE main' # "err"
        <3>1. /\ main = "scan" /\ main' = "scan" /\ next \in Entries /\ next' = next + 1
              /\ UNCHANGED <<pack, todo, ckids, cpc, err>>
              /\ base' = base /\ pack[next].kind # "base"
              /\ rootOffsets' = IF b \in base THEN Append(rootOffsets, b) ELSE rootOffsets
            BY <1>2, <2>2 DEF ScanOffsetDelta
        <3>2. \A j \in 1..Len(rootOffsets') : rootOffsets'[j] \in base'
            <4>1. rootOffsets \in Seq(Entries)
                BY DEF Types
            <4>2. CASE b \in base
                <5>1. rootOffsets' = Append(rootOffsets, b)
                    BY <3>1, <4>2
                <5> QED BY <3>1, <4>1, <4>2, <5>1
            <4>3. CASE b \notin base
                BY <3>1, <4>3
            <4> QED BY <4>2, <4>3
        <3> QED BY <1>s, <3>1, <3>2
    <2> QED BY <2>1, <2>2
<1>3. CASE ScanRefDelta
    BY <1>3, <1>s DEF ScanRefDelta
<1>4. CASE ScanEnds
    <2>1. /\ main = "scan" /\ main' \in {"roots", "ok"} /\ next = NumEntries + 1
          /\ UNCHANGED <<pack, next, base, rootOffsets, ckids, cpc, err, todo>>
        BY <1>4 DEF ScanEnds
    <2> QED BY <2>1, <1>q, <1>l
<1>5. CASE VisitRoot
    BY <1>5, <1>q, <1>l DEF VisitRoot
<1>6. CASE RootsDone
    BY <1>6, <1>q, <1>l DEF RootsDone
<1>7. ASSUME NEW i \in AllIds, TakeId(i) PROVE Phases'
    BY <1>7, <1>q, <1>l DEF TakeId
<1>8. CASE IdsDone
    BY <1>8, <1>q, <1>l DEF IdsDone
<1>9. ASSUME NEW o \in Entries, StartChild(o) PROVE Phases'
    <2>1. /\ o \in todo /\ main \in {"roots", "ids"}
          /\ cpc' = [cpc EXCEPT ![o] = "process"] /\ todo' \subseteq todo
          /\ UNCHANGED <<pack, next, base, rootOffsets, main, ckids, err>>
        BY <1>9 DEF StartChild
    <2>2. o \in Deltas /\ cpc[o] = "idle"
        BY <2>1 DEF Places, InTodo, Unmapped
    <2>3. KidsWait' /\ CrawlPhases'
        BY <2>1, <2>2, <1>t, <1>p
    <2>4. ScanIsAlone' /\ MainPhases' /\ BasesScanned'
        BY <2>1
    <2> QED BY <2>3, <2>4
<1>10. CASE Return
    BY <1>10, <1>q, <1>l, NoneLive DEF Return
(* A goroutine moves, and BuildIndex does not. *)
<1>c. ASSUME UNCHANGED <<pack, next, base, rootOffsets, main, todo>>,
             NEW o \in Entries, o \in Live, err => err', KidsWait', CrawlPhases'
      PROVE  Phases'
    BY <1>c, <1>l
<1>11. ASSUME NEW o \in Entries, Process(o) PROVE Phases'
    <2>1. PICK kids \in SUBSET Entries :
             /\ ckids' = [ckids EXCEPT ![o] = kids]
             /\ cpc' = [cpc EXCEPT ![o] = IF kids = {} THEN "release" ELSE "handoff"]
        <3>1. o \in Offsets /\ Undeltify(cbase[o], o) \in AllIds
            BY UndeltifyType, <1>n DEF Entries, Offsets
        <3>2. (byOffset[o] \cup byId[Undeltify(cbase[o], o)]) \in SUBSET Entries
            BY <3>1 DEF Types
        <3> QED BY <1>11, <3>2 DEF Process
    <2>2. /\ cpc[o] = "process"
          /\ UNCHANGED <<pack, next, base, rootOffsets, main, todo, err>>
        BY <1>11 DEF Process
    <2>3. KidsWait' /\ CrawlPhases'
        BY <2>1, <2>2, <1>t, <1>p
    <2> QED BY <2>2, <2>3, <1>c, <1>l
<1>12. ASSUME NEW o \in Entries, Release(o) PROVE Phases'
    <2>1. /\ cpc[o] \in {"release", "failRelease"}
          /\ cpc' = [cpc EXCEPT ![o] = IF @ = "release" THEN "exit" ELSE "report"]
          /\ UNCHANGED <<pack, next, base, rootOffsets, main, todo, err, ckids>>
        BY <1>12 DEF Release
    <2>2. KidsWait' /\ CrawlPhases'
        BY <2>1, <1>t, <1>p
    <2> QED BY <2>1, <2>2, <1>c, <1>l
<1>13. ASSUME NEW o \in Entries, Report(o) PROVE Phases'
    <2>1. /\ cpc[o] = "report" /\ cpc' = [cpc EXCEPT ![o] = "exitFailed"] /\ err'
          /\ UNCHANGED <<pack, next, base, rootOffsets, main, todo, ckids>>
        BY <1>13 DEF Report
    <2>2. KidsWait' /\ CrawlPhases'
        BY <2>1, <1>t, <1>p
    <2> QED BY <2>1, <2>2, <1>c, <1>l
<1>14. ASSUME NEW o \in Entries, HandOff(o) PROVE Phases'
    <2>1. PICK k \in ckids[o] :
             /\ ckids' = [ckids EXCEPT ![o] = @ \ {k}]
             /\ cpc' = [cpc EXCEPT ![k] = "process",
                                   ![o] = IF ckids[o] = {k} THEN "exit" ELSE "spawn"]
        BY <1>14 DEF HandOff
    <2>2. /\ cpc[o] \in {"handoff", "spawn"}
          /\ UNCHANGED <<pack, next, base, rootOffsets, main, todo, err>>
        BY <1>14 DEF HandOff
    <2>3. k \in Deltas /\ cpc[k] = "idle" /\ k \in Entries
        BY <1>t DEF Places, InKids, Unmapped
    <2>4. KidsWait' /\ CrawlPhases'
        BY <2>1, <2>2, <2>3, <1>t, <1>p
    <2> QED BY <2>2, <2>4, <1>c, <1>l
<1>15. ASSUME NEW o \in Entries, SpawnNext(o) PROVE Phases'
    <2>1. PICK k \in ckids[o] :
             /\ ckids' = [ckids EXCEPT ![o] = @ \ {k}]
             /\ cpc' = [cpc EXCEPT ![k] = "process",
                                   ![o] = IF ckids[o] = {k} THEN "exit" ELSE "spawn"]
        BY <1>15 DEF SpawnNext
    <2>2. /\ cpc[o] \in {"handoff", "spawn"}
          /\ UNCHANGED <<pack, next, base, rootOffsets, main, todo, err>>
        BY <1>15 DEF SpawnNext
    <2>3. k \in Deltas /\ cpc[k] = "idle" /\ k \in Entries
        BY <1>t DEF Places, InKids, Unmapped
    <2>4. KidsWait' /\ CrawlPhases'
        BY <2>1, <2>2, <2>3, <1>t, <1>p
    <2> QED BY <2>2, <2>4, <1>c, <1>l
<1>16. ASSUME NEW o \in Entries, Exit(o) PROVE Phases'
    <2>1. /\ cpc[o] \in {"exit", "exitFailed"}
          /\ cpc' = [cpc EXCEPT ![o] = IF @ = "exit" THEN "done" ELSE "failed"]
          /\ UNCHANGED <<pack, next, base, rootOffsets, main, todo, err, ckids>>
        BY <1>16 DEF Exit
    <2>2. KidsWait' /\ CrawlPhases'
        BY <2>1, <1>t, <1>p
    <2> QED BY <2>1, <2>2, <1>c, <1>l
<1>17. CASE ScanFails
    BY <1>17, <1>q, <1>l DEF ScanFails
<1>18. CASE ReadRootFails
    BY <1>18, <1>q, <1>l DEF ReadRootFails
<1>19. ASSUME NEW i \in AllIds, ReadIdFails(i) PROVE Phases'
    BY <1>19, <1>q, <1>l DEF ReadIdFails
<1>20. ASSUME NEW o \in Entries, ProcessFails(o) PROVE Phases'
    <2>1. /\ cpc[o] = "process" /\ cpc' = [cpc EXCEPT ![o] = "failRelease"]
          /\ UNCHANGED <<pack, next, base, rootOffsets, main, todo, err, ckids>>
        BY <1>20 DEF ProcessFails
    <2>2. KidsWait' /\ CrawlPhases'
        BY <2>1, <1>t, <1>p
    <2> QED BY <2>1, <2>2, <1>c, <1>l
<1>21. CASE UNCHANGED vars
    BY <1>21, <1>q, <1>l
<1> QED
    BY <1>1, <1>2, <1>3, <1>4, <1>5, <1>6, <1>7, <1>8, <1>9, <1>10, <1>11, <1>12,
       <1>13, <1>14, <1>15, <1>16, <1>17, <1>18, <1>19, <1>20, <1>21
       DEF Next, BuildIndex, Crawl, Failure, Returned

-----------------------------------------------------------------------------
(* Counts. *)

LEMMA NextCounts ==
    Types /\ Types' /\ Places /\ Phases /\ Counts /\ [Next]_vars => Counts'
<1> SUFFICES ASSUME Types, Types', Places, Phases, Counts, [Next]_vars PROVE Counts'
    OBVIOUS
<1> USE DEF vars, scanVars, mainVars, mapVars, crawlVars
<1>t. /\ todo \in SUBSET Entries /\ ckids \in [Entries -> SUBSET Entries]
      /\ cpc \in [Entries -> CrawlPCs] /\ sem \in Nat /\ wg \in Int /\ NumIndexers \in Nat
    BY SizesAssumption DEF Types
<1>f. /\ IsFiniteSet(Live) /\ Cardinality(Live) \in Nat
      /\ IsFiniteSet(Holders) /\ Cardinality(Holders) \in Nat
    BY EntriesFinite, FS_CardinalityType
<1>i. wg = Cardinality(Live) /\ sem + Cardinality(Holders) = NumIndexers
    BY DEF Counts
(* No goroutine starts, ends, takes an indexer or gives one up. *)
<1>q. ASSUME UNCHANGED <<wg, sem>>, Live' = Live, Holders' = Holders
      PROVE  Counts'
    BY <1>q DEF Counts
<1>u. ASSUME UNCHANGED <<wg, sem, cpc>>
      PROVE  Counts'
    BY <1>u, <1>q DEF Live, Holders
<1>1. CASE \/ ScanBase \/ ScanOffsetDelta \/ ScanRefDelta \/ ScanEnds \/ VisitRoot \/ RootsDone
           \/ IdsDone \/ Return \/ ScanFails \/ ReadRootFails
    BY <1>1, <1>u DEF ScanBase, ScanOffsetDelta, ScanRefDelta, ScanEnds, VisitRoot, RootsDone,
                      IdsDone, Return, ScanFails, ReadRootFails
<1>2. ASSUME NEW i \in AllIds, TakeId(i) \/ ReadIdFails(i) PROVE Counts'
    BY <1>2, <1>u DEF TakeId, ReadIdFails
(* A goroutine starts with an indexer from the channel. *)
<1>s. ASSUME NEW k \in Entries, cpc[k] = "idle", Live' = Live \cup {k}, Holders' = Holders \cup {k},
             wg' = wg + 1, sem' = sem - 1
      PROVE  Counts'
    <2>1. k \notin Live /\ k \notin Holders
        BY <1>s DEF Live, Holders
    <2>2. /\ Cardinality(Live') = Cardinality(Live) + 1
          /\ Cardinality(Holders') = Cardinality(Holders) + 1
        BY <1>s, <1>f, <2>1, FS_AddElement
    <2> QED BY <1>s, <1>f, <1>i, <1>t, <2>2 DEF Counts
<1>3. ASSUME NEW o \in Entries, StartChild(o) PROVE Counts'
    <2>1. /\ o \in todo /\ wg' = wg + 1 /\ sem' = sem - 1
          /\ cpc' = [cpc EXCEPT ![o] = "process"]
        BY <1>3 DEF StartChild, StartGoroutine
    <2>2. cpc[o] = "idle"
        BY <2>1 DEF Places, InTodo, Unmapped
    <2>3. Live' = Live \cup {o} /\ Holders' = Holders \cup {o}
        BY <2>1, <1>t DEF Live, Holders
    <2> QED BY <1>s, <2>1, <2>2, <2>3
<1>4. ASSUME NEW o \in Entries, Process(o) \/ ProcessFails(o) PROVE Counts'
    <2>1. /\ cpc[o] = "process" /\ UNCHANGED <<wg, sem>>
          /\ cpc'[o] \in {"release", "handoff", "failRelease"}
          /\ \A q \in Entries \ {o} : cpc'[q] = cpc[q]
        BY <1>4, <1>t DEF Process, ProcessFails
    <2>2. Live' = Live /\ Holders' = Holders
        BY <2>1, <1>t DEF Live, Holders
    <2> QED BY <1>q, <2>1, <2>2
<1>5. ASSUME NEW o \in Entries, Release(o) PROVE Counts'
    <2>1. /\ cpc[o] \in {"release", "failRelease"} /\ wg' = wg /\ sem' = sem + 1
          /\ cpc' = [cpc EXCEPT ![o] = IF @ = "release" THEN "exit" ELSE "report"]
        BY <1>5 DEF Release
    <2>2. Live' = Live /\ Holders' = Holders \ {o} /\ o \in Holders
        BY <2>1, <1>t DEF Live, Holders
    <2>3. Cardinality(Holders') = Cardinality(Holders) - 1
        BY <1>f, <2>2, FS_RemoveElement
    <2> QED BY <1>f, <1>i, <1>t, <2>1, <2>2, <2>3 DEF Counts
<1>6. ASSUME NEW o \in Entries, Report(o) PROVE Counts'
    <2>1. /\ cpc[o] = "report" /\ cpc' = [cpc EXCEPT ![o] = "exitFailed"]
          /\ UNCHANGED <<wg, sem>>
        BY <1>6 DEF Report
    <2>2. Live' = Live /\ Holders' = Holders
        BY <2>1, <1>t DEF Live, Holders
    <2> QED BY <1>q, <2>1, <2>2
<1>7. ASSUME NEW o \in Entries, HandOff(o) PROVE Counts'
    <2>1. PICK k \in ckids[o] :
             cpc' = [cpc EXCEPT ![k] = "process",
                               ![o] = IF ckids[o] = {k} THEN "exit" ELSE "spawn"]
        BY <1>7 DEF HandOff
    <2>2. cpc[o] = "handoff" /\ wg' = wg + 1 /\ sem' = sem
        BY <1>7 DEF HandOff, StartGoroutine
    <2>3. cpc[k] = "idle" /\ k \in Entries
        BY <1>t DEF Places, InKids, Unmapped
    <2>4. /\ Live' = Live \cup {k} /\ k \notin Live
          /\ Holders' = (Holders \ {o}) \cup {k} /\ o \in Holders /\ k \notin Holders \ {o}
        BY <2>1, <2>2, <2>3, <1>t DEF Live, Holders
    <2>5. Cardinality(Live') = Cardinality(Live) + 1
        BY <1>f, <2>4, FS_AddElement
    <2>6. /\ IsFiniteSet(Holders \ {o})
          /\ Cardinality(Holders \ {o}) = Cardinality(Holders) - 1
        BY <1>f, <2>4, FS_RemoveElement
    <2>7. Cardinality(Holders') = Cardinality(Holders \ {o}) + 1
        BY <2>6, <2>4, FS_AddElement
    <2> QED BY <1>f, <1>i, <1>t, <2>2, <2>5, <2>6, <2>7 DEF Counts
<1>8. ASSUME NEW o \in Entries, SpawnNext(o) PROVE Counts'
    <2>1. PICK k \in ckids[o] :
             cpc' = [cpc EXCEPT ![k] = "process",
                               ![o] = IF ckids[o] = {k} THEN "exit" ELSE "spawn"]
        BY <1>8 DEF SpawnNext
    <2>2. cpc[o] = "spawn" /\ wg' = wg + 1 /\ sem' = sem - 1
        BY <1>8 DEF SpawnNext, StartGoroutine
    <2>3. cpc[k] = "idle" /\ k \in Entries
        BY <1>t DEF Places, InKids, Unmapped
    <2>4. Live' = Live \cup {k} /\ Holders' = Holders \cup {k}
        BY <2>1, <2>2, <2>3, <1>t DEF Live, Holders
    <2> QED BY <1>s, <2>2, <2>3, <2>4
<1>9. ASSUME NEW o \in Entries, Exit(o) PROVE Counts'
    <2>1. /\ cpc[o] \in {"exit", "exitFailed"} /\ wg' = wg - 1 /\ sem' = sem
          /\ cpc' = [cpc EXCEPT ![o] = IF @ = "exit" THEN "done" ELSE "failed"]
        BY <1>9 DEF Exit
    <2>2. Live' = Live \ {o} /\ Holders' = Holders /\ o \in Live
        BY <2>1, <1>t DEF Live, Holders
    <2>3. Cardinality(Live') = Cardinality(Live) - 1
        BY <1>f, <2>2, FS_RemoveElement
    <2> QED BY <1>f, <1>i, <1>t, <2>1, <2>2, <2>3 DEF Counts
<1>10. CASE UNCHANGED vars
    BY <1>10, <1>u
<1> QED
    BY <1>1, <1>2, <1>3, <1>4, <1>5, <1>6, <1>7, <1>8, <1>9, <1>10
       DEF Next, BuildIndex, Crawl, Failure, Returned

-----------------------------------------------------------------------------
(* Soundness. *)

(* Having a base is kept when rows are added. *)
LEMMA HasBaseMonotonic ==
    ASSUME NEW S, NEW T, S \subseteq T, NEW o, Abstract!HasBaseIn(S, o)
    PROVE  Abstract!HasBaseIn(T, o)
BY DEF Abstract!HasBaseIn

(* A delta whose base can be reconstructed can be reconstructed. *)
LEMMA ResolvableStep ==
    ASSUME NEW S, S \subseteq Abstract!Resolvable, NEW o \in Entries, Abstract!HasBaseIn(S, o)
    PROVE  o \in Abstract!Resolvable
<1> SUFFICES ASSUME NEW T \in SUBSET Entries, Abstract!Closed(T) PROVE o \in T
    BY DEF Abstract!Resolvable
<1>1. S \subseteq T
    BY DEF Abstract!Resolvable
<1>2. Abstract!HasBaseIn(T, o)
    BY <1>1, HasBaseMonotonic
<1> QED
    BY <1>2 DEF Abstract!Closed

LEMMA NextSound ==
    Types /\ Types' /\ Places /\ Phases /\ Sound /\ [Next]_vars => Sound'
<1> SUFFICES ASSUME Types, Types', Places, Phases, Sound, [Next]_vars PROVE Sound'
    OBVIOUS
<1> USE DEF vars, scanVars, mainVars, mapVars, crawlVars
<1>t. /\ todo \in SUBSET Entries /\ ckids \in [Entries -> SUBSET Entries]
      /\ cpc \in [Entries -> CrawlPCs] /\ cbase \in [Entries -> AllIds]
      /\ newIndex \in [Entries -> Seq(AllIds)] /\ base \in SUBSET Entries
    BY DEF Types
<1>i. RowsRight /\ RowsWhen /\ AllReady /\ RowsResolvable
    BY DEF Sound
<1>x. \A o \in Entries : o \in Indexed <=> newIndex[o] # <<>>
    BY DEF Indexed
(* What is ready stays so while rows are only added. *)
<1>r. ASSUME pack' = pack, Indexed \subseteq Indexed', NEW k \in Entries, NEW b, Ready(k, b)
      PROVE  b = TrueBase(k)' /\ Abstract!HasBaseIn(Indexed, k)'
    BY <1>r, HasBaseMonotonic DEF Ready, TrueBase, Abstract!HasBaseIn
(* Nothing that Sound speaks of changes. *)
<1>q. ASSUME UNCHANGED <<pack, newIndex, base, cbase, ckids>>, AllReady',
             \A o \in Entries : cpc'[o] \in {"release", "handoff", "spawn", "exit", "done"}
                          <=> cpc[o] \in {"release", "handoff", "spawn", "exit", "done"}
      PROVE  Sound'
    <2>1. Indexed' = Indexed /\ Abstract!Resolvable' = Abstract!Resolvable
        BY <1>q DEF Indexed, Abstract!Resolvable, Abstract!Closed, Abstract!HasBaseIn
    <2> QED BY <1>q, <1>i, <2>1 DEF Sound, RowsRight, RowsWhen, RowsResolvable
(* The same when no child is taken or started. *)
<1>u. ASSUME UNCHANGED <<pack, newIndex, base, cbase, ckids, todo, todoBase>>,
             \A o \in Entries : cpc'[o] = "idle" <=> cpc[o] = "idle",
             \A o \in Entries : cpc'[o] \in {"release", "handoff", "spawn", "exit", "done"}
                          <=> cpc[o] \in {"release", "handoff", "spawn", "exit", "done"}
      PROVE  Sound'
    <2>1. Indexed \subseteq Indexed' /\ pack' = pack
        BY <1>u DEF Indexed
    <2>2. AllReady'
        BY <1>u, <1>r, <1>i, <1>t, <2>1 DEF AllReady, Ready
    <2> QED BY <1>u, <1>q, <2>2
<1>1. CASE \/ ScanOffsetDelta \/ ScanRefDelta \/ ScanEnds \/ RootsDone
           \/ IdsDone \/ Return \/ ScanFails \/ ReadRootFails
    BY <1>1, <1>u DEF ScanOffsetDelta, ScanRefDelta, ScanEnds, RootsDone,
                      IdsDone, Return, ScanFails, ReadRootFails
<1>2. ASSUME NEW i \in AllIds, ReadIdFails(i) PROVE Sound'
    BY <1>2, <1>u DEF ReadIdFails
(* A row is added for an entry that has its base. *)
<1>a. ASSUME NEW o \in Entries, newIndex[o] = <<>>, Abstract!HasBaseIn(Indexed, o),
             newIndex' = [newIndex EXCEPT ![o] = Append(@, pack[o].id)],
             pack' = pack, RowsWhen', AllReady'
      PROVE  Sound'
    <2>1. /\ newIndex'[o] = <<pack[o].id>>
          /\ \A q \in Entries \ {o} : newIndex'[q] = newIndex[q]
        BY <1>a, <1>t
    <2>2. RowsRight'
        BY <1>a, <1>i, <2>1 DEF RowsRight
    <2>3. Indexed' = Indexed \cup {o}
        BY <2>1 DEF Indexed
    <2>4. o \in Abstract!Resolvable
        BY <1>a, <1>i, ResolvableStep DEF RowsResolvable
    <2>5. Abstract!Resolvable' = Abstract!Resolvable
        BY <1>a DEF Abstract!Resolvable, Abstract!Closed, Abstract!HasBaseIn
    <2>6. RowsResolvable'
        BY <1>i, <2>3, <2>4, <2>5 DEF RowsResolvable
    <2> QED BY <1>a, <2>2, <2>6 DEF Sound
<1>3. CASE ScanBase
    <2>1. /\ main = "scan" /\ next \in Entries /\ pack[next].kind = "base"
          /\ base' = base \cup {next}
          /\ newIndex' = [newIndex EXCEPT ![next] = Append(@, pack[next].id)]
          /\ UNCHANGED <<pack, ckids, cpc, cbase, todo, todoBase>>
        BY <1>3 DEF ScanBase
    <2>2. cpc[next] = "idle" /\ next \notin base
        BY <2>1, SizesAssumption DEF Phases, ScanIsAlone, BasesScanned, Entries
    <2>3. newIndex[next] = <<>>
        BY <2>1, <2>2, <1>i DEF RowsWhen
    <2>4. Abstract!HasBaseIn(Indexed, next)
        BY <2>1 DEF Abstract!HasBaseIn
    <2>5. /\ newIndex'[next] # <<>>
          /\ \A q \in Entries \ {next} : newIndex'[q] = newIndex[q]
        BY <2>1, <2>3, <1>t
    <2>6. RowsWhen'
        BY <1>i, <2>1, <2>5 DEF RowsWhen
    <2>7. Indexed \subseteq Indexed'
        BY <2>5 DEF Indexed
    <2>8. AllReady'
        BY <1>i, <1>r, <1>t, <2>1, <2>7 DEF AllReady, Ready
    <2> QED BY <1>a, <2>1, <2>3, <2>4, <2>6, <2>8
(* Children are taken from a map. *)
<1>k. ASSUME UNCHANGED <<pack, newIndex, base, cbase, ckids, cpc>>,
             \A k \in todo' : k \in Entries /\ Ready(k, todoBase')
      PROVE  Sound'
    <2>1. Indexed \subseteq Indexed' /\ pack' = pack
        BY <1>k DEF Indexed
    <2>2. AllReady'
        BY <1>k, <1>r, <1>i, <1>t, <2>1 DEF AllReady, Ready
    <2> QED BY <1>k, <1>q, <2>2
<1>4. CASE VisitRoot
    <2> DEFINE root == rootOffsets[ri]
    <2>1. /\ root \in base /\ root \in Entries /\ root \in Offsets
        BY <1>4, SizesAssumption DEF VisitRoot, Types, Phases, BasesScanned, Entries, Offsets
    <2>2. /\ todo' = byOffset[root] /\ todoBase' = pack[root].id
          /\ UNCHANGED <<pack, newIndex, base, cbase, ckids, cpc>>
        BY <1>4 DEF VisitRoot
    <2>3. root \in Indexed
        BY <2>1, <1>i DEF RowsWhen, Indexed
    <2>4. ASSUME NEW k \in todo' PROVE k \in Entries /\ Ready(k, todoBase')
        <3>1. k \in Entries /\ pack[k].kind = "ofs" /\ pack[k].baseOff = root
            BY <2>1, <2>2, <2>4 DEF Types, Places, InOffsetMap
        <3> QED BY <2>2, <2>3, <3>1 DEF Ready, TrueBase, Abstract!HasBaseIn
    <2> QED BY <1>k, <2>2, <2>4
<1>5. ASSUME NEW i \in AllIds, TakeId(i) PROVE Sound'
    <2>1. /\ todo' = byId[i] /\ todoBase' = i /\ i \in BaseIds
          /\ UNCHANGED <<pack, newIndex, base, cbase, ckids, cpc>>
        BY <1>5 DEF TakeId
    <2>2. PICK b \in base : pack[b].id = i
        BY <2>1 DEF BaseIds
    <2>3. b \in Indexed
        BY <2>2, <1>i, <1>t DEF RowsWhen, Indexed
    <2>4. ASSUME NEW k \in todo' PROVE k \in Entries /\ Ready(k, todoBase')
        <3>1. k \in Entries /\ pack[k].kind = "ref" /\ pack[k].baseId = i
            BY <2>1, <2>4 DEF Types, Places, InIdMap
        <3> QED BY <2>1, <2>2, <2>3, <3>1 DEF Ready, TrueBase, Abstract!HasBaseIn
    <2> QED BY <1>k, <2>1, <2>4
(* A goroutine is started for a child that is ready. *)
<1>g. ASSUME NEW k \in Entries, NEW b, Ready(k, b), cpc[k] = "idle",
             cbase' = [cbase EXCEPT ![k] = b], cpc'[k] = "process",
             \A q \in Entries : q # k => (cpc'[q] = "idle" <=> cpc[q] = "idle"),
             \A q \in Entries : q # k =>
                (cpc'[q] \in {"release", "handoff", "spawn", "exit", "done"}
                    <=> cpc[q] \in {"release", "handoff", "spawn", "exit", "done"}),
             UNCHANGED <<pack, newIndex, base, todoBase>>, todo' \subseteq todo,
             \A q \in Entries : ckids'[q] \subseteq ckids[q]
      PROVE  Sound'
    <2>1. Indexed' = Indexed /\ Abstract!Resolvable' = Abstract!Resolvable
        BY <1>g DEF Indexed, Abstract!Resolvable, Abstract!Closed, Abstract!HasBaseIn
    <2>2. ASSUME NEW q \in Entries, cpc'[q] # "idle" PROVE Ready(q, cbase[q])'
        <3>1. CASE q = k
            BY <1>g, <1>r, <1>t, <2>1, <3>1 DEF Ready
        <3>2. CASE q # k
            <4>1. cbase'[q] = cbase[q] /\ cpc[q] # "idle"
                BY <1>g, <1>t, <2>2, <3>2
            <4> QED BY <1>g, <1>r, <1>i, <2>1, <4>1 DEF AllReady, Ready
        <3> QED BY <3>1, <3>2
    <2>3. \A q \in todo' : Ready(q, todoBase)'
        BY <1>g, <1>r, <1>i, <1>t, <2>1 DEF AllReady, Ready
    <2>4. \A q \in Entries : \A c \in ckids'[q] : Ready(c, pack[q].id)'
        BY <1>g, <1>r, <1>i, <1>t, <2>1 DEF AllReady, Ready
    <2>5. AllReady'
        BY <2>2, <2>3, <2>4 DEF AllReady
    <2>6. RowsWhen'
        <3> SUFFICES ASSUME NEW q \in Entries
                     PROVE  newIndex[q] # <<>> <=> q \in base \/
                               cpc'[q] \in {"release", "handoff", "spawn", "exit", "done"}
            BY <1>g DEF RowsWhen
        <3>1. newIndex[q] # <<>> <=> q \in base \/
                 cpc[q] \in {"release", "handoff", "spawn", "exit", "done"}
            BY <1>i DEF RowsWhen
        <3>2. CASE q = k
            BY <3>1, <3>2, <1>g
        <3>3. CASE q # k
            BY <3>1, <3>3, <1>g
        <3> QED BY <3>2, <3>3
    <2> QED BY <1>g, <1>i, <2>1, <2>5, <2>6 DEF Sound, RowsRight, RowsResolvable
<1>6. ASSUME NEW o \in Entries, StartChild(o) PROVE Sound'
    <2>1. /\ o \in todo /\ cbase' = [cbase EXCEPT ![o] = todoBase]
          /\ cpc' = [cpc EXCEPT ![o] = "process"] /\ todo' \subseteq todo
          /\ UNCHANGED <<pack, newIndex, base, todoBase, ckids>>
        BY <1>6 DEF StartChild, StartGoroutine
    <2>2. Ready(o, todoBase) /\ cpc[o] = "idle"
        BY <2>1, <1>i DEF AllReady, Places, InTodo, Unmapped
    <2> QED BY <1>g, <1>t, <2>1, <2>2
<1>7. ASSUME NEW o \in Entries, Process(o) PROVE Sound'
    <2>1. cpc[o] = "process" /\ Ready(o, cbase[o])
        BY <1>7, <1>i DEF Process, AllReady
    <2>2. Undeltify(cbase[o], o) = pack[o].id
        BY <2>1 DEF Ready, Undeltify
    <2>3. pack[o].id \in AllIds /\ o \in Offsets
        BY EntryFields, SizesAssumption DEF AllIds, Entries, Offsets
    <2>4. /\ newIndex' = [newIndex EXCEPT ![o] = Append(@, pack[o].id)]
          /\ ckids' = [ckids EXCEPT ![o] = byOffset[o] \cup byId[pack[o].id]]
          /\ cpc'[o] \in {"release", "handoff"}
          /\ \A q \in Entries \ {o} : cpc'[q] = cpc[q]
          /\ UNCHANGED <<pack, base, cbase, todo, todoBase>>
        BY <1>7, <1>t, <2>2 DEF Process
    <2>5. o \notin base /\ newIndex[o] = <<>>
        <3>1. o \notin base
            BY <2>1 DEF Phases, CrawlPhases, BasesScanned, Deltas
        <3> QED BY <3>1, <2>1, <1>i DEF RowsWhen
    <2>6. /\ newIndex'[o] # <<>>
          /\ \A q \in Entries \ {o} : newIndex'[q] = newIndex[q]
        BY <1>t, <2>4, <2>5
    <2>7. RowsWhen'
        BY <1>i, <2>4, <2>6 DEF RowsWhen
    <2>8. Indexed \subseteq Indexed' /\ o \in Indexed'
        BY <2>6 DEF Indexed
    <2>9. ASSUME NEW k \in ckids'[o] PROVE k \in Entries /\ Ready(k, pack[o].id)'
        <3>1. k \in Entries /\ k \in byOffset[o] \cup byId[pack[o].id]
            BY <1>t, <2>3, <2>4, <2>9 DEF Types
        <3>2. \/ pack[k].kind = "ofs" /\ pack[k].baseOff = o
              \/ pack[k].kind = "ref" /\ pack[k].baseId = pack[o].id
            BY <2>3, <3>1 DEF Places, InOffsetMap, InIdMap
        <3> QED BY <2>4, <2>8, <3>1, <3>2 DEF Ready, TrueBase, Abstract!HasBaseIn
    <2>10. \A q \in Entries : cpc'[q] # "idle" => Ready(q, cbase[q])'
        BY <1>r, <1>i, <2>1, <2>4, <2>8 DEF AllReady, Ready
    <2>11. \A k \in todo' : Ready(k, todoBase)'
        BY <1>r, <1>i, <1>t, <2>4, <2>8 DEF AllReady, Ready
    <2>12. \A q \in Entries : \A k \in ckids'[q] : Ready(k, pack[q].id)'
        <3> SUFFICES ASSUME NEW q \in Entries, NEW k \in ckids'[q] PROVE Ready(k, pack[q].id)'
            OBVIOUS
        <3>1. CASE q = o
            BY <2>4, <2>9, <3>1
        <3>2. CASE q # o
            BY <1>r, <1>i, <1>t, <2>4, <2>8, <3>2 DEF AllReady, Ready
        <3> QED BY <3>1, <3>2
    <2>13. AllReady'
        BY <2>10, <2>11, <2>12 DEF AllReady
    <2>14. Abstract!HasBaseIn(Indexed, o)
        BY <2>1 DEF Ready
    <2> QED BY <1>a, <2>4, <2>5, <2>7, <2>13, <2>14
<1>8. ASSUME NEW o \in Entries, ProcessFails(o) \/ Release(o) \/ Report(o) \/ Exit(o) PROVE Sound'
    <2>1. /\ UNCHANGED <<pack, newIndex, base, cbase, ckids, todo, todoBase>>
          /\ \A q \in Entries \ {o} : cpc'[q] = cpc[q]
        BY <1>8, <1>t DEF ProcessFails, Release, Report, Exit
    <2>2. \/ cpc[o] = "process" /\ cpc'[o] = "failRelease"
          \/ cpc[o] = "release" /\ cpc'[o] = "exit"
          \/ cpc[o] = "failRelease" /\ cpc'[o] = "report"
          \/ cpc[o] = "report" /\ cpc'[o] = "exitFailed"
          \/ cpc[o] = "exit" /\ cpc'[o] = "done"
          \/ cpc[o] = "exitFailed" /\ cpc'[o] = "failed"
        BY <1>8, <1>t DEF ProcessFails, Release, Report, Exit
    <2> QED BY <1>u, <2>1, <2>2
<1>9. ASSUME NEW o \in Entries, HandOff(o) \/ SpawnNext(o) PROVE Sound'
    <2>1. PICK k \in ckids[o] :
             /\ cbase' = [cbase EXCEPT ![k] = Undeltify(cbase[o], o)]
             /\ ckids' = [ckids EXCEPT ![o] = @ \ {k}]
             /\ cpc' = [cpc EXCEPT ![k] = "process",
                                   ![o] = IF ckids[o] = {k} THEN "exit" ELSE "spawn"]
        BY <1>9 DEF HandOff, SpawnNext, StartGoroutine
    <2>2. /\ cpc[o] \in {"handoff", "spawn"}
          /\ UNCHANGED <<pack, newIndex, base, todo, todoBase>>
        BY <1>9 DEF HandOff, SpawnNext
    <2>3. /\ k \in Entries /\ cpc[k] = "idle"
          /\ Ready(k, pack[o].id) /\ Ready(o, cbase[o])
        BY <1>i, <1>t, <2>2 DEF AllReady, Places, InKids, Unmapped
    <2>4. Undeltify(cbase[o], o) = pack[o].id
        BY <2>3 DEF Ready, Undeltify
    <2>5. cpc'[k] = "process" /\ cpc'[o] \in {"exit", "spawn"} /\ k # o
        BY <1>t, <2>1, <2>2, <2>3
    <2>6. \A q \in Entries \ {k, o} : cpc'[q] = cpc[q]
        BY <1>t, <2>1
    <2>7. \A q \in Entries : ckids'[q] \subseteq ckids[q]
        BY <1>t, <2>1
    <2> QED BY <1>g, <2>1, <2>2, <2>3, <2>4, <2>5, <2>6, <2>7
<1>10. CASE UNCHANGED vars
    BY <1>10, <1>u
<1> QED
    BY <1>1, <1>2, <1>3, <1>4, <1>5, <1>6, <1>7, <1>8, <1>9, <1>10
       DEF Next, BuildIndex, Crawl, Failure, Returned

-----------------------------------------------------------------------------
(* Completeness. *)

(* No delta of an entry is scanned before the entry. *)
LEMMA NoEarlyChild ==
    ASSUME Types, Places, NEW b \in Entries, next <= b
    PROVE  byOffset[b] = {}
<1> SUFFICES ASSUME NEW k \in byOffset[b] PROVE FALSE
    OBVIOUS
<1>1. b \in Offsets /\ b \in Int
    BY SizesAssumption DEF Entries, Offsets
<1>2. k \in Entries /\ k \in Int /\ next \in Int
    BY <1>1, SizesAssumption DEF Types, Entries
<1>3. pack[k].baseOff = b /\ k < next
    BY <1>1 DEF Places, InOffsetMap
<1>4. pack[k].baseOff <= k
    BY <1>2, PacksAssumption DEF Types
<1> QED
    BY <1>1, <1>2, <1>3, <1>4

LEMMA NextComplete ==
    Types /\ Types' /\ Places /\ Phases /\ Sound /\ Complete /\ [Next]_vars => Complete'
<1> SUFFICES ASSUME Types, Types', Places, Phases, Sound, Complete, [Next]_vars PROVE Complete'
    OBVIOUS
<1> USE DEF vars, scanVars, mainVars, mapVars, crawlVars, Complete
<1>t. /\ todo \in SUBSET Entries /\ ckids \in [Entries -> SUBSET Entries]
      /\ cpc \in [Entries -> CrawlPCs] /\ base \in SUBSET Entries /\ next \in Int
      /\ byOffset \in [Offsets -> SUBSET Entries] /\ byId \in [AllIds -> SUBSET Entries]
      /\ main \in MainPCs
    BY SizesAssumption DEF Types
<1>e. \A o \in Entries : /\ o \in Offsets /\ o \in Int
                         /\ pack[o].baseOff \in Offsets
                         /\ pack[o].id \in AllIds /\ pack[o].baseId \in AllIds
    BY EntryFields, SizesAssumption DEF AllIds, Entries, Offsets
<1>d. Deltas \subseteq Entries /\ (pack' = pack => Deltas' = Deltas)
    BY DEF Deltas
<1>b. BaseIds \subseteq AllIds /\ (pack' = pack /\ base' = base => BaseIds' = BaseIds)
    BY <1>t, <1>e DEF BaseIds
(* While the packfile is scanned no delta has a row. *)
<1>s. main = "scan" => \A o \in Deltas : newIndex[o] = <<>>
    BY <1>d DEF Sound, RowsWhen, Phases, ScanIsAlone, BasesScanned, Deltas
(* Only BuildIndex moves. *)
<1>q. ASSUME UNCHANGED <<pack, next, base, rootOffsets, ri, byOffset, byId, newIndex, todo, ckids, cpc>>,
             main' = main \/ main' \in {"drain", "err"} \/ (RootsListed' /\ RootsVisited' /\ IdsVisited'),
             main' \notin {"drain", "err"} => main \notin {"drain", "err"}
      PROVE  Complete'
    <2>1. NoneForgotten'
        BY <1>q, <1>d DEF NoneForgotten, Placed
    <2>2. DeltasVisited'
        BY <1>q, <1>d DEF DeltasVisited
    <2>3. RootsListed' /\ RootsVisited' /\ IdsVisited'
        BY <1>q, <1>b DEF RootsListed, RootsVisited, IdsVisited
    <2> QED BY <2>1, <2>2, <2>3
<1>1. CASE ScanFails \/ ReadRootFails
    BY <1>1, <1>q DEF ScanFails, ReadRootFails
<1>2. CASE UNCHANGED vars
    BY <1>2, <1>q
<1>3. CASE RootsDone
    <2>1. /\ main = "roots" /\ main' = "ids" /\ ri > Len(rootOffsets)
          /\ UNCHANGED <<pack, next, base, rootOffsets, ri, byOffset, byId, newIndex, todo, ckids, cpc>>
        BY <1>3 DEF RootsDone
    <2>2. \A b \in base : byOffset[b] = {}
        <3>1. \A j \in 1..Len(rootOffsets) : ~(ri <= j)
            BY <2>1 DEF Types
        <3> QED BY <2>1, <3>1 DEF RootsListed
    <2>3. RootsListed' /\ RootsVisited' /\ IdsVisited'
        BY <2>1, <2>2 DEF RootsListed, RootsVisited, IdsVisited
    <2> QED BY <1>q, <2>1, <2>3
<1>4. CASE IdsDone
    <2>1. /\ main = "ids" /\ main' = "wait" /\ \A i \in BaseIds : byId[i] = {}
          /\ UNCHANGED <<pack, next, base, rootOffsets, ri, byOffset, byId, newIndex, todo, ckids, cpc>>
        BY <1>4 DEF IdsDone
    <2>2. RootsListed' /\ RootsVisited' /\ IdsVisited'
        BY <2>1, <1>b DEF RootsListed, RootsVisited, IdsVisited
    <2> QED BY <1>q, <2>1, <2>2
<1>5. CASE Return
    <2>1. /\ main \in {"wait", "drain"} /\ (main' = "err" \/ (main = "wait" /\ main' = "ok"))
          /\ UNCHANGED <<pack, next, base, rootOffsets, ri, byOffset, byId, newIndex, todo, ckids, cpc>>
        BY <1>5 DEF Return
    <2>2. CASE main' = "err"
        BY <1>q, <2>1, <2>2
    <2>3. CASE main' = "ok"
        <3>1. main = "wait"
            BY <2>1, <2>3
        <3>2. RootsListed' /\ RootsVisited' /\ IdsVisited'
            BY <2>1, <2>3, <3>1, <1>b DEF RootsListed, RootsVisited, IdsVisited
        <3> QED BY <1>q, <2>1, <2>3, <3>1, <3>2
    <2> QED BY <2>1, <2>2, <2>3
<1>6. CASE ScanEnds
    <2>1. /\ main = "scan" /\ main' = IF HasDeltas THEN "roots" ELSE "ok"
          /\ UNCHANGED <<pack, next, base, rootOffsets, ri, byOffset, byId, newIndex, todo, ckids, cpc>>
        BY <1>6 DEF ScanEnds
    <2>2. main' = "ok" => /\ \A b \in base : byOffset[b] = {}
                          /\ \A i \in BaseIds : byId[i] = {}
        BY <2>1, <1>t, <1>e, <1>b DEF HasDeltas
    <2>3. RootsListed' /\ RootsVisited' /\ IdsVisited'
        BY <2>1, <2>2, <1>b DEF RootsListed, RootsVisited, IdsVisited
    <2> QED BY <1>q, <2>1, <2>3
<1>7. CASE ScanBase
    <2>1. /\ main = "scan" /\ main' = "scan" /\ next \in Entries /\ pack[next].kind = "base"
          /\ base' = base \cup {next} /\ next' = next + 1
          /\ newIndex' = [newIndex EXCEPT ![next] = Append(@, pack[next].id)]
          /\ UNCHANGED <<pack, rootOffsets, ri, byOffset, byId, todo, ckids, cpc>>
        BY <1>7 DEF ScanBase
    <2>2. next \notin Deltas
        BY <2>1 DEF Deltas
    <2>3. NoneForgotten'
        <3> SUFFICES ASSUME NEW o \in Deltas, o < next + 1 PROVE Placed(o)
            BY <2>1, <1>d DEF NoneForgotten, Placed
        <3>1. o < next
            BY <1>d, <1>e, <1>t, <2>2
        <3> QED BY <2>1, <3>1 DEF NoneForgotten
    <2>4. byOffset[next] = {}
        BY <2>1, <1>t, NoEarlyChild
    <2>5. RootsListed'
        BY <2>1, <2>4 DEF RootsListed
    <2>6. \A q \in Deltas : newIndex'[q] = newIndex[q]
        BY <2>1, <2>2, <1>d DEF Types
    <2>7. DeltasVisited'
        BY <2>1, <2>6, <1>d DEF DeltasVisited
    <2> QED BY <2>1, <2>3, <2>5, <2>7 DEF RootsVisited, IdsVisited
<1>8. CASE ScanOffsetDelta
    <2> DEFINE b == pack[next].baseOff
    <2>1. CASE main' = "err"
        <3>1. UNCHANGED <<pack, next, base, rootOffsets, ri, byOffset, byId, newIndex, todo, ckids, cpc>>
            BY <1>8, <2>1 DEF ScanOffsetDelta
        <3> QED BY <1>q, <2>1, <3>1
    <2>2. CASE main' # "err"
        <3>1. /\ main = "scan" /\ main' = "scan" /\ next \in Entries /\ next' = next + 1
              /\ byOffset' = [byOffset EXCEPT ![b] = @ \cup {next}]
              /\ rootOffsets' = IF b \in base THEN Append(rootOffsets, b) ELSE rootOffsets
              /\ UNCHANGED <<pack, base, ri, byId, newIndex, todo, ckids, cpc>>
            BY <1>8, <2>2 DEF ScanOffsetDelta
        <3>2. NoneForgotten'
            <4> SUFFICES ASSUME NEW o \in Deltas, o < next + 1 PROVE Placed(o)'
                BY <3>1, <1>d DEF NoneForgotten
            <4>1. CASE o = next
                BY <3>1, <4>1, <1>t, <1>e DEF Placed
            <4>2. CASE o # next
                <5>1. Placed(o)
                    BY <3>1, <4>2, <1>d, <1>e, <1>t DEF NoneForgotten
                <5>2. o \in byOffset[pack[o].baseOff] => o \in byOffset'[pack[o].baseOff]
                    BY <3>1, <1>d, <1>e, <1>t
                <5> QED BY <3>1, <5>1, <5>2 DEF Placed
            <4> QED BY <4>1, <4>2
        <3>3. RootsListed'
            <4>1. ri = 1 /\ rootOffsets \in Seq(Entries)
                BY <3>1 DEF RootsListed, Types
            <4> SUFFICES ASSUME NEW c \in base, byOffset'[c] # {}
                         PROVE  \E j \in 1..Len(rootOffsets') : 1 <= j /\ rootOffsets'[j] = c
                BY <3>1, <4>1 DEF RootsListed
            <4>2. CASE c = b
                <5>1. rootOffsets' = Append(rootOffsets, b)
                    BY <3>1, <4>2
                <5>2. Len(rootOffsets) + 1 \in 1..Len(rootOffsets') /\ rootOffsets'[Len(rootOffsets) + 1] = b
                    BY <4>1, <4>2, <1>t, <5>1
                <5>3. 1 <= Len(rootOffsets) + 1
                    BY <4>1
                <5> QED BY <4>2, <5>2, <5>3
            <4>3. CASE c # b
                <5>1. byOffset[c] # {}
                    BY <3>1, <4>3, <1>t, <1>e
                <5>2. PICK j \in 1..Len(rootOffsets) : 1 <= j /\ rootOffsets[j] = c
                    BY <3>1, <4>1, <5>1 DEF RootsListed
                <5>3. j \in 1..Len(rootOffsets') /\ rootOffsets'[j] = rootOffsets[j]
                    <6>1. CASE b \in base
                        <7>1. rootOffsets' = Append(rootOffsets, b) /\ b \in Entries
                            BY <3>1, <6>1, <1>t
                        <7> QED BY <4>1, <7>1
                    <6>2. CASE b \notin base
                        BY <3>1, <6>2
                    <6> QED BY <6>1, <6>2
                <5> QED BY <5>2, <5>3
            <4> QED BY <4>2, <4>3
        <3>4. DeltasVisited'
            BY <3>1, <1>s, <1>d DEF DeltasVisited
        <3> QED BY <3>1, <3>2, <3>3, <3>4 DEF RootsVisited, IdsVisited
    <2> QED BY <2>1, <2>2
<1>9. CASE ScanRefDelta
    <2> DEFINE i == pack[next].baseId
    <2>1. /\ main = "scan" /\ main' = "scan" /\ next \in Entries /\ next' = next + 1
          /\ byId' = [byId EXCEPT ![i] = @ \cup {next}]
          /\ UNCHANGED <<pack, base, ri, rootOffsets, byOffset, newIndex, todo, ckids, cpc>>
        BY <1>9 DEF ScanRefDelta
    <2>2. NoneForgotten'
        <3> SUFFICES ASSUME NEW o \in Deltas, o < next + 1 PROVE Placed(o)'
            BY <2>1, <1>d DEF NoneForgotten
        <3>1. CASE o = next
            BY <2>1, <3>1, <1>t, <1>e DEF Placed
        <3>2. CASE o # next
            <4>1. Placed(o)
                BY <2>1, <3>2, <1>d, <1>e, <1>t DEF NoneForgotten
            <4>2. o \in byId[pack[o].baseId] => o \in byId'[pack[o].baseId]
                BY <2>1, <1>d, <1>e, <1>t
            <4> QED BY <2>1, <4>1, <4>2 DEF Placed
        <3> QED BY <3>1, <3>2
    <2>3. RootsListed'
        BY <2>1 DEF RootsListed
    <2>4. DeltasVisited'
        BY <2>1, <1>s, <1>d DEF DeltasVisited
    <2> QED BY <2>1, <2>2, <2>3, <2>4 DEF RootsVisited, IdsVisited
(* After the scan children only leave the maps. *)
<1>m. ASSUME UNCHANGED <<pack, next, base, rootOffsets, main>>, main # "scan",
             \A b \in Offsets : byOffset'[b] \subseteq byOffset[b],
             \A i \in AllIds : byId'[i] \subseteq byId[i],
             \A o \in Deltas : o < next /\ Placed(o) => Placed(o)',
             ri' = ri \/ RootsListed',
             \A o \in Deltas : newIndex[o] = <<>> /\ newIndex'[o] # <<>> =>
                 byOffset'[o] = {} /\ byId'[pack[o].id] = {}
      PROVE  Complete'
    <2>1. NoneForgotten'
        BY <1>m, <1>d DEF NoneForgotten
    <2>2. ASSUME ri' = ri PROVE RootsListed'
        <3> SUFFICES ASSUME main = "roots", NEW b \in base, byOffset'[b] # {}
                     PROVE  \E j \in 1..Len(rootOffsets) : ri <= j /\ rootOffsets[j] = b
            BY <1>m, <2>2 DEF RootsListed
        <3>1. byOffset[b] # {}
            BY <1>m, <1>t, <1>e
        <3> QED BY <3>1 DEF RootsListed
    <2>3. RootsVisited'
        <3> SUFFICES ASSUME main \in {"ids", "wait", "ok"}, NEW b \in base PROVE byOffset'[b] = {}
            BY <1>m DEF RootsVisited
        <3>1. byOffset[b] = {} /\ b \in Offsets
            BY <1>t, <1>e DEF RootsVisited
        <3> QED BY <1>m, <3>1
    <2>4. IdsVisited'
        <3> SUFFICES ASSUME main \in {"wait", "ok"}, NEW i \in BaseIds PROVE byId'[i] = {}
            BY <1>m, <1>b DEF IdsVisited
        <3>1. byId[i] = {} /\ i \in AllIds
            BY <1>b DEF IdsVisited
        <3> QED BY <1>m, <3>1
    <2>5. DeltasVisited'
        <3> SUFFICES ASSUME NEW o \in Deltas, newIndex'[o] # <<>>
                     PROVE  byOffset'[o] = {} /\ byId'[pack[o].id] = {}
            BY <1>m, <1>d DEF DeltasVisited
        <3>1. CASE newIndex[o] = <<>>
            BY <1>m, <3>1
        <3>2. CASE newIndex[o] # <<>>
            <4>1. byOffset[o] = {} /\ byId[pack[o].id] = {} /\ o \in Offsets /\ pack[o].id \in AllIds
                BY <3>2, <1>d, <1>e DEF DeltasVisited
            <4> QED BY <1>m, <4>1
        <3> QED BY <3>1, <3>2
    <2> QED BY <1>m, <2>1, <2>2, <2>3, <2>4, <2>5
<1>10. CASE VisitRoot
    <2> DEFINE root == rootOffsets[ri]
    <2>1. /\ main = "roots" /\ todo = {} /\ ri \in 1..Len(rootOffsets)
          /\ root \in Entries /\ root \in Offsets
        BY <1>10, <1>e DEF VisitRoot, Types
    <2>2. /\ todo' = byOffset[root] /\ byOffset' = [byOffset EXCEPT ![root] = {}] /\ ri' = ri + 1
          /\ UNCHANGED <<pack, next, base, rootOffsets, main, byId, newIndex, ckids, cpc>>
        BY <1>10 DEF VisitRoot
    <2>3. \A b \in Offsets : byOffset'[b] = IF b = root THEN {} ELSE byOffset[b]
        BY <2>1, <2>2, <1>t
    <2>4. ASSUME NEW o \in Deltas, Placed(o) PROVE Placed(o)'
        BY <2>1, <2>2, <2>3, <2>4, <1>d, <1>e DEF Placed
    <2>5. RootsListed'
        <3> SUFFICES ASSUME NEW b \in base, byOffset'[b] # {}
                     PROVE  \E j \in 1..Len(rootOffsets) : ri + 1 <= j /\ rootOffsets[j] = b
            BY <2>1, <2>2 DEF RootsListed
        <3>1. b # root /\ byOffset[b] # {}
            BY <2>3, <1>t, <1>e
        <3>2. PICK j \in 1..Len(rootOffsets) : ri <= j /\ rootOffsets[j] = b
            BY <2>1, <3>1 DEF RootsListed
        <3>3. j # ri
            BY <3>1, <3>2
        <3>4. ri + 1 <= j
            BY <2>1, <3>2, <3>3
        <3> QED BY <3>2, <3>4
    <2>6. \A b \in Offsets : byOffset'[b] \subseteq byOffset[b]
        BY <2>3
    <2> QED BY <1>m, <2>1, <2>2, <2>4, <2>5, <2>6
<1>11. ASSUME NEW i \in AllIds, TakeId(i) PROVE Complete'
    <2>1. /\ main = "ids" /\ todo = {} /\ todo' = byId[i] /\ byId' = [byId EXCEPT ![i] = {}]
          /\ UNCHANGED <<pack, next, base, rootOffsets, ri, main, byOffset, newIndex, ckids, cpc>>
        BY <1>11 DEF TakeId
    <2>2. \A j \in AllIds : byId'[j] = IF j = i THEN {} ELSE byId[j]
        BY <2>1, <1>t
    <2>3. ASSUME NEW o \in Deltas, Placed(o) PROVE Placed(o)'
        BY <2>1, <2>2, <2>3, <1>d, <1>e DEF Placed
    <2>4. \A j \in AllIds : byId'[j] \subseteq byId[j]
        BY <2>2
    <2> QED BY <1>m, <2>1, <2>3, <2>4
<1>12. ASSUME NEW i \in AllIds, ReadIdFails(i) PROVE Complete'
    <2>1. /\ main' = "drain" /\ byId' = [byId EXCEPT ![i] = {}]
          /\ UNCHANGED <<pack, byOffset, newIndex>>
        BY <1>12 DEF ReadIdFails
    <2>2. \A j \in AllIds : byId'[j] \subseteq byId[j]
        BY <2>1, <1>t
    <2>3. DeltasVisited'
        BY <2>1, <2>2, <1>d, <1>e DEF DeltasVisited
    <2> QED BY <2>1, <2>3 DEF NoneForgotten, RootsListed, RootsVisited, IdsVisited
<1>13. ASSUME NEW o \in Entries, StartChild(o) PROVE Complete'
    <2>1. /\ main \in {"roots", "ids"} /\ todo' = todo \ {o} /\ cpc' = [cpc EXCEPT ![o] = "process"]
          /\ UNCHANGED <<pack, next, base, rootOffsets, ri, main, byOffset, byId, newIndex, ckids>>
        BY <1>13 DEF StartChild
    <2>2. ASSUME NEW q \in Deltas, Placed(q) PROVE Placed(q)'
        BY <2>1, <2>2, <1>d, <1>t DEF Placed
    <2> QED BY <1>m, <2>1, <2>2
(* A live goroutine runs while BuildIndex is past the scan. *)
<1>l. \A o \in Entries : cpc[o] # "idle" => main # "scan"
    BY DEF Phases, ScanIsAlone
<1>14. ASSUME NEW o \in Entries, Process(o) PROVE Complete'
    <2> DEFINE id == pack[o].id
    <2>1. Undeltify(cbase[o], o) = id
        BY <1>14 DEF Process, Sound, AllReady, Ready, Undeltify
    <2>2. /\ cpc[o] = "process" /\ id \in AllIds /\ o \in Offsets
          /\ byOffset' = [byOffset EXCEPT ![o] = {}]
          /\ byId' = [byId EXCEPT ![id] = {}]
          /\ ckids' = [ckids EXCEPT ![o] = byOffset[o] \cup byId[id]]
          /\ UNCHANGED <<pack, next, base, rootOffsets, ri, main, todo>>
        BY <1>14, <1>e, <2>1 DEF Process
    <2>3. /\ cpc'[o] # "idle" /\ \A q \in Entries \ {o} : cpc'[q] = cpc[q]
          /\ \A q \in Entries \ {o} : newIndex'[q] = newIndex[q]
        BY <1>14, <1>t DEF Process, Types
    <2>4. ckids[o] = {}
        BY <2>2 DEF Phases, KidsWait
    <2>5. /\ \A b \in Offsets : byOffset'[b] = IF b = o THEN {} ELSE byOffset[b]
          /\ \A j \in AllIds : byId'[j] = IF j = id THEN {} ELSE byId[j]
          /\ \A q \in Entries : ckids[q] \subseteq ckids'[q]
          /\ byOffset[o] \subseteq ckids'[o] /\ byId[id] \subseteq ckids'[o]
        BY <2>2, <2>4, <1>t
    <2>6. ASSUME NEW q \in Deltas, Placed(q) PROVE Placed(q)'
        <3>1. CASE q \in byOffset[pack[q].baseOff] \/ q \in byId[pack[q].baseId]
            BY <3>1, <2>2, <2>5, <1>d, <1>e DEF Placed
        <3>2. CASE q \in todo \/ \E p \in Entries : q \in ckids[p]
            BY <3>2, <2>2, <2>5 DEF Placed
        <3>3. CASE cpc[q] # "idle"
            BY <3>3, <2>3, <1>d DEF Placed
        <3> QED BY <2>6, <3>1, <3>2, <3>3 DEF Placed
    <2>7. /\ \A b \in Offsets : byOffset'[b] \subseteq byOffset[b]
          /\ \A j \in AllIds : byId'[j] \subseteq byId[j]
        BY <2>5
    <2>8. ASSUME NEW q \in Deltas, newIndex[q] = <<>>, newIndex'[q] # <<>>
          PROVE  byOffset'[q] = {} /\ byId'[pack[q].id] = {}
        <3>1. q = o
            BY <2>3, <2>8, <1>d
        <3> QED BY <2>2, <2>5, <3>1
    <2> QED BY <1>m, <1>l, <2>2, <2>6, <2>7, <2>8
<1>15. ASSUME NEW o \in Entries, ProcessFails(o) \/ Release(o) \/ Report(o) \/ Exit(o)
       PROVE  Complete'
    <2>1. /\ cpc[o] # "idle" /\ cpc'[o] # "idle" /\ \A q \in Entries \ {o} : cpc'[q] = cpc[q]
        BY <1>15, <1>t DEF ProcessFails, Release, Report, Exit
    <2>2. UNCHANGED <<pack, next, base, rootOffsets, ri, main, byOffset, byId, newIndex, ckids, todo>>
        BY <1>15 DEF ProcessFails, Release, Report, Exit
    <2>3. ASSUME NEW q \in Deltas, Placed(q) PROVE Placed(q)'
        BY <2>1, <2>2, <2>3, <1>d DEF Placed
    <2> QED BY <1>m, <1>l, <2>1, <2>2, <2>3
<1>16. ASSUME NEW o \in Entries, HandOff(o) \/ SpawnNext(o) PROVE Complete'
    <2>1. PICK k \in ckids[o] :
             /\ ckids' = [ckids EXCEPT ![o] = @ \ {k}]
             /\ cpc' = [cpc EXCEPT ![k] = "process",
                                   ![o] = IF ckids[o] = {k} THEN "exit" ELSE "spawn"]
        BY <1>16 DEF HandOff, SpawnNext
    <2>2. /\ cpc[o] # "idle"
          /\ UNCHANGED <<pack, next, base, rootOffsets, ri, main, byOffset, byId, newIndex, todo>>
        BY <1>16 DEF HandOff, SpawnNext
    <2>3. /\ cpc'[k] # "idle" /\ \A q \in Entries : cpc[q] # "idle" => cpc'[q] # "idle"
          /\ \A q \in Entries : ckids[q] \subseteq ckids'[q] \cup {k}
        BY <2>1, <1>t
    <2>4. ASSUME NEW q \in Deltas, Placed(q) PROVE Placed(q)'
        <3>1. CASE q = k
            BY <3>1, <2>3 DEF Placed
        <3>2. CASE q # k
            BY <3>2, <2>2, <2>3, <2>4, <1>d DEF Placed
        <3> QED BY <3>1, <3>2
    <2> QED BY <1>m, <1>l, <2>2, <2>4
<1> QED
    BY <1>1, <1>2, <1>3, <1>4, <1>5, <1>6, <1>7, <1>8, <1>9, <1>10, <1>11, <1>12, <1>13,
       <1>14, <1>15, <1>16
       DEF Next, BuildIndex, Crawl, Failure, Returned

-----------------------------------------------------------------------------
(* The invariant. *)

LEMMA InitIInv == Init => IInv
<1> SUFFICES ASSUME Init PROVE IInv
    OBVIOUS
<1>1. Types
    BY InitTypes
<1>2. /\ main = "scan" /\ next = 1 /\ base = {} /\ rootOffsets = <<>> /\ ri = 1 /\ todo = {}
      /\ sem = NumIndexers /\ wg = 0
      /\ \A b \in Offsets : byOffset[b] = {}
      /\ \A i \in AllIds : byId[i] = {}
      /\ \A o \in Entries : newIndex[o] = <<>> /\ cpc[o] = "idle" /\ ckids[o] = {}
    BY DEF Init
<1>3. ~err
    BY Zenon DEF Init
<1>4. \A o \in Entries : o \in Int /\ ~(o < 1)
    BY SizesAssumption DEF Entries
<1>5. Places
    BY <1>2 DEF Places, InOffsetMap, InIdMap, InTodo, InKids
<1>6. Live = {} /\ Holders = {} /\ Indexed = {}
    BY <1>2 DEF Live, Holders, Indexed
<1>7. Phases
    <2>1. ScanIsAlone /\ MainPhases
        BY <1>2, <1>3, <1>6 DEF ScanIsAlone, MainPhases
    <2>2. KidsWait /\ CrawlPhases
        BY <1>2 DEF KidsWait, CrawlPhases
    <2>3. BasesScanned
        BY <1>2, <1>4 DEF BasesScanned
    <2> QED BY <2>1, <2>2, <2>3 DEF Phases
<1>8. Counts
    <2>1. Cardinality(Live) = 0 /\ Cardinality(Holders) = 0
        BY <1>6, FS_EmptySet
    <2> QED BY <1>2, <2>1, SizesAssumption DEF Counts
<1>9. Sound
    BY <1>2, <1>6 DEF Sound, RowsRight, RowsWhen, AllReady, RowsResolvable
<1>10. Complete
    <2>1. NoneForgotten
        BY <1>2, <1>4 DEF NoneForgotten, Deltas
    <2> QED BY <1>2, <2>1 DEF Complete, RootsListed, RootsVisited, IdsVisited, DeltasVisited, Deltas
<1> QED
    BY <1>1, <1>5, <1>7, <1>8, <1>9, <1>10 DEF IInv

LEMMA NextIInv == IInv /\ [Next]_vars => IInv'
BY NextTypes, NextPlaces, NextPhases, NextCounts, NextSound, NextComplete DEF IInv

(* The inductive invariant holds of every reachable state. *)
THEOREM Invariance == Spec => []IInv
BY InitIInv, NextIInv, PTL DEF Spec

(***************************************************************************)
(* Type correctness: in particular the WaitGroup's counter never goes      *)
(* below zero (Go would panic) and the channel never holds more indexers   *)
(* than were made.                                                         *)
(***************************************************************************)
THEOREM TypeCorrect == Spec => []TypeOK
<1>1. IInv => TypeOK
    <2> SUFFICES ASSUME IInv PROVE TypeOK
        OBVIOUS
    <2>1. Cardinality(Live) \in Nat /\ Cardinality(Holders) \in Nat
        BY EntriesFinite, FS_CardinalityType
    <2>2. wg \in Nat /\ sem \in 0..NumIndexers
        BY <2>1, SizesAssumption DEF IInv, Types, Counts
    <2> QED BY <2>2 DEF IInv, Types, TypeOK
<1> QED
    BY <1>1, Invariance, PTL

(***************************************************************************)
(* No indexer is lost or shared between goroutines.                        *)
(***************************************************************************)
THEOREM IndexersConserved == Spec => []IndexerConservation
<1>1. IInv => IndexerConservation
    BY DEF IInv, Counts, IndexerConservation
<1> QED
    BY <1>1, Invariance, PTL

(***************************************************************************)
(* A failed goroutine makes BuildIndex fail.                               *)
(***************************************************************************)
THEOREM ErrorsReported == Spec => []ErrorNotLost
<1>1. IInv => ErrorNotLost
    BY DEF IInv, Phases, MainPhases, CrawlPhases, Live, ErrorNotLost
<1> QED
    BY <1>1, Invariance, PTL

(***************************************************************************)
(* When BuildIndex returns its goroutines are gone and its indexers idle.  *)
(***************************************************************************)
THEOREM NoneOutlives == Spec => []NoGoroutineOutlives
<1>1. IInv => NoGoroutineOutlives
    <2> SUFFICES ASSUME IInv, main \in {"ok", "err"}
                 PROVE  /\ \A o \in Entries : cpc[o] \in {"idle", "done", "failed"}
                        /\ sem = NumIndexers
        BY DEF NoGoroutineOutlives
    <2>1. \A o \in Entries : cpc[o] \in {"idle", "done", "failed"}
        BY DEF IInv, Phases, MainPhases, Live
    <2>2. Cardinality(Holders) = 0
        BY <2>1, FS_EmptySet DEF Holders
    <2> QED BY <2>1, <2>2, SizesAssumption DEF IInv, Counts, Types
<1> QED
    BY <1>1, Invariance, PTL

-----------------------------------------------------------------------------
(* The index. *)

(* When BuildIndex succeeds its rows are closed under applying deltas. *)
LEMMA RowsClosed == IInv /\ main = "ok" => Abstract!Closed(Indexed)
<1> SUFFICES ASSUME IInv, main = "ok", NEW o \in Entries, Abstract!HasBaseIn(Indexed, o)
             PROVE  o \in Indexed
    BY DEF Abstract!Closed
<1>t. /\ pack[o].kind \in {"base", "ofs", "ref"} /\ pack[o].baseOff \in Offsets
      /\ pack[o].baseId \in AllIds
    BY EntryFields DEF IInv, AllIds
<1>1. o < next
    BY SizesAssumption DEF IInv, Phases, MainPhases, Entries
<1>2. \A q \in Entries : cpc[q] \in {"idle", "done"} /\ ckids[q] = {}
    BY DEF IInv, Phases, MainPhases, CrawlPhases, KidsWait, Live
<1>3. todo = {}
    BY DEF IInv, Phases, MainPhases
(* Nothing is left under the key of an object that has a row. *)
<1>4. \A b \in Indexed : byOffset[b] = {} /\ byId[pack[b].id] = {}
    <2> SUFFICES ASSUME NEW b \in Indexed PROVE byOffset[b] = {} /\ byId[pack[b].id] = {}
        OBVIOUS
    <2>1. b \in Entries /\ newIndex[b] # <<>>
        BY DEF Indexed
    <2>2. CASE b \in base
        BY <2>2 DEF IInv, Complete, RootsVisited, IdsVisited, BaseIds
    <2>3. CASE b \notin base
        <3>1. b \in Deltas
            BY <2>1, <2>3 DEF IInv, Sound, RowsWhen, Phases, CrawlPhases
        <3> QED BY <2>1, <3>1 DEF IInv, Complete, DeltasVisited
    <2> QED BY <2>2, <2>3
<1>5. CASE pack[o].kind = "base"
    BY <1>1, <1>5 DEF IInv, Phases, BasesScanned, Sound, RowsWhen, Indexed
<1>6. CASE pack[o].kind # "base"
    <2>1. o \in Deltas
        BY <1>6 DEF Deltas
    <2>2. Placed(o)
        BY <1>1, <2>1 DEF IInv, Complete, NoneForgotten
    <2>3. o \notin byOffset[pack[o].baseOff]
        <3>1. pack[o].kind = "ofs" => pack[o].baseOff \in Indexed
            BY DEF Abstract!HasBaseIn
        <3> QED BY <1>4, <1>t, <3>1 DEF IInv, Places, InOffsetMap
    <2>4. o \notin byId[pack[o].baseId]
        <3>1. pack[o].kind = "ref" => \E b \in Indexed : pack[b].id = pack[o].baseId
            BY DEF Abstract!HasBaseIn
        <3> QED BY <1>4, <1>t, <3>1 DEF IInv, Places, InIdMap
    <2>5. cpc[o] = "done"
        BY <1>2, <1>3, <2>2, <2>3, <2>4 DEF Placed
    <2> QED BY <2>5 DEF IInv, Sound, RowsWhen, Indexed
<1> QED
    BY <1>5, <1>6

LEMMA RowsExact == IInv /\ main = "ok" => Indexed = Abstract!Resolvable
<1> SUFFICES ASSUME IInv, main = "ok" PROVE Indexed = Abstract!Resolvable
    OBVIOUS
<1>1. Indexed \in SUBSET Entries /\ Abstract!Closed(Indexed)
    BY RowsClosed DEF Indexed
<1>2. Abstract!Resolvable \subseteq Indexed
    BY <1>1 DEF Abstract!Resolvable
<1> QED
    BY <1>2 DEF IInv, Sound, RowsResolvable

(***************************************************************************)
(* The index BuildIndex returns has exactly the rows of the objects that   *)
(* can be reconstructed from the packfile, whatever the order its          *)
(* goroutines ran in.                                                      *)
(***************************************************************************)
THEOREM IndexCorrect == Spec => []IndexExact
<1>1. IInv => IndexExact
    <2> SUFFICES ASSUME IInv, main = "ok", NEW o \in Entries
                 PROVE  newIndex[o] = IF o \in Abstract!Resolvable THEN <<pack[o].id>> ELSE <<>>
        BY DEF IndexExact
    <2>1. o \in Abstract!Resolvable <=> newIndex[o] # <<>>
        BY RowsExact DEF Indexed
    <2> QED BY <2>1 DEF IInv, Sound, RowsRight
<1> QED
    BY <1>1, Invariance, PTL

-----------------------------------------------------------------------------
(* Steps. *)

(***************************************************************************)
(* crawl is started at most once for an entry.                             *)
(***************************************************************************)
THEOREM NeverCrawledAgain == Spec => CrawledOnce
<1>1. ASSUME IInv, [Next]_vars, NEW o \in Entries, cpc[o] # "process", cpc'[o] = "process"
      PROVE  cpc[o] = "idle"
    <2> USE DEF vars, crawlVars
    <2>t. /\ cpc \in [Entries -> CrawlPCs] /\ todo \in SUBSET Entries
          /\ ckids \in [Entries -> SUBSET Entries]
        BY <1>1 DEF IInv, Types
    <2>p. /\ \A k \in todo : cpc[k] = "idle"
          /\ \A q \in Entries : \A k \in ckids[q] : cpc[k] = "idle"
        BY <1>1 DEF IInv, Places, InTodo, InKids, Unmapped
    <2>1. CASE UNCHANGED cpc
        BY <1>1, <2>1
    <2>2. ASSUME NEW q \in Entries, StartChild(q) PROVE cpc[o] = "idle"
        BY <1>1, <2>2, <2>t, <2>p DEF StartChild
    <2>3. ASSUME NEW q \in Entries, HandOff(q) \/ SpawnNext(q) PROVE cpc[o] = "idle"
        <3>1. PICK k \in ckids[q] :
                 cpc' = [cpc EXCEPT ![k] = "process",
                                   ![q] = IF ckids[q] = {k} THEN "exit" ELSE "spawn"]
            BY <2>3 DEF HandOff, SpawnNext
        <3> QED BY <1>1, <3>1, <2>t, <2>p
    <2>4. ASSUME NEW q \in Entries,
                 Process(q) \/ ProcessFails(q) \/ Release(q) \/ Report(q) \/ Exit(q)
          PROVE  FALSE
        <3>1. /\ cpc'[q] # "process" /\ \A r \in Entries \ {q} : cpc'[r] = cpc[r]
            BY <2>4, <2>t DEF Process, ProcessFails, Release, Report, Exit
        <3> QED BY <1>1, <3>1
    <2>5. ASSUME NEW i \in AllIds, TakeId(i) \/ ReadIdFails(i) PROVE UNCHANGED cpc
        BY <2>5 DEF TakeId, ReadIdFails
    <2>6. CASE \/ ScanBase \/ ScanOffsetDelta \/ ScanRefDelta \/ ScanEnds \/ VisitRoot \/ RootsDone
               \/ IdsDone \/ Return \/ ScanFails \/ ReadRootFails \/ Returned \/ UNCHANGED vars
        BY <2>1, <2>6 DEF ScanBase, ScanOffsetDelta, ScanRefDelta, ScanEnds, VisitRoot,
                          RootsDone, IdsDone, Return, ScanFails, ReadRootFails, Returned
    <2> QED
        BY <1>1, <2>1, <2>2, <2>3, <2>4, <2>5, <2>6 DEF Next, BuildIndex, Crawl, Failure
<1>2. IInv /\ [Next]_vars =>
        [\A o \in Entries :
            (cpc[o] # "process" /\ cpc'[o] = "process") => cpc[o] = "idle"]_vars
    BY <1>1
<1> QED
    BY <1>2, Invariance, PTL DEF Spec, CrawledOnce

(***************************************************************************)
(* wg.Add never races with wg.Wait.                                        *)
(***************************************************************************)
THEOREM WaitGroupUsedRight == Spec => WaitGroupDiscipline
<1>1. ASSUME IInv, [Next]_vars, main \notin {"scan", "roots", "ids"}, wg = 0
      PROVE  wg' = 0
    <2> USE DEF vars
    <2>1. \A o \in Entries : cpc[o] \in {"idle", "done", "failed"}
        BY <1>1, NoneLive DEF IInv, Live
    <2>2. ASSUME NEW o \in Entries, Crawl(o) \/ ProcessFails(o) PROVE FALSE
        BY <2>1, <2>2 DEF Crawl, Process, ProcessFails, Release, Report, HandOff, SpawnNext, Exit
    <2>3. ASSUME NEW o \in Entries, StartChild(o) PROVE FALSE
        BY <1>1, <2>3 DEF StartChild
    <2>4. ASSUME NEW i \in AllIds, TakeId(i) \/ ReadIdFails(i) PROVE UNCHANGED wg
        BY <2>4 DEF TakeId, ReadIdFails
    <2>5. CASE \/ ScanBase \/ ScanOffsetDelta \/ ScanRefDelta \/ ScanEnds \/ VisitRoot \/ RootsDone
               \/ IdsDone \/ Return \/ ScanFails \/ ReadRootFails \/ Returned \/ UNCHANGED vars
        BY <1>1, <2>5 DEF ScanBase, ScanOffsetDelta, ScanRefDelta, ScanEnds, VisitRoot,
                          RootsDone, IdsDone, Return, ScanFails, ReadRootFails, Returned
    <2> QED
        BY <1>1, <2>2, <2>3, <2>4, <2>5 DEF Next, BuildIndex, Failure
<1>2. IInv /\ [Next]_vars =>
        [main \notin {"scan", "roots", "ids"} => (wg = 0 => wg' = 0)]_vars
    BY <1>1
<1> QED
    BY <1>2, Invariance, PTL DEF Spec, WaitGroupDiscipline

-----------------------------------------------------------------------------
(* The refinement. *)

(* What a step that adds the row of entry o looks like from PackIndex. *)
LEMMA RowAdded ==
    ASSUME IInv, NEW o \in Entries, o \notin base, cpc[o] \in {"idle", "process"},
           Abstract!HasBaseIn(Indexed, o), NEW id,
           newIndex' = [newIndex EXCEPT ![o] = Append(@, id)],
           UNCHANGED <<pack, main>>, main \notin {"ok", "err"}
    PROVE  Abstract!AddRow(o)
<1>1. newIndex[o] = <<>>
    BY DEF IInv, Sound, RowsWhen
<1>2. newIndex'[o] # <<>> /\ \A q \in Entries \ {o} : newIndex'[q] = newIndex[q]
    BY <1>1 DEF IInv, Types
<1>3. o \notin Indexed /\ Indexed' = Indexed \cup {o}
    BY <1>1, <1>2 DEF Indexed
<1> QED
    BY <1>3 DEF Abstract!AddRow

(***************************************************************************)
(* BuildIndex, with its scan and its concurrent crawl, implements PackIndex. *)
(***************************************************************************)
THEOREM Refinement == Spec => ImplementsPackIndex
<1>1. Init => Abstract!Init
    BY DEF Init, Abstract!Init, Indexed
<1>2. IInv /\ IInv' /\ [Next]_vars => [Abstract!Next]_Abstract!vars
    <2> SUFFICES ASSUME IInv, IInv', [Next]_vars PROVE [Abstract!Next]_Abstract!vars
        OBVIOUS
    <2> USE DEF vars, scanVars, mainVars, mapVars, crawlVars, Abstract!vars
    <2>i. newIndex' = newIndex => Indexed' = Indexed
        BY DEF Indexed
    <2>m. main \in MainPCs
        BY DEF IInv, Types
    (* No row is added and BuildIndex does not return. *)
    <2>q. ASSUME UNCHANGED <<pack, newIndex>>,
                 main' = main \/ (main \notin {"ok", "err"} /\ main' \notin {"ok", "err"})
          PROVE  [Abstract!Next]_Abstract!vars
        BY <2>q, <2>i
    <2>f. ASSUME UNCHANGED <<pack, newIndex>>, main \notin {"ok", "err"}, main' = "err"
          PROVE  Abstract!Fail
        BY <2>f, <2>i DEF Abstract!Fail
    <2>s. ASSUME UNCHANGED <<pack, newIndex>>, main \notin {"ok", "err"}, main' = "ok"
          PROVE  Abstract!Succeed
        <3>0. (IInv /\ main = "ok" => Indexed = Abstract!Resolvable)'
            BY RowsExact, PTL
        <3>1. Indexed' = Abstract!Resolvable'
            BY <2>s, <3>0
        <3>2. Abstract!Resolvable' = Abstract!Resolvable
            BY <2>s DEF Abstract!Resolvable, Abstract!Closed, Abstract!HasBaseIn
        <3> QED BY <2>s, <2>i, <3>1, <3>2 DEF Abstract!Succeed
    <2>1. CASE ScanBase
        <3>1. /\ next \in Entries /\ main = "scan" /\ pack[next].kind = "base"
              /\ newIndex' = [newIndex EXCEPT ![next] = Append(@, pack[next].id)]
              /\ UNCHANGED <<pack, main>>
            BY <2>1 DEF ScanBase
        <3>2. next \notin base /\ cpc[next] = "idle"
            BY <3>1, SizesAssumption DEF IInv, Phases, ScanIsAlone, BasesScanned, Entries
        <3>3. Abstract!HasBaseIn(Indexed, next)
            BY <3>1 DEF Abstract!HasBaseIn
        <3>4. Abstract!AddRow(next)
            BY <3>1, <3>2, <3>3, RowAdded
        <3> QED BY <3>1, <3>4 DEF Abstract!Next
    <2>2. ASSUME NEW o \in Entries, Process(o) PROVE [Abstract!Next]_Abstract!vars
        <3>1. /\ cpc[o] = "process" /\ UNCHANGED <<pack, main>>
              /\ newIndex' = [newIndex EXCEPT ![o] = Append(@, Undeltify(cbase[o], o))]
            BY <2>2 DEF Process
        <3>2. o \notin base
            BY <3>1 DEF IInv, Phases, CrawlPhases, BasesScanned, Deltas
        <3>3. Abstract!HasBaseIn(Indexed, o)
            BY <3>1 DEF IInv, Sound, AllReady, Ready
        <3>4. main \notin {"ok", "err"}
            BY <3>1 DEF IInv, Phases, MainPhases, Live
        <3>5. Abstract!AddRow(o)
            BY <3>1, <3>2, <3>3, <3>4, RowAdded
        <3> QED BY <3>5 DEF Abstract!Next
    <2>3. CASE ScanOffsetDelta
        BY <2>3, <2>q, <2>f DEF ScanOffsetDelta, Abstract!Next
    <2>4. CASE ScanEnds
        BY <2>4, <2>q, <2>s DEF ScanEnds, Abstract!Next
    <2>5. CASE Return
        BY <2>5, <2>f, <2>s DEF Return, Abstract!Next
    <2>6. CASE ScanFails
        BY <2>6, <2>f DEF ScanFails, Abstract!Next
    <2>7. CASE \/ ScanRefDelta \/ VisitRoot \/ RootsDone \/ IdsDone \/ ReadRootFails
               \/ Returned \/ UNCHANGED vars
        BY <2>7, <2>q DEF ScanRefDelta, VisitRoot, RootsDone, IdsDone, ReadRootFails, Returned
    <2>8. ASSUME NEW i \in AllIds, TakeId(i) \/ ReadIdFails(i) PROVE [Abstract!Next]_Abstract!vars
        BY <2>8, <2>q DEF TakeId, ReadIdFails
    <2>9. ASSUME NEW o \in Entries, StartChild(o) PROVE [Abstract!Next]_Abstract!vars
        BY <2>9, <2>q DEF StartChild
    <2>10. ASSUME NEW o \in Entries,
                  \/ ProcessFails(o) \/ Release(o) \/ Report(o) \/ HandOff(o) \/ SpawnNext(o)
                  \/ Exit(o)
           PROVE  [Abstract!Next]_Abstract!vars
        BY <2>10, <2>q DEF ProcessFails, Release, Report, HandOff, SpawnNext, Exit
    <2> QED
        BY <2>1, <2>2, <2>3, <2>4, <2>5, <2>6, <2>7, <2>8, <2>9, <2>10
           DEF Next, BuildIndex, Crawl, Failure
<1> QED
    BY <1>1, <1>2, Invariance, PTL DEF Spec, ImplementsPackIndex, Abstract!Spec
=============================================================================
