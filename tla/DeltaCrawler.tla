---------------------------- MODULE DeltaCrawler ----------------------------
(***************************************************************************)
(* packfile.BuildIndex: the serial pass over the packfile, the goroutine   *)
(* that calls BuildIndex, and the goroutines of the deltaCrawler that      *)
(* undeltify objects concurrently.  The goroutines share the index being   *)
(* built and the two maps of unprocessed deltas (under deltaCrawler.mu), a *)
(* channel that holds the idle indexers, a WaitGroup and the first error.  *)
(*                                                                         *)
(* An object ID stands for the type and the content it is the hash of.  A  *)
(* slice of children is a set: its order only picks which child inherits   *)
(* the parent's indexer, so every order is explored.                       *)
(***************************************************************************)
EXTENDS Integers, Sequences, FiniteSets

CONSTANTS
    NumEntries,   \* number of objects the packfile's header announces
    Ids,          \* object IDs
    Corrupt,      \* the ID of a delta applied to a base it was not made for
    Packs,        \* the packfiles to index
    NumIndexers   \* capacity of deltaCrawler.sem

Entries == 1..NumEntries
Offsets == 0..NumEntries   \* 0: an offset at which no entry starts
AllIds  == Ids \cup {Corrupt}

(***************************************************************************)
(* A packfile entry, with what readObjectHeader says of it, the ID of the  *)
(* object it encodes, and whether that object exceeds maxDeltaObjectSize.  *)
(***************************************************************************)
EntryRecs == [kind : {"base", "ofs", "ref"}, id : Ids,
              baseOff : Offsets, baseId : Ids, big : BOOLEAN]

ASSUME SizesAssumption ==
    /\ NumEntries \in Nat
    /\ NumIndexers \in Nat \ {0}
    /\ Corrupt \notin Ids

(* readOffset only yields offsets that point backwards or at the entry; an *)
(* object has one size.                                                    *)
ASSUME PacksAssumption ==
    \A p \in Packs : /\ p \in [Entries -> EntryRecs]
                     /\ \A o \in Entries : p[o].baseOff <= o
                     /\ \A o, q \in Entries : p[o].id = p[q].id => p[o].big = p[q].big

VARIABLES
    pack,         \* the packfile being indexed
    next,         \* the entry baseIndexPass reads next
    base,         \* the offsets in base.Index
    rootOffsets,  \* baseIndex.rootOffsets, and how far BuildIndex got in it
    ri,
    byOffset,     \* childrenByOffset; {} is an absent key
    byId,         \* childrenByID; {} is an absent key
    newIndex,     \* the IDs of the index's rows, by the row's offset
    main,         \* where BuildIndex is
    todo,         \* children BuildIndex took and has not started, and the
    todoBase,     \* object they are deltas of
    sem,          \* number of idle indexers in deltaCrawler.sem
    wg,           \* counter of deltaCrawler.wg
    err,          \* deltaCrawler.err is set
    cpc,          \* where the goroutine that crawls an entry is
    cbase,        \* the base object the goroutine was given
    ckids         \* the children it took and has not started

scanVars  == <<next, base, rootOffsets>>
mainVars  == <<main, ri, todo, todoBase>>
mapVars   == <<byOffset, byId, newIndex>>
crawlVars == <<cpc, cbase, ckids>>
vars == <<pack, scanVars, mainVars, mapVars, sem, wg, err, crawlVars>>

CrawlPCs == {"idle", "process", "release", "handoff", "spawn", "exit", "done",
             "failRelease", "report", "exitFailed", "failed"}
MainPCs  == {"scan", "roots", "ids", "wait", "drain", "ok", "err"}

TypeOK ==
    /\ pack \in [Entries -> EntryRecs]
    /\ next \in 1..(NumEntries + 1)
    /\ base \in SUBSET Entries
    /\ rootOffsets \in Seq(Entries)
    /\ ri \in Nat \ {0}
    /\ byOffset \in [Offsets -> SUBSET Entries]
    /\ byId \in [AllIds -> SUBSET Entries]
    /\ newIndex \in [Entries -> Seq(AllIds)]
    /\ main \in MainPCs
    /\ todo \in SUBSET Entries
    /\ todoBase \in AllIds
    /\ sem \in 0..NumIndexers
    /\ wg \in Nat
    /\ err \in BOOLEAN
    /\ cpc \in [Entries -> CrawlPCs]
    /\ cbase \in [Entries -> AllIds]
    /\ ckids \in [Entries -> SUBSET Entries]

Init ==
    /\ pack \in Packs
    /\ next = 1
    /\ base = {}
    /\ rootOffsets = <<>>
    /\ ri = 1
    /\ byOffset = [b \in Offsets |-> {}]
    /\ byId = [i \in AllIds |-> {}]
    /\ newIndex = [o \in Entries |-> <<>>]
    /\ main = "scan"
    /\ todo = {}
    /\ todoBase = Corrupt
    /\ sem = NumIndexers
    /\ wg = 0
    /\ err = FALSE
    /\ cpc = [o \in Entries |-> "idle"]
    /\ cbase = [o \in Entries |-> Corrupt]
    /\ ckids = [o \in Entries |-> {}]

-----------------------------------------------------------------------------
(* The serial pass: baseIndexPass, then BuildIndex's checks on the trailer. *)

ScanBase ==
    /\ main = "scan" /\ next \in Entries
    /\ pack[next].kind = "base"
    /\ base' = base \cup {next}
    /\ newIndex' = [newIndex EXCEPT ![next] = Append(@, pack[next].id)]
    /\ next' = next + 1
    /\ UNCHANGED <<pack, rootOffsets, byOffset, byId, mainVars, sem, wg, err, crawlVars>>

ScanOffsetDelta ==
    /\ main = "scan" /\ next \in Entries
    /\ pack[next].kind = "ofs"
    /\ LET b == pack[next].baseOff IN
         IF b \in base /\ pack[b].big
         THEN /\ main' = "err"     \* delta object base too large
              /\ UNCHANGED <<byOffset, rootOffsets, next>>
         ELSE /\ byOffset' = [byOffset EXCEPT ![b] = @ \cup {next}]
              /\ rootOffsets' = IF b \in base THEN Append(rootOffsets, b)
                                              ELSE rootOffsets
              /\ next' = next + 1
              /\ UNCHANGED main
    /\ UNCHANGED <<pack, base, ri, todo, todoBase, byId, newIndex, sem, wg, err, crawlVars>>

ScanRefDelta ==
    /\ main = "scan" /\ next \in Entries
    /\ pack[next].kind = "ref"
    /\ byId' = [byId EXCEPT ![pack[next].baseId] = @ \cup {next}]
    /\ next' = next + 1
    /\ UNCHANGED <<pack, base, rootOffsets, byOffset, newIndex, mainVars, sem, wg, err, crawlVars>>

(* The file cannot be read, an entry is malformed, or the trailer is wrong. *)
ScanFails ==
    /\ main = "scan"
    /\ main' = "err"
    /\ UNCHANGED <<pack, scanVars, ri, todo, todoBase, mapVars, sem, wg, err, crawlVars>>

HasDeltas == (\E b \in Offsets : byOffset[b] # {}) \/ (\E i \in AllIds : byId[i] # {})

ScanEnds ==
    /\ main = "scan" /\ next = NumEntries + 1
    /\ main' = IF HasDeltas THEN "roots" ELSE "ok"
    /\ UNCHANGED <<pack, scanVars, ri, todo, todoBase, mapVars, sem, wg, err, crawlVars>>

-----------------------------------------------------------------------------
(* BuildIndex hands the children of every non-delta object to goroutines.  *)

(* Mutant: the WaitGroup is not told of the goroutine. *)
StartUncounted(o, baseId) ==
    /\ wg' = wg
    /\ cbase' = [cbase EXCEPT ![o] = baseId]

(* startCrawl, once the caller has an indexer. *)
StartGoroutine(o, baseId) ==
    /\ wg' = wg + 1
    /\ cbase' = [cbase EXCEPT ![o] = baseId]

(* Mutant: a root is never taken off the list. *)
VisitSameRoot ==
    /\ main = "roots" /\ todo = {} /\ ri <= Len(rootOffsets)
    /\ LET root == rootOffsets[ri] IN
         /\ todo' = byOffset[root]
         /\ todoBase' = pack[root].id
         /\ byOffset' = [byOffset EXCEPT ![root] = {}]
    /\ UNCHANGED <<pack, scanVars, main, ri, byId, newIndex, sem, wg, err, crawlVars>>

VisitRoot ==
    /\ main = "roots" /\ todo = {} /\ ri <= Len(rootOffsets)
    /\ LET root == rootOffsets[ri] IN
         /\ todo' = byOffset[root]
         /\ todoBase' = pack[root].id
         /\ byOffset' = [byOffset EXCEPT ![root] = {}]
    /\ ri' = ri + 1
    /\ UNCHANGED <<pack, scanVars, main, byId, newIndex, sem, wg, err, crawlVars>>

(* Mutant: BuildIndex returns without its deferred wait. *)
ReadRootFailsNoWait ==
    /\ main = "roots" /\ todo = {} /\ ri <= Len(rootOffsets)
    /\ main' = "err"
    /\ UNCHANGED <<pack, scanVars, ri, todo, todoBase, mapVars, sem, wg, err, crawlVars>>

(* readBaseObject fails: BuildIndex returns, after its deferred wait. *)
ReadRootFails ==
    /\ main = "roots" /\ todo = {} /\ ri <= Len(rootOffsets)
    /\ main' = "drain"
    /\ UNCHANGED <<pack, scanVars, ri, todo, todoBase, mapVars, sem, wg, err, crawlVars>>

RootsDone ==
    /\ main = "roots" /\ todo = {} /\ ri > Len(rootOffsets)
    /\ main' = "ids"
    /\ UNCHANGED <<pack, scanVars, ri, todo, todoBase, mapVars, sem, wg, err, crawlVars>>

(* The IDs base.Index.FindID finds. *)
BaseIds == {pack[b].id : b \in base}

(* Mutant: the ID is not looked up in the base index. *)
TakeAnyId(i) ==
    /\ main = "ids" /\ todo = {}
    /\ byId[i] # {}
    /\ byId' = [byId EXCEPT ![i] = {}]
    /\ todo' = byId[i]
    /\ todoBase' = i
    /\ UNCHANGED <<pack, scanVars, main, ri, byOffset, newIndex, sem, wg, err, crawlVars>>

(* The map is ranged over in an unspecified order. *)
TakeId(i) ==
    /\ main = "ids" /\ todo = {}
    /\ byId[i] # {} /\ i \in BaseIds
    /\ byId' = [byId EXCEPT ![i] = {}]
    /\ todo' = byId[i]
    /\ todoBase' = i
    /\ UNCHANGED <<pack, scanVars, main, ri, byOffset, newIndex, sem, wg, err, crawlVars>>

(* readBaseObject fails after the children were taken out of the map. *)
ReadIdFails(i) ==
    /\ main = "ids" /\ todo = {}
    /\ byId[i] # {} /\ i \in BaseIds
    /\ byId' = [byId EXCEPT ![i] = {}]
    /\ main' = "drain"
    /\ UNCHANGED <<pack, scanVars, ri, todo, todoBase, byOffset, newIndex, sem, wg, err, crawlVars>>

IdsDone ==
    /\ main = "ids" /\ todo = {}
    /\ \A i \in BaseIds : byId[i] = {}
    /\ main' = "wait"
    /\ UNCHANGED <<pack, scanVars, ri, todo, todoBase, mapVars, sem, wg, err, crawlVars>>

(* BuildIndex blocks until an indexer is idle. *)
StartChild(o) ==
    /\ main \in {"roots", "ids"} /\ o \in todo
    /\ sem > 0
    /\ sem' = sem - 1
    /\ StartGoroutine(o, todoBase)
    /\ cpc' = [cpc EXCEPT ![o] = "process"]
    /\ todo' = todo \ {o}
    /\ UNCHANGED <<pack, scanVars, main, ri, todoBase, mapVars, err, ckids>>

(* Mutant: c.err is read before the goroutines are done. *)
ReturnEarly ==
    /\ main \in {"wait", "drain"}
    /\ main' = IF main = "drain" \/ err THEN "err" ELSE "ok"
    /\ UNCHANGED <<pack, scanVars, ri, todo, todoBase, mapVars, sem, wg, err, crawlVars>>

(* wait returns, and with it BuildIndex: the rows are sorted by ID. *)
Return ==
    /\ main \in {"wait", "drain"} /\ wg = 0
    /\ main' = IF main = "drain" \/ err THEN "err" ELSE "ok"
    /\ UNCHANGED <<pack, scanVars, ri, todo, todoBase, mapVars, sem, wg, err, crawlVars>>

-----------------------------------------------------------------------------
(* deltaCrawler.crawl, run by one goroutine for every deltified object.    *)

(* The object the delta of entry o was computed against. *)
TrueBase(o) == IF pack[o].kind = "ofs" THEN pack[pack[o].baseOff].id ELSE pack[o].baseId

(* indexer.undeltify: the ID of what entry o's delta makes of the object. *)
Undeltify(baseId, o) == IF baseId = TrueBase(o) THEN pack[o].id ELSE Corrupt

(* Mutant: children by ID are looked up only if there are none by offset. *)
ProcessOneMap(o) ==
    /\ cpc[o] = "process"
    /\ LET id   == Undeltify(cbase[o], o)
           kids == IF byOffset[o] # {} THEN byOffset[o] ELSE byId[id]
       IN  /\ newIndex' = [newIndex EXCEPT ![o] = Append(@, id)]
           /\ byOffset' = [byOffset EXCEPT ![o] = {}]
           /\ byId' = [byId EXCEPT ![id] = {}]
           /\ ckids' = [ckids EXCEPT ![o] = kids]
           /\ cpc' = [cpc EXCEPT ![o] = IF kids = {} THEN "release" ELSE "handoff"]
    /\ UNCHANGED <<pack, scanVars, mainVars, sem, wg, err, cbase>>

(* The critical section of process: add the row, take what it unblocks. *)
Process(o) ==
    /\ cpc[o] = "process"
    /\ LET id   == Undeltify(cbase[o], o)
           kids == byOffset[o] \cup byId[id]
       IN  /\ newIndex' = [newIndex EXCEPT ![o] = Append(@, id)]
           /\ byOffset' = [byOffset EXCEPT ![o] = {}]
           /\ byId' = [byId EXCEPT ![id] = {}]
           /\ ckids' = [ckids EXCEPT ![o] = kids]
           /\ cpc' = [cpc EXCEPT ![o] = IF kids = {} THEN "release" ELSE "handoff"]
    /\ UNCHANGED <<pack, scanVars, mainVars, sem, wg, err, cbase>>

(* The entry cannot be read or its delta does not decompress. *)
ProcessFails(o) ==
    /\ cpc[o] = "process"
    /\ cpc' = [cpc EXCEPT ![o] = "failRelease"]
    /\ UNCHANGED <<pack, scanVars, mainVars, mapVars, sem, wg, err, cbase, ckids>>

(* Sending the indexer back blocks while the channel is full. *)
Release(o) ==
    /\ cpc[o] \in {"release", "failRelease"}
    /\ sem < NumIndexers
    /\ sem' = sem + 1
    /\ cpc' = [cpc EXCEPT ![o] = IF @ = "release" THEN "exit" ELSE "report"]
    /\ UNCHANGED <<pack, scanVars, mainVars, mapVars, wg, err, cbase, ckids>>

(* errOnce keeps the first error. *)
Report(o) ==
    /\ cpc[o] = "report"
    /\ err' = TRUE
    /\ cpc' = [cpc EXCEPT ![o] = "exitFailed"]
    /\ UNCHANGED <<pack, scanVars, mainVars, mapVars, sem, wg, cbase, ckids>>

(* Mutant: the indexer is also sent back. *)
HandOffAndRelease(o) ==
    /\ cpc[o] = "handoff"
    /\ sem' = sem + 1
    /\ \E k \in ckids[o] :
         /\ StartGoroutine(k, Undeltify(cbase[o], o))
         /\ ckids' = [ckids EXCEPT ![o] = @ \ {k}]
         /\ cpc' = [cpc EXCEPT ![k] = "process",
                               ![o] = IF ckids[o] = {k} THEN "exit" ELSE "spawn"]
    /\ UNCHANGED <<pack, scanVars, mainVars, mapVars, err>>

(* The first child inherits the indexer. *)
HandOff(o) ==
    /\ cpc[o] = "handoff"
    /\ \E k \in ckids[o] :
         /\ StartGoroutine(k, Undeltify(cbase[o], o))
         /\ ckids' = [ckids EXCEPT ![o] = @ \ {k}]
         /\ cpc' = [cpc EXCEPT ![k] = "process",
                               ![o] = IF ckids[o] = {k} THEN "exit" ELSE "spawn"]
    /\ UNCHANGED <<pack, scanVars, mainVars, mapVars, sem, err>>

(* The others wait for one. *)
SpawnNext(o) ==
    /\ cpc[o] = "spawn"
    /\ sem > 0
    /\ sem' = sem - 1
    /\ \E k \in ckids[o] :
         /\ StartGoroutine(k, Undeltify(cbase[o], o))
         /\ ckids' = [ckids EXCEPT ![o] = @ \ {k}]
         /\ cpc' = [cpc EXCEPT ![k] = "process",
                               ![o] = IF ckids[o] = {k} THEN "exit" ELSE "spawn"]
    /\ UNCHANGED <<pack, scanVars, mainVars, mapVars, err>>

Exit(o) ==
    /\ cpc[o] \in {"exit", "exitFailed"}
    /\ wg' = wg - 1
    /\ cpc' = [cpc EXCEPT ![o] = IF @ = "exit" THEN "done" ELSE "failed"]
    /\ UNCHANGED <<pack, scanVars, mainVars, mapVars, sem, err, cbase, ckids>>

-----------------------------------------------------------------------------
(* The steps of a run in which every read of the file succeeds. *)
BuildIndex ==
    \/ ScanBase \/ ScanOffsetDelta \/ ScanRefDelta \/ ScanEnds
    \/ VisitRoot \/ RootsDone
    \/ \E i \in AllIds : TakeId(i)
    \/ IdsDone
    \/ \E o \in Entries : StartChild(o)
    \/ Return

Crawl(o) ==
    Process(o) \/ Release(o) \/ Report(o) \/ HandOff(o) \/ SpawnNext(o) \/ Exit(o)

Failure ==
    \/ ScanFails \/ ReadRootFails
    \/ \E i \in AllIds : ReadIdFails(i)
    \/ \E o \in Entries : ProcessFails(o)

Returned == main \in {"ok", "err"} /\ UNCHANGED vars

Next == BuildIndex \/ (\E o \in Entries : Crawl(o)) \/ Failure \/ Returned

(***************************************************************************)
(* A goroutine that can run is run, and a read of the file that does not   *)
(* fail returns.  No failure has to happen for BuildIndex to return.       *)
(***************************************************************************)
Fairness == WF_vars(BuildIndex) /\ \A o \in Entries : WF_vars(Crawl(o))

Spec == Init /\ [][Next]_vars

FairSpec == Spec /\ Fairness

-----------------------------------------------------------------------------
Indexed == {o \in Entries : newIndex[o] # <<>>}

Abstract == INSTANCE PackIndex WITH
    rows    <- Indexed,
    outcome <- IF main \in {"ok", "err"} THEN main ELSE "running"

(***************************************************************************)
(* When BuildIndex returns no error, its index has exactly one row, with   *)
(* the right object ID, for every entry that can be reconstructed from the *)
(* packfile, and no other row.  A child registered by the scan, taken by   *)
(* two goroutines or by none, would show here.                             *)
(***************************************************************************)
IndexExact ==
    main = "ok" => \A o \in Entries :
        newIndex[o] = IF o \in Abstract!Resolvable THEN <<pack[o].id>> ELSE <<>>

(***************************************************************************)
(* BuildIndex never succeeds when a goroutine it started failed, whether   *)
(* it failed long ago or is just about to report: crawl sets c.err before  *)
(* its deferred wg.Done, and wait reads c.err after wg.Wait.               *)
(***************************************************************************)
ErrorNotLost ==
    main = "ok" => \A o \in Entries :
        cpc[o] \notin {"failRelease", "report", "exitFailed", "failed"}

(***************************************************************************)
(* No goroutine outlives BuildIndex, on its error returns either (defer    *)
(* c.wait()), and every indexer is back in deltaCrawler.sem: a goroutine   *)
(* left behind would read a file the caller may have closed.               *)
(***************************************************************************)
NoGoroutineOutlives ==
    main \in {"ok", "err"} =>
        /\ \A o \in Entries : cpc[o] \in {"idle", "done", "failed"}
        /\ sem = NumIndexers

(***************************************************************************)
(* An indexer is idle in the channel or used by one goroutine: crawl hands *)
(* it to its first child or sends it back, never both, so no two           *)
(* goroutines share a decompressor and the send in crawl never blocks.     *)
(***************************************************************************)
Holders == {o \in Entries : cpc[o] \in {"process", "release", "failRelease", "handoff"}}

IndexerConservation == sem + Cardinality(Holders) = NumIndexers

(***************************************************************************)
(* crawl runs at most once for an entry: a goroutine is only ever started  *)
(* for an entry that none was started for.                                 *)
(***************************************************************************)
CrawledOnce ==
    [][\A o \in Entries :
         (cpc[o] # "process" /\ cpc'[o] = "process") => cpc[o] = "idle"]_vars

(***************************************************************************)
(* "startCrawl must not be called after wait returns" and the WaitGroup's  *)
(* own rule: once wait was called the counter is never raised from zero,   *)
(* so that a late Add cannot race with wg.Wait.                            *)
(***************************************************************************)
WaitGroupDiscipline ==
    [][main \notin {"scan", "roots", "ids"} => (wg = 0 => wg' = 0)]_vars

(***************************************************************************)
(* BuildIndex returns: no goroutine waits forever for an indexer, for room *)
(* in the channel or for the WaitGroup, and no delta is handed out twice   *)
(* by a cycle of deltas.                                                   *)
(***************************************************************************)
Termination == <>(main \in {"ok", "err"})

(***************************************************************************)
(* The concurrent crawl implements the sequential promise of PackIndex.    *)
(***************************************************************************)
ImplementsPackIndex == Abstract!Spec

=============================================================================
