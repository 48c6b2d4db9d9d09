# A TLA+ development of gg-scm.io/pkg/git

Specifications of the parts of this repository in which goroutines, pipes,
subprocesses, protocol peers and callers interact, and of the object formats;
TLC configurations that check them on small instances; TLAPS proofs, for every
value of the constants, of every safety property that the passing runs check.

`tlc -config X.cfg M` checks a run of the table in section 4, `tlapm M.tla` the
proofs in the eight modules whose names end in `Proofs`. `PROJECT.json` says for
every definition which lines of the source it models, for every property which
slip in the code it would notice, and lists the hazards the properties are for.

1. [Inventory](#1-inventory)
2. [How the modules are built](#2-how-the-modules-are-built)
3. [The modules](#3-the-modules)
4. [The runs](#4-the-runs)
5. [Fairness](#5-fairness)
6. [The proofs](#6-the-proofs)
7. [Where code and documentation disagree](#7-where-code-and-documentation-disagree)
8. [What is not modelled](#8-what-is-not-modelled)
9. [Plan](#9-plan)

## 1. Inventory

The package is a library around the Git command line (package `git`), with a
packfile reader, writer and indexer (`packfile`) and a client of Git's transfer
protocols (`packfile/client`). There is no server and nothing is stored but what
Git stores; what is hard is concurrency within a call, subprocesses and peers
that stop anywhere, and streams that are cut.

### 1.1 packfile.BuildIndex (`packfile/buildindex.go`)

*State.* A `deltaCrawler`, shared by the calling goroutine and one goroutine per
deltified object: the index being built, two maps of deltas that wait for a base
(`childrenByOffset`, `childrenByID`) under `mu`, the channel `sem` of idle
indexers (decompressor, hash, buffers), a `WaitGroup`, the first error.
*Operations.* A serial pass over the packfile that hashes the plain objects and
registers the deltas; `startCrawl`, `crawl`, `wait`.
*Interactions.* Reads the packfile with `readObjectHeader` and an Undeltifier's
`DeltaReader`; its index is what `Undeltifier` and `Index` files work on.
*Hard.* A delta may precede its base, name an object that occurs twice, itself,
or nothing. A goroutine takes children while another adds the object they wait
for. A failing goroutine gives its indexer back before it stores the error.
BuildIndex may return early while goroutines read the caller's file.
*Correct if* a nil error means one row, with the right ID, for every object that
can be reconstructed; no error is lost; nothing outlives the call; the call
returns; indexers are neither lost nor shared.

### 1.2 Git.getVersion (`git.go`)

*State.* `version` and the channel `versionCond` under `versionMu`.
*Operations.* `getVersion`: return what is cached, wait for the run of another
call, or run `git --version` with the caller's own context.
*Interactions.* Every operation that depends on Git's version calls it, from any
goroutine; `Local.RunGit` and `sigterm`.
*Hard.* The mutex is not held during the run or the wait; the leader may fail or
be cancelled while others wait; what a woken call sees may be a third call's.
*Correct if* there is one run at a time and none once cached; errors are not
shared; a cancelled call returns; the calls together are a memo cell.

Two operations act on the version. **`Status`** (`status.go`) reads the output of
`git status` in one of three ways; **`Config.ListRemotes`** (`config.go`) chooses
between repeated URLs, from settings that `ReadConfig` captured with the warnings
of Git in the same buffer. *Hard.* The version is that of an earlier run: Git may
have been replaced since, or not have told. A wrong guess takes an entry for a
name. *Correct if* what is returned is what the Git that ran meant.

### 1.3 Subprocesses behind a pipe (`git.go`, `internal/sigterm`, `exit.go`)

*State.* The process, the two ends of its pipe, the goroutine that turns a done
context into SIGTERM, what was waited for.
*Operations.* `StartPipe` with a `Piper` (an OS pipe, `Local.PipeGit`) or without
(`startPipeFallback`: `io.Pipe` and a goroutine that runs `RunGit`), `Close`,
`Wait`; `sigterm.Start`/`Wait`.
*Hard.* Full pipes; order of closing and waiting; exit statuses that mean
"nothing found"; a process killed in the middle of a line.

Three readers use it:

* **`Git.Cat`/`catReader`** (`api.go`): reads the first byte before it returns, so
  that "no such file" is an error of Cat and not of Read. *Correct if* an empty
  reader is an empty file and a clean end is the whole file.
* **`RefIterator`** (`revision.go`, `net.go`): `show-ref` and `ls-remote`, line by
  line, filtered, exit status 1 excused when nothing was listed. *Correct if* a
  clean end is the whole listing.
* **`Log`** (`log.go`): `rev-list` piped into `cat-file --batch`, with the copying
  goroutine of `os/exec` between them and one context for both. *Correct if* a
  clean end is the whole log, lines and objects stay paired, and Close ends both.
  The standard error of both goes through `muxWriter`, line by line, into a buffer
  that takes 4096 bytes and then fails (`limitWriter`), which ends the copying and
  makes Close fail. *Correct if* what an error shows of it is whole lines, in the
  order of their process, with nothing lost unless the log failed.

### 1.4 Refs and their mutations (`revision.go`)

*State.* The refs of a repository (Git's). *Operations.* `ParseRev`, the
`RefMutation` constructors, `MutateRefs` (one transaction of
`git update-ref --stdin`). *Hard.* Others change the refs between a read and the
conditional update. *Correct if* a mutation that succeeds did what its
constructor promises of the values at that moment.

### 1.5 The protocol client (`packfile/client`, `internal/pktline`)

*State.* A `PullStream` (advertised refs, capabilities, whether the advertisement
was read), a response body with a position in its sections, the reader of a
packfile; a `PushStream` and its connection (a local subprocess, or for HTTP an
`io.Pipe` and the goroutine that posts it).
*Operations.* `StartPull`, `ListRefs`, `Negotiate`, reading, `Close`; `StartPush`,
`WriteCommands`, `Write`, `Close`.
*Interactions.* `Remote` opens local or HTTP connections; `pktline.Reader`
delivers packets with a sticky error; the packfile goes to `packfile`.
*Hard.* Two protocol versions whose responses have different optional sections;
any response cut at any packet; the server's error in the middle of a packfile;
a push of which a part fails or whose report is lost; the posting goroutine
racing Write, Close and the context.
*Correct if* a listing, a set of acknowledgements or a packfile that ends well is
whole; a nil Close of a push means that the refs were updated; nothing is left
open or running.

### 1.6 Packfiles (`packfile`)

*State.* The Writer's offset, count and open zlib stream; the Reader's count and
the rest of the current object; the Undeltifier's two buffers and its
decompressor, reused by every call. An `Index` in memory and its file formats.
*Operations.* `WriteHeader`, `Write`, `Close`; `Next`, `Read`; `Undeltify`,
`ResolveType`, `DeltaObjectSize`; `EncodeV1`, `EncodeV2`, `ReadIndex`, `FindID`.
*Hard.* Packs cut at any byte, objects of another size than declared, partial
reads, number formats that differ by one, chains of deltas, buffers that survive
an error, offsets beyond 2^31 that take a second table.
*Correct if* what was written is what is read, `io.EOF` means a whole pack, and
Undeltify gives the object or an error whatever was done before.

### 1.7 Trees and commits (`object`)

*State.* A `Tree` or `Commit`, given by a caller or parsed. *Operations.*
`MarshalBinary`, `UnmarshalBinary`; `Sort` and `Search` of a tree.
*Interactions.* `Log` and `CommitInfo` parse commits; their callers hash what they
write, so a byte that changes is another object.
*Hard.* The order of a tree treats a directory's name as if it ended in a slash,
so a file and a directory of one name are not neighbours; Search and the test for
duplicates are binary searches in that order. Commits of other programs have
short, long and negative-zero time zones, headers in any number, signatures with
continuation lines.
*Correct if* an accepted tree has no duplicates and Search finds everything in
it; what is written is read back; what was parsed is written as it was.

### 1.8 Commands that change a repository (`api.go`, `pathspec.go`)

*State.* None in this process: HEAD, branches, commits, the index, the working
copy are Git's, and any other process may change them.
*Operations.* `Init`, `InitBare`, `Add`, `StageTracked`, `Remove`, `Commit`,
`CommitAll`, `CommitFiles`, `Amend`, `AmendAll`, `AmendFiles`, `Merge`,
`AbortMerge`, `CheckoutBranch`, `CheckoutRev`, `NewBranch`, `DeleteBranches`.
*Hard.* Init, the amending ones, CommitFiles and CheckoutBranch run several Git
commands and act on what the first ones said; CommitFiles and AmendFiles run Git
in another directory than the caller's and rewrite the pathspecs.
*Correct if* a call changes what it was asked to and nothing else, whatever others
do between its commands.

### 1.9 The rest

`Clone` and refspecs, `DiffStatus`, colors, tags and object prefixes, `githash`,
`internal/giturl`: section 8.

## 2. How the modules are built

```
PackIndex   <== implemented by == DeltaCrawler  <- DeltaCrawlerProofs, MCDeltaCrawler
VersionMemo <== implemented by == VersionCache  <- VersionUsers
VersionUsers                                    <- VersionCacheProofs, MCVersionCache

GitPipe <- CatFile                <- ReaderProofs, MCCatFile
        <- RefIterator            <- ReaderProofs, MCRefIterator
        <- StderrMux <- CommitLog <- CommitLogProofs, MCCommitLog

RefMutation                 <- SessionProofs, MCRefMutation
            <- PullSession  <- SessionProofs, MCPullSession
            <- PushSession  <- SessionProofs, MCPushSession

PackCodec <- PackStream, and IndexFile, <- Undeltify
Undeltify, ObjectTree, ObjectCommit <- ObjectBytes <- ObjectProofs, MCObjectBytes
                                                     ObjectProofs <- PackProofs
Repository  <- RepositoryProofs, MCRepository
```

`<-` is EXTENDS. `GitPipe` and `StderrMux` have the state and actions of a
subprocess, its pipe and its standard error and no Next of their own; their
extensions say what is written and who reads. `VersionUsers` composes the cache
with its callers, `CommitLog` two processes with the multiplexer.
`RefMutation` is a specification of its own, and also how the refs of a remote
move under a pull or a push. `IndexFile` and `PackCodec` are operators only.
`ObjectBytes` only puts the three formats into one specification, of which a
behaviour is one.

Conventions: an action is one step the code cannot be interrupted in (a critical
section, one system call, one packet); inputs are chosen in Init or by `\E` over
small sets; data is abstracted to what the properties tell apart. A definition
whose comment begins with "Mutant" is a slip in the code that the properties are
known to notice; no specification uses it. Variables that only record what was
promised or returned (`unkept`, `listing.there`, `sawEOF`, `meant`, `seen`, …)
are named as such where they are declared.

## 3. The modules

### DeltaCrawler, PackIndex

A packfile is a function from entries to records: kind (`base`, `ofs`, `ref`), the
ID of the object encoded, the base offset or ID, and whether the object is above
`maxDeltaObjectSize`. Offsets are entry numbers. An ID stands for type and
content, and what a goroutine computes depends on the base object it was given:
with another one than its header names, a delta yields `Corrupt`.

| code | model |
| --- | --- |
| loop of `baseIndexPass`, its read error | `ScanBase`, `ScanOffsetDelta`, `ScanRefDelta`, `ScanEnds`, `ScanFails` |
| loop over `rootOffsets`, re-reading a root | `VisitRoot`, `RootsDone`, `ReadRootFails` |
| loop over `childrenByID` | `TakeId`, `IdsDone`, `ReadIdFails` |
| `startCrawl` from BuildIndex, waiting for an indexer | `StartChild` |
| `wait`, deferred too, and the return | `Return`, with `main` `"wait"` or `"drain"` |
| `process`: undeltify, then under `mu` add the row and take the children | `Process`, `ProcessFails` |
| `crawl` without children, or failing: send the indexer back, store the error | `Release`, `Report` |
| `crawl` with children: the first gets the indexer, the others wait for one | `HandOff`, `SpawnNext` |
| the deferred `wg.Done` | `Exit` |

`PackIndex` is the promise without goroutines: rows appear one at a time, after
the base they need; success only when every reconstructible entry has one
(`Resolvable`, the least set closed under applying deltas).

### VersionCache, VersionMemo

One action for every section of `getVersion` under `versionMu`, one each for the
two arms of its `select`, and the subprocess it runs with the goroutine of
`sigterm`. A call leads at most one run, so the channel it makes is named by the
call. `VersionMemo` is a cell that the first computed version fills.
An empty output leaves the cell empty, as in the code: the next call runs Git
again.

### VersionUsers

A build of Git has a version and prints one, or something that does not parse;
`builds` are the one installed and those that will replace it (`ReplaceGit`).
`StatusOutput` is what a build prints for a working tree, with its rename bug;
`ModeOf`, `readStatusEntry` and `StatusEntries` are Status. A string of the output is a
code and a name, or a name alone, and a name alone may look like an entry (`M  foo`):
`Looks` says which do, and as what they are read. The two letters of an entry
are named for what they say (`StagedRename`, `LocalRename`, `Added`, …). `Captured` is the buffer
of ReadConfig, into which a warning falls anywhere; `improvedHandling` and
`ListRemotes` are translated from the code, `UsesUrl` says what a Git does.

### GitPipe, CatFile, RefIterator, StderrMux, CommitLog

`GitPipe`: `proc` (status of each process), `pipe` (a bounded queue), `writeEnd`,
`readEnd` (ends still open), `reaped` (waited for), `watchers` (sigterm
goroutines), `ctxDone`. An OS pipe loses its write end when the process exits;
the `PipeWriter` of the fallback is never closed, as in the code. Exit statuses
are `ok`, `exit1` and `failed`.

`CatFile`: a blob is a number of chunks. `CatReadsFirst`, `CatReadsNothing` and
`CatReturns` are the peek of Cat; `Read`, `Close` those of `catReader`. What
`RefIterator` has too begins with `Cat` here, since `ReaderProofs` extends both.

`RefIterator`: a repository is the sequence of the lines of its refs, each of one of
five kinds and `^{}` or not; Git prints those that its arguments ask for
(`ShowRefPrints`, `LsRemotePrints`), by their place in the repository. `GitStopsMidLine`
is a process that dies within a line.
`NextCalled`, `SkipLine`, `NextTrue`, `ParseFails`, `ScanEnds`, `NextWaits`,
`NextFalse` are Next; `filter` is translated from the code, `Wanted` states what
the documentation of the options promises (but for HEAD under a limit, section 7).

`CommitLog`: three pipes in a row. Each commit is an information line and an
object in `cat-file`'s output; a record can be cut between them or in either.
`Copier…` is the goroutine `os/exec` starts because `cat-file`'s Stdin is not a
file; `cat-file`'s Wait waits for it.

`StderrMux`: text comes in numbered pieces with or without a newline. `WritesStderr`
is the process, `CopiesStderr` the goroutine of `os/exec` with a Write of the
stream (`Buffers`, `WritesLines`, `WriteErrs`), `Flush` that of `pipeStreamCloser`.

### RefMutation

`MutationOf` translates every constructor to its command and arguments, including
the constructors that give an invalid mutation; `Verifies` is what
`git update-ref` checks. `MutateRefs` is one transaction; its failure after the
commit of the transaction is `MutateRefsKilledLate`. `Promise` states what the
constructors' documentation says, and `unkept` collects the constructors whose
promise a successful call broke: SetRefIfMatches and, as is proved, no other.

### PullSession

The server's refs move by `RefMutation`. `StartPullV1`, `StartPullV2`,
`StartPullEmpty`, `StartPullFails` are the ways a session can start; `FirstRefsV1` is what `readFirstRefV1` gives, among it
nothing and no error after a loss behind `version 1`, and `TakenForEmpty` the sessions
that stand for an empty repository. `ListRefsV1`/`V2`; `NegotiateSent` builds the server's response from the request,
its features and its Have objects (`UploadPack`), as a sequence of packets in
`wire`; `fault` says whether it is whole, cut, ended by the server's error in the middle
of the pack (`fatal`, band 3), or an error alone (`ERR`). `PackData` is the data of each
packet of the pack.
`ReadShallowV1`, `ReadAckV1`, …, `ReadSectionV2` read the response packet by
packet with the positions of the code's loops; `ReadCurr`, `ReadChunk`,
`ReadProgress`, `ReadEnd` are `packfileReader.Read`, with a buffer of any size.
`open` holds the response bodies that were not closed.

### PushSession

`StartPush…`, `WriteCommands` and `WriteCommandsFails`, `Write`, `CloseCalled`
(the goodbye flush, the close of the write side), `ReadStatus` and `CloseReturn`
are the caller; `Server…` is `git receive-pack`; `PostAnswered` and `PostFails`
are the goroutine of `httpReceivePackConn`. Local and HTTP differ in
`ConnDone`, `ConnErr` and in who ends when the context does.

### PackCodec, PackStream, IndexFile, Undeltify

`PackCodec` has the two variable-length formats as recursive functions, with
scaled digits (16 and 128 become `Nibble` and `Radix`); `readOffset` keeps the code's
two sums, the bits and what the continued bytes add. `PackStream` writes a
pack with `WriteHeader`, `Write` and `Close`, changes what arrives (whole, cut at
any token, one size wrong) and reads it with `Next` and `Read` in pieces of any
size up to `MaxChunk`. A token of a file stands for one byte: file header, object
header, unit of data, Adler-32, checksum. `IndexFile` has the encoders, the
decoder and the search; offsets above `Large` (2^31) go through the second
table. `Undeltify` calls the Undeltifier at any object, with no index or one
that went through a file of either version (`OpenIndex`); `Walk` is
`walkDeltaChain`, `ApplyAll` applies the deltas of the chain with the two buffers
of `u`, and `UndeltifyPlain`, `UndeltifyDelta` and `UndeltifyFails` are the ways a
call ends. `Content` states what an object's content is, by recursion over the
chain, without a buffer.

### ObjectTree, ObjectCommit, ObjectBytes

`ObjectTree`: a name is its bytes, an entry a name and a mode. A caller appends
(`AppendEntry`) and sorts (`Sort`, any order that Less allows, since `sort.Sort` is
not stable); `MarshalBinary` hands the bytes to a parser, which takes one entry
after the other (`ParseTreeEntry`) and compares it with what is there
(`isLastDuplicated`). `search` is `sort.Search` by what it returns, the first
index that is not before; `FirstNotLess` is only used on sorted trees, where there
is one. `origin` records what is being parsed.

`ObjectCommit`: bytes are lines with a key; the state of the parser is the line it
expects. Zones are modelled to the digit (`parseTZOffset`, `tzOffset`), since a zone
that is written otherwise changes the hash. Whether a hash or a timestamp
parses, and whether it is in the form this package writes, are two flags of a line.

### Repository

A file is a content, the index may have it `Unmerged`; a commit is its files,
message and parents. `GitCommits`, `GitChecksOut`, `CommitsOnly` and `Merge` say
what the Git commands do with the options this package passes; a step is one Git
command, and `call` is what a method of several commands keeps between two of
them: `InitLooks`, `InitRuns`, `linkToMain`; `CommitBegins` and then `CommitFiles`,
`Amend`, `AmendAll` or `AmendFiles`; `CheckoutBranchLooks`, `CheckoutBranchRuns`.
`Stops` is a command that fails or the end of the caller's process between two.
`Edit` is anyone changing a file. `Rewrite` is the loop over the pathspecs;
`Selects` says what Git selects for a pathspec in a directory, `Clean` what
`filepath.Join` makes of `..`.

## 4. The runs

| run | module, cfg | shows |
| --- | --- | --- |
| `crawler` | `MCDeltaCrawler` | for all packs below: `IndexExact`, `ErrorNotLost`, `NoGoroutineOutlives`, `WaitGroupDiscipline`, `Termination`, and `ImplementsPackIndex` |
| `version_cache` | `MCVersionCache` | `SingleFlight`, `FailsAlone`, `CancelledReturns`, `EveryCallReturns`, `ImplementsVersionMemo`; `StatusExact`, `RemotesExact` of the callers |
| `cat` | `MCCatFile` | `WholeFile`, `NothingLeft`, `CloseEndsAll`; `ReaderReachesEnd` with a Piper |
| `refs` | `MCRefIterator` | `CleanEndIsComplete`, `ClosingStopsGit` |
| `log` | `MCCommitLog` | `CleanEndIsComplete`, `CommitsInOrder`, `NothingLeft`, `StderrWhole`, `CloseEndsGit`, `NextReturns` |
| `pull` | `MCPullSession` | `ListingIsComplete`, `EOFMeansWholePack`, `AnswerIsSound`, `ResponseUnderstood`, `NothingOpen` |
| `push` | `MCPushSession` | `NilMeansUpdated`, `NothingLeft`, `CloseReturns` |
| `pack` | `MCObjectBytes` | `ReadsBack`, `EOFMeansWhole`, `UndeltifyExact` of packs; `SearchExact` of trees; `RoundTrip` of trees and commits |
| `repository` | `MCRepository` | `CommitsAsAsked`, `HeadMovesAsAsked` |
| `log_cut` | `MCCommitLogCut.cfg` | violates `ParseFailureReported` (section 7) |
| `pull_empty` | `MCPullSessionEmpty.cfg` | violates `EmptyMeansEmpty` |
| `set_ref` | `MCRefMutation` | violates `NoLostUpdate` |

`TypeOK`, where a module has one, holds in its run too; it is not listed, since
the properties above read every variable it is about.

### Bounds, and why they are enough

* **crawler.** Two indexers, four entries: every pack of three entries with a
  fourth that takes no part, and every tree of three deltas over one plain
  object. IDs are numbered by first use, which leaves out only renamings. The
  hazards need two goroutines that compete for an indexer, two waiting for one
  base, a duplicate object and a cycle: three entries have each, the trees have
  up to three children of one object, more than there are indexers. 456,000
  states. The safety properties and the refinement are proved for every bound
  (section 6); that the bound is small matters for `Termination` only.
* **version_cache.** Three calls: a leader, a waiter, and a third that arrives
  between the leader's failure and the waiter's waking. The safety properties of
  the cache are proved for any number of calls. With Status or ReadConfig on top,
  two calls, since one that caches and one that uses is what it takes; the builds
  of Git are on either side of every boundary in the code (2.11, 2.16 and 2.18 for
  Status, 2.46 for URLs), in both orders. Two changes of the working tree, so that
  one read wrongly swallows the other, in two trees of them with files named like an
  entry of one name and like one of two (`Looks`), as the old and as the new name of a
  rename. 240,000 states.
* **cat, refs, log.** Pipes of two, two and one places (`PipeCap`), so that
  writers block; blobs of up to four chunks, more than the pipe holds; every
  subset of five kinds of ref; up to three commits through three one-place pipes,
  where the fourth position of a record is reached in every stage at once. Cat
  is checked with both kinds of Runner, the iterator and the log with a Piper.
  The options of `refs` are all there are. The log's stderr: up to three
  pieces by either process over buffers of one and two, so that both fill; with
  few commits, since the two sides only meet in Close. 316,000 and 331,000
  states for `refs` and `log`.
* **pull.** Two refs, one value, two objects the client has and one they share,
  two requests, three sets of server features, one change of the refs. With one
  value the refs differ by which exist; that is what a listing can get wrong. A
  pack is two units, a progress message and one unit (`PackData` is <<2, 0, 1>>): a
  packet is read in parts, and there is a packet after it. Every response is cut at
  every packet, and has the server's error at every packet of its pack. 1,407,000
  states. What is read of a pack is proved for any `PackData`.
* **push.** Two refs so that one command can fail alone; packs of two writes;
  every set of capabilities; one foreign change; both transports. 116,000 states.
* **pack.** Fourteen objects: three plain ones (empty, two and three bytes), two
  deltas (one that fits any base of two bytes, one that needs three) on either of
  two base positions by offset or by ID, and a delta with an instruction that
  `DeltaReader` does not know. Packs of up to three give every chain
  of two deltas, a base in front of, behind and absent from the pack. Digits are
  scaled (`Nibble` 2, `Radix` 3) so that offsets of up to 18 need three digits,
  which is where the two formats and the `+1` differ; `Large` 6 puts part of the
  offsets in the second table. Two calls, since what matters is what one leaves
  to the next. `MaxCut` 18 exceeds the longest pack; `MaxSize` 4 is the size of the
  largest object, a delta. How packs are written, read and undeltified is proved for any
  objects. Trees of up to three entries
  of five names (with bytes before and after a slash, one with a NUL) and two modes:
  `a`, `a-`, `a/` is the shortest tree with a duplicate that is not a neighbour; the
  proofs are about any size. Commits with any four lines behind the committer line,
  zones of every length, and callers' times with seconds, west, and of a hundred
  hours. 1,196,000 states.
* **repository.** Two clients, one in a directory below the top; a file there and
  one of the same name at the top; two contents; a pathspec that is a plain
  name, one from the top, one with glob, `..` and a pattern. Five commands: a call of
  three (Init) with two of another client's in between, or one of two after three that
  prepared what it finds. The repository starts empty, absent, or with one or
  two commits. Which client calls which method of several commands is fixed
  (`Uses`), the others are open to both. The properties are about one step each
  of a call, with what the call saw before. 635,000 states.

Deadlock is only checked in `crawler`, whose specification may stutter in its final
states; every other system really stops when its user does (the calls are over,
the session closed) or, in `repository`, when the commands are used up.

## 5. Fairness

* `DeltaCrawler`: weak fairness of the goroutine of BuildIndex and of every crawl
  goroutine, that is of the Go scheduler. Its actions are enabled continuously
  until taken, except receiving from `sem`; the crawl makes progress all the same
  since a goroutine that holds an indexer always gives it on. No failure has to
  happen.
* `VersionCache` and `VersionUsers`: every call runs on, notices its own done context, and a process
  ends after SIGTERM. That Git ends by itself (`GitEnds`) is not assumed: it is
  the premise of `EveryCallReturns` and not of `CancelledReturns`.
* `CatFile`: Git and the goroutines run on, and the caller reads on (or closes);
  it need not close.
* `RefIterator`: only the steps of Close and the background goroutines. Git may
  hang: Close must still return.
* `CommitLog`: steps of a call in progress, the copier, the sigterm goroutines,
  and a signalled process ends. `GitEnds` is again only the premise of
  `NextReturns`.
* `PushSession`: Close's steps, the posting goroutine, a subprocess that was sent
  SIGTERM, a request whose context is done. That the server answers, or the
  context is done, is the premise of `CloseReturns`.
* `PullSession`, `ObjectBytes`, `RefMutation`, `Repository`: safety only, no fairness.

## 6. The proofs

The proof modules are about every value of the constants under the assumptions
that are named in the component's module.

### DeltaCrawlerProofs

Assumptions: `SizesAssumption` (`NumEntries` a natural number, at least one
indexer, `Corrupt` is no ID) and `PacksAssumption` (packs have the declared type;
an offset delta's base is not behind it, which is what `readOffset` yields;
equal IDs have equal sizes).

None of the properties is inductive. `IInv` has six parts, each of which needs the
ones before it, and each with its own lemma over all actions (`NextTypes`,
`NextPlaces`, …):

* `Types`. Every variable's type.
* `Places`. A delta nobody crawls yet is in exactly one place: one set of one of
  the maps, `todo`, or the children of one goroutine. Without it two goroutines
  could be given the same child.
* `Phases`. What BuildIndex's position says of the goroutines and reverse: the
  scan runs alone, a finished call has no live goroutine, a failed goroutine has
  set `err`.
* `Counts`. The WaitGroup counts the live goroutines, and idle indexers and
  holders add up to `NumIndexers`. Both count sets, with `FiniteSetTheorems`.
* `Sound`. A row has the right ID, and whatever is about to be crawled has its
  base in the index, so all rows are `Resolvable`.
* `Complete`. No delta is forgotten: it is in some place or was crawled; the roots
  with children are still ahead in `rootOffsets`; a visited base leaves nothing
  waiting for it.

Then: `TypeCorrect`, `IndexersConserved`, `ErrorsReported`, `NoneOutlives` follow
from `Phases` and `Counts`; `IndexCorrect` from `Sound` and `Complete` by showing
that the rows of a finished call are closed under applying deltas (`RowsClosed`),
hence all of the least such set (`RowsExact`); `NeverCrawledAgain` and
`WaitGroupUsedRight` are action properties under the invariant; `Refinement`
maps every step to `AddRow`, `Succeed`, `Fail` or a stutter of `PackIndex`.

### VersionCacheProofs

The cache. Assumption: `CallsAssumption` (the marker values are distinct from the
outputs and from the calls). `IInv`: the channel in `versionCond` names the one call
that leads; a call leads only while nothing is cached; a process belongs to the leader;
what is stored is what the run gave; `answer` is set once, together with
the end of the call. `OneRun`, `ErrorsNotShared` and `MemoRefinement` follow.

Its users. Assumption: `UsersAssumption` (a build prints its own version, nothing, or
something that does not parse; a name that looks like an entry looks like one of a valid
code, and no two names look the same; working trees and settings have their types).
`UsersInv`: a call whose command ran has the result of that build's output, read in
the mode that its version answer chose. `RemotesAsGit` is then a comparison of two
uses of the settings. `StatusAsFound` is about parsing, for working trees with any
number of changes:

* `FlattenSteps`, `EntriesSteps`: the recursions that print a working tree and read a
  status are unfolded to functions on places, of which each value is known from the next.
* `PlainRead`, `FromRead`, `RewriteRead`, `MissingRead`: what `readStatusEntry` takes at a
  place, by the letters there and the mode. `ChangeRead`: a mode that suits a build
  (`Suits`, which `ModeSuits` shows of the modes the code chooses) reads what the build
  printed for one change as that change and stands at the next. `MissingFails`: a mode
  for builds that leave a name out, used on one that does not, ends in an error at the
  name it did not expect, if that does not look like an entry.
* `AllRead` puts the changes together, from the last to the first.

`StatusExact` leaves out three cases, and the model has them all: a Git of 2.11 to 2.15
with DisableRenames; one whose version is not the cached one, or does not parse; and an
unaffected Git with an affected version cached, when a file renamed in the working tree
had a name that looks like an entry (section 7). `RemotesExact` leaves out a Git that was
replaced, one before 2.46 of a version that does not parse, and a warning among the
settings.

### ObjectProofs

Trees. Assumption: `TreeAssumption` (names are strings of bytes without a slash).

* `PathOrder`: `treeEntryLess`, with its common prefix and its two logical
  characters, is Go's order of the names with a slash behind a directory's. Hence
  `TreeOrder`: a strict order in which only an entry of the same name and kind is
  neither before nor after. Both rest on the least position in which two strings
  differ, which is induction over numbers by the well-ordering of Nat, not by a
  theorem with an operator for a parameter.
* `SearchCorrect`: in a sorted tree without duplicates `Search` returns the entry of
  a name or none. If the name is a directory's, the first search ends at an entry
  before it, and so the second, behind that index, finds it.
* `DuplicateSeen` and `PrefixScan`: a sorted tree in which no prefix has its last
  element duplicated has none. A duplicate that is no neighbour is a file before a
  directory, with every entry between them in the order between `a` and `a/`.
* `TreeInv`: what was parsed so far is sorted and without duplicates, also in the
  middle of parsing, where `OneMore` needs it. `TreeSearchExact` follows.
* `RoundInv` adds what is left of the bytes to what was parsed: of a checked tree
  that was serialized it is the rest of that tree, so no entry is refused
  (`ReadOne`); of foreign bytes what was parsed has their form (`ParseOne`).
  `TreeReadsBack` follows.

Commits. Assumption: `CommitAssumption` (the commits of callers have the fields of a
Commit, and a time a zone and an offset in seconds; the bytes of other programs are
sequences of lines, where a hash or user line that parses and is written as this package
writes it has nothing more to it than what is parsed).

* `FormatParses`: what `Format` makes of an offset short of a hundred hours is a name that
  `parseTZOffset` reads as the same minutes, of either sign; `ParsedMinutes`: a name that
  parses is of whole minutes. Hence `ZoneWritten`: the name that `tzOffset` chooses, the
  one in the time or a new one, parses to the offset without its seconds.
* `MarshalLaidOut`: the lines of `MarshalLines` are laid out for the commit (`LaidOut`): at
  each place, counted from the numbers of parents, extra headers and signature lines
  before it, is the line of that field. `LaidOutUnique`: for one commit there is one such
  sequence of lines.
* `CommitInv` is about the states of the parser: the fields filled so far are those of the
  lines read, and the lines left are the rest (`Parsed`, one relation for every state of
  the parser, kept by one lemma for every line it reads, from `ReadTree` to
  `ReadMessage`; `ReadsLine` puts these together). In lines that were marshalled the next one is of the kind
  its state expects (`NoLineRefused`), and the commit at their end has the fields that
  were written (`ReadAsWritten`).
* A foreign commit that was parsed marshals and is `Writable` unless it holds a NUL byte
  (`ForeignMarshals`); it marshals to the bytes it is from if its hashes and timestamps are
  written as Git does, whatever the names of its zones (`ForeignRewritten`, which ends
  with `LaidOutUnique`).

`CommitsReadBack` is what these give. A behaviour of `ObjectBytes` is one of the three
formats, so what each specification has, the composition has (`EachAlone`,
`ObjectsRoundTrip`, `ObjectsSearch`).

### PackProofs

It extends `ObjectProofs`. Assumptions: `CodecAssumption` (the two radixes are at least 2) and
`StreamAssumption` (objects are of at most `MaxSize` units; what is no delta has no base;
a distance within the longest pack has no more bytes than `readOffset` takes, which 8
bytes of 7 bits are enough for).

* The numbers. `UvarintOfVarint`, `LengthRead` and `OffsetRead`: a size and a distance are
  read as they were written, of any value. Each loop is known by the sequence of its
  values (`Loops`), and one more byte is one more step of it (`UvarintOf`, `ReadsNext`).
  The least number that is not read back would have a smaller one behind it.
* The places. `AllMeant`: of the objects the writer was asked for, each begins where the
  one before ends (`Placed`). `WrittenSoFar`: of a file that is being written every object
  but the last is there to its end (`Ended`), and of the last what the writer does not
  miss yet (`Begun`, `Exact`): its header, then the units it got, whatever the pieces
  in which it got them.
* The way. `Arrived`: of each object came as much as is in the file (`Came`), all with the
  size it has but one at most (`Sound`); a file that is not the one that was sent
  misses something at its end or has a size that is not that of its object.
* The reader. It knows neither what was meant nor where objects begin: it adds up sizes
  and looks for the end of zlib's stream. `DataEnds` and `InflateIs` say where that is
  and what it gives. `Inside` says that the reader is in the data of the object that
  was seen last (`InData`) or behind it (`PastData`), and that the size told and the
  units it read, it has left or it skipped add up. `Got`: what it gave of an object is a
  beginning of it, all of it when it said so. Hence an object whose end `Next` or `Read`
  accepts has the size it told (`Current`, `ReadInData`), and an error means that one has
  not, or that the file is cut (`Bad`).

`PackInv` puts these together by the phase of the file; `PackSteps` is that every step
keeps it. `PacksReadBack`: in a file as it was sent nothing is wrong (`AllThere`), so no error
comes, and the objects that were seen are those that were meant, up to the trailer.
`PacksEOFMeansWhole`: at `io.EOF` all objects were seen and each has its size, so the
file is the one that was sent. No size, number of objects or piece is bounded in either.

Random access. Assumptions: `IndexAssumption` (an ID that is not smaller has a first byte
that is not smaller) and `UndeltifyAssumption` (IDs have first bytes, an object is made of
units).

* The index. `V2ReadsBack` and `V1ReadsBack`: the n-th large offset has n - 1 before it
  (`BigPlaces`), so the word that stands for it finds it in the second table; the last
  entry of the fan-out table is the number of objects (`FanOutCounts`). `IndexReadsBack`
  is both. `FindIDExact`: an index of different IDs in ascending order has none twice. `SortedIs`: a
  set of rows with different IDs can be sorted, and the index has these rows. So the index
  of a pack finds its objects and nothing else, after it went through a file (`IndexFinds`).
* One delta. `ReadIs` and `SizeIs` are what the loops of `DeltaReader` and `DeltaObjectSize`
  hold after each instruction; `OneInstruction` compares that with the pieces, and
  `DeltasApply` follows: the delta is accepted if and only if every copy is in the base.
* The chain. The base of an offset delta was written before it; that of a reference delta
  was, or is no delta (`BaseSaid`, what `WriteHeader` accepts in the model: two reference
  deltas that are each other's base make the code loop, section 7). So a number, `Rank`,
  falls from an object to its base (`RanksFall`): the content of an object is known from
  that of its base (`ContentIs`, `ContentOnBase`), and `walkDeltaChain` comes to an end at
  an object that is no delta, at a base it cannot find, or at the end of the file
  (`OneDeeper`, `WalkEnds`).
* The way back. `AppliedIs` is the loop over the stack. After each delta the buffer holds
  the content of the object the delta is of, or an error came and that object has no
  content (`OneApplied`, `NoContentUp`, `AllApplied`). What the buffers held before the call is
  overwritten by `Refill` before it is read, so nothing is said of `u`.

`UndInv` is about the states between calls: the IDs are different, what the caller said of
bases is so (`Linked`), the file is what was sent or cut short, with the sizes it was sent
with (`RandomFile`), the index finds what the pack has (`Finds`), and the last call was
answered as it should. `FailsRight`, `PlainRight` and `DeltaRight` are the three ways a call
ends; `UndSteps` is that every step keeps `UndInv`, on top of `PackInv`. Hence
`UndeltifiesExactly`, for chains of any length, any calls, and either format of index.

### ReaderProofs

RefIterator. Assumptions: `IteratorAssumption` (the subcommands; a `^{}` line is not
HEAD's) and `PipeAssumption` (a pipe holds at least one chunk).

* `LinesKnown`. Unless Git has failed, the lines in the pipe are whole, in order, none
  behind what Git has printed, and after all that was read (`InOrder`, `Whole`,
  `Behind`); of the lines that were read (`Passed`) Next was true for those that filter
  keeps. `ReadLine` and `WriteLine` say what a read and a write do to the pipe.
* `ReaderKnown`. Git exits with 0 or 1 only after its last line; which ends are open in
  which state of the iterator.
* `EndKnown`. `close` is without an error for these two statuses only. The pipe was empty
  then, so that all lines were read.
* `KeptIsWanted`: what filter keeps of what Git prints is what the options promise,
  for each subcommand.

`RefsCleanEndIsComplete` follows.

Cat. Assumptions: `CatAssumption` and `PipeAssumption`. `CatInv` adds these relations to the types. `BytesKept`: while the read end is
open, what was written is what was read and what is in the pipe, and an exit status of 0
means that all of it was written. `ProcessKnown`: a running process holds its write
end, so the end of the output is seen only after its death. `UserKnown`: in which
state of Cat and the reader the read end is open. An empty reader is then a Git that
ended well without writing; `CatWholeFile` and `CatNothingLeft` follow.

### CommitLogProofs

Assumptions: `LogAssumption` (the two processes, pipes of `Local`) and
`PipeAssumption`. The argument of `LogInv` reads the pipes from the last to
the first.

* `ReaderKnown` and `CommitsKept`. The chunks in cat-file's pipe lead from what Next
  waits for (an information line, or the object behind one) to what cat-file writes
  next (`Leads`); the numbers in cat-file's standard input, in the hands of the
  copying goroutine and in rev-list's pipe go on from there to the last commit that
  rev-list listed (`GoesOn`). A part of a chunk can only be the last one.
  `LogCommitsInOrder` is the first of these relations.
* `ProcessesKnown`. An exit status of 0 of rev-list means that every commit was
  listed, one of cat-file that its standard input was closed and used up.
* `EndsKnown`, `ClosingKnown`. Which ends are open, and who is waited for, between the
  steps of start, close and Next; `LogNothingLeft` follows.
* `EndKnown`. Next ended by itself only when the pipe was empty and closed by a dead
  cat-file, and set no error only if both were waited for and succeeded. The
  segments are then empty, and `LogCleanEndIsComplete` follows.

The lemmas `LeadsAppend`, `LeadsTail`, `GoesOnAppend` and `GoesOnTail` say what a write
and a read do to a segment; one lemma per actor says that its steps keep `LogInv`.

Standard error, for any sizes of the line buffers and the limit (`StderrAssumption`):
`StderrInv`, next to `LogInv`.

* `TextsKnown`. The text of a subprocess is, in order and without gaps, what is captured
  of it, what its stream holds back of the last line, and what its pipe holds; `InOrder`
  puts the captured part in order.
* `EdgesKnown`. Where two texts meet in the buffer, and at its end unless it is full,
  the piece is settled: it ends a line, or its stream has failed or was flushed with all
  of the text. A Write either puts whole lines there or fails the stream.
* `CopyingKnown`, `FlushedKnown`. A goroutine ends without an error once its process has
  and the pipe is empty; whoever Next has waited for is flushed.

`LogStderrWhole` follows. The longest part of a write that fits is a largest number of a
set (`LargestNumber`).

### SessionProofs

Push. `PushInv`: a stream that is closing without an error has read a report in which every
command is ok, of a server that is done, so nothing it updated changes any more
(`StatusTrue`); and what the connection has given back by when (`GivenBack`). The
server's steps share a lemma: they leave this end alone (`ServerKeeps`).
`PushNilMeansUpdated` and `PushNothingLeft` follow.

Pull. Assumption: `PullAssumption` (the client has finitely many commits, some of which the
server has; the packets of a pack have numbers of units, 0 for a progress message).

`PullInv`: what a version 1 session knows of the refs before and after the rest of its
advertisement was read, by whichever call came first (`V1Known`: one that has
capabilities, has read all and met no error knows all refs), which makes
`PullListingIsComplete` inductive; and that a version 2 session has nothing open but
the response of its round, and that only while it is read or the caller holds its
packfile (`OpenKnown`), hence `PullNothingOpen`.

`ReadInv` is about one response. `Left` is what a whole response to the request has
left in each stage of Negotiate, of either version and for every choice of sections;
`WireKnown` says that the packets not yet read begin what is left, are all of it if
the response is whole, and have the server's error behind them if it failed (`Follows`),
and that the acknowledgements read are commits in
common, all of them when there are no more, and one at least where a packfile may follow
them (`Based`). `PackKnown` is the same for a packfile of any packets: for some number of
packets, the data of these was given to the caller or waits in the reader (`ReadOf`), and
what is left is the rest of the pack (`Rest`). The
acknowledgements come in an order of the set (`AcksKnown`, for finitely many commits). One lemma
per stage shows that its step takes the first packet of what is left (`NextKnown`), or
meets a cut or the server's error.
`PullEOFMeansWholePack`, `PullAnswerIsSound` and `PullResponseUnderstood` are parts of
`ReadInv`.

Refs. Assumption: `IdsAssumption` (an object ID is not the empty value, which means "not
checked"). `RefOthersKept`: what a request asks `git update-ref` to verify is the value
its client read (`VerifiedIsKept`), for every constructor but SetRefIfMatches.

### RepositoryProofs

Assumption for HEAD: none. `CallInv`: a call of CheckoutBranch knows
that its branch is there, or that it was deleted since; a call of Init that found a
repository never gets to `linkToMain`; a repository does not go away.
`RepositoryHeadMoves` is `HeadMovesAsAsked`, client by client: a step of another
client leaves a call's `op` alone (`OthersGoOn`), and of the client's own steps only
those of Init and CheckoutBranch are possible (`OneCommandMoves`).

`RepositoryCommitsAsAsked` is `CommitsAsAsked` under `RepositoryAssumption` (types; a
content is neither of the markers). `RepositoryInv` adds to `CallInv` that HEAD and the
branches are commits of the history, which only grows (`HistoryInv`), and that a call has
the pathspecs it was given and the message of the commit it read (`AskedInv`). That
`Rewrite` keeps what a pathspec selects (`RewriteSelectsSame`) rests on `Clean`: a path
that was cleaned has `..` in front only (`CleanHasNoDots`), so that cleaning it behind a
directory is cleaning the whole (`CleanTwice`).

### Counting instead of induction

The recursions of `Clean`, of `StatusOutput` and of `StatusEntries` are recursive
functions in a LET. Their values are known from an explicit graph, a function of which each value follows
from the one before; that there is one, and what it has at every place, is shown by
`CountUp`: a set of numbers that has 0 and with each number the next, has all up to n. It
follows from the well-ordering of Nat, which `WellFoundedInduction` states without an
operator for a parameter. The number formats of packfiles recur on a quotient, not on the number
before: `Recursion` gives a function its values wherever the argument gets smaller, from
functions of which each is right for the numbers below its own. `ContentIs` does the same
for the content of an object of a pack: what gets smaller is the object's rank. The loops over instructions, over the stack of a chain and along the
chain count up.

### Only model-checked

* Liveness (`Termination`, `CancelledReturns`, `EveryCallReturns`, `CloseEndsAll`,
  `ReaderReachesEnd`, `ClosingStopsGit`, `CloseEndsGit`, `NextReturns`,
  `CloseReturns`): fairness is ENABLED, which the provers do not handle.
* The three violations of section 7, each of which is one behaviour.

Every invariant of a passing run is a theorem.

## 7. Where code and documentation disagree

Three disagreements have a run that TLC must find violated:

* `log_cut`. `log.go:268` says Close returns an error if Next returned false due
  to a parse failure. If `cat-file`'s output ends right after an information
  line, `io.ReadFull` returns `io.EOF` itself, which Next takes for the end of
  the log: Close returns nil and the commit is missing.
* `pull_empty`. A connection lost before the first packet of an advertisement is
  taken for an old Git with an empty repository (`pull.go:61`), and so is one lost
  right after the packet `version 1` (`pull_v1.go:125`): a packet reader that has failed
  has the type of a flush packet. ListRefs then returns no refs and no error.
  `ListingIsComplete` is about the other sessions.
* `set_ref`. `SetRefIfMatches` checks its `oldvalue` argument and drops it
  (`revision.go:392`): the update is unconditional.

Others were met while modelling. They are in the models where an action says so,
or outside of what the properties are stated for:

* `buildindex.go:38` says BuildIndex is equivalent to `git index-pack`; it returns
  nil for a pack with a delta whose base is absent, and leaves the entry out, which
  `IndexExact` allows (`Resolvable`). git-index-pack fails.
* `startPipeFallback` never closes its PipeWriter (`git.go:339`): without a Piper a
  reader never sees the end of the output. `ReaderReachesEnd` is about Pipers.
* `IterateRefsOptions.filter` drops HEAD when a limit is set (`revision.go:194`),
  where the options' documentation (`revision.go:175`) includes it.
* A line cut short by a dying process is returned by RefIterator.Next as a ref
  with a truncated name (`revision.go:283`); only the end of the iteration
  reports the failure.
* `maxDeltaObjectSize` is documented as the most that is held in memory for one
  object (`buildindex.go:170`); it is applied to the bases of offset deltas only.
* Version 1 pulls do not close the response when there is no packfile or when
  the shallow update is bad (`pull_v1.go:297`); `NothingOpen` says what
  remains true. `Negotiate` refuses a Since that the server supports and lets
  through one it does not (modelled in `Refused`). Version 2's ListRefs does not
  filter the answer by the requested prefixes itself.
* StartPush shares the confusion of `pull_empty` (`StartPushLost`). Without
  `report-status` a nil Close says nothing about the refs. A second Close of a
  HTTP push that had nothing to write dereferences nil. A local push that gives
  up in the middle of an advertisement longer than a pipe waits for a subprocess
  that waits for a reader (`local.go:154`).
* The text of DeleteRefIfMatches says "fails if it has the given value"; the code
  does what the name says.
* `ReadConfig` (`config.go:41`) and `ListSubmodules` (`status.go:456`) give Stdout
  and Stderr two writers over one buffer, so two goroutines of `os/exec` race.
* Status: with Git 2.11 to 2.15 and DisableRenames the mode for renames wins over
  that of the version, and an entry is lost without an error (`StatusExact` leaves
  it out). When the cached version is one of these and Git has since been replaced by one
  without the bug, the old name of a renamed file is read as the next entry. That fails
  for most names; one whose third byte is a space after a valid code, like `M  foo`, is
  accepted (`status.go:117-124`, `status.go:149`), and a wrong listing is returned without an error
  (`Loose`, which `StatusExact` leaves out).
* Commands of several steps. Amend, AmendAll and AmendFiles without a message use
  that of the commit HEAD was when they looked; a commit made in between is
  replaced by one with an older message. Between `git init` and `git symbolic-ref`
  another caller's Init finds the repository, returns nil, and may commit to the
  default branch before HEAD is moved to main; if the first caller ends there, HEAD
  stays, since a second Init finds `.git`. CheckoutBranch creates the branch from a
  remote's after all if it is deleted behind its look. All are steps of `Repository`,
  and the premises of `CommitsAsAsked` and `HeadMovesAsAsked`.
* Pathspecs. `PathspecMagic.IsZero` says it reports whether all fields are unset and
  does not look at `Glob` (`pathspec.go:135`): below the top of the working tree
  `:(glob)` is lost from a pathspec of CommitFiles or AmendFiles, and `*` then crosses
  slashes. It is in `IsZero`, and why `CommitsAsAsked` has `asGiven`. Outside the model:
  `String` drops attribute requirements; a directory whose name has glob characters
  becomes a part of the pattern; `NoPathspec` is rewritten like a pattern; `:(`
  without an end becomes the empty pattern.
* Trees. MarshalBinary says it returns an error for duplicates (`tree.go:49`) and
  compares neighbours only: a file and a directory of one name that are not
  neighbours are written, and not read back. `TreeRoundTrip` is about checked trees.
* Commits. A commit with a NUL byte in a user or an extra header parses, and SHA1
  panics. An extra header that is a `gpgsig` line is written and read back as the
  signature (`Writable` excludes it). The seconds of a zone that does not come with its own
  name are dropped (`Written`), and a zone of a hundred hours or more is written with
  digits nobody reads (`Writable`).
* `NullTreeHash` says it adds the empty tree to the repository; it runs
  `git hash-object` without `-w`.
* Packfiles: a header beyond the declared count closes the previous object's
  stream before it is refused, and Close closes it again. `appendOffset` does
  not end for a base behind the object. Errors of Next at a cut between objects or
  before the checksum wrap `io.EOF`, which `errors.Is` (as in
  `reader_test.go:269`) cannot tell from the end of the pack; the trailing checksum is not
  verified. `walkDeltaChain` uses a nil header in an error message when a base
  cannot be read (`delta.go:348`): modelled as the result `"nil dereference"`,
  which `UndeltifyExact` confines to packs cut short. Reference deltas that are
  each other's base make it loop. `EncodeV1` accepts offsets up to 2^33 and
  truncates them to 32 bits. A second Writer.Close writes a second trailer.

## 8. What is not modelled

* **Of the commands of `api.go`**: authors, times, hooks, IncludeIgnored,
  IntentToAdd, Recursive, Track and upstreams, merges of several revisions, and the
  ones that only read. Git's merge of two contents leaves one of them or a conflict.
  Pathspecs are one per call, without exclude, icase and attr, as records and not as
  text. A tag with the name of a branch is not modelled.
* **Transports** below a session: URL and header handling, and the upload-pack
  subprocess as a process with a pipe. In `PullSession` a transport is a body that
  can be cut, or ended by the server's error in the pack, and must be closed.
* **pktline** lengths in hexadecimal, and the packets' wording; symrefs, filter,
  include-tag, thin-pack, progress output.
* **Writers that fail** in the packfile Writer (equal to a pack cut short), use of
  a Reader after an error, CRC-32 and checksums of index files,
  `BufferedReadSeeker`.
* **DiffStatus, ListSubmodules, the other lookups in Config, colors, refspecs, tags,
  object prefixes, githash, giturl**: functions of one string, with table tests. In
  `CommitLog` a parsed commit is good or bad, elsewhere a hash is a value.
* **Names with a slash** in a tree, modes beyond file and directory, the pieces of
  a User and of CommitFields.
* **parseVersion**: a version parses or does not.
* **A second Close of a pipe** (`git.go:575` closes a channel twice and panics): no
  caller of this package does it.

## 9. Plan

The order is that of risk: shared memory first, then subprocesses, then peers,
then streams, formats and commands. All modules of section 3 exist; what comes next:

1. *Abstract specifications worth stating.* A file that is read to its end or
   fails, which `CatFile`, `RefIterator` and `CommitLog` implement; an
   atomic compare-and-set of refs, for `RefMutation` and `PushSession`.
2. *More of the system.* The local upload-pack of `packfile/client` over `GitPipe`,
   where the bodies of `PullSession` become processes; RefIterator and Log over the
   fallback Runner; tags, on the states of `ObjectCommit`.
