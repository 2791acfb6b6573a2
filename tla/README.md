# A TLA+ verification of open-instrument

open-instrument collects time series from many hosts and answers queries about
them. The repository holds two servers for the same data (an older one in C++
under `server/` and `lib/`, a newer one in Go under `go/src/.../open-instrument`),
client libraries, collectors and a web interface. This project models the parts
that hold state and can lose it, or whose steps interleave: the Go datastore,
which every `/add` request writes to, and the pipeline of goroutines that answers
`/get`; the C++ record log, its thread pool and the forwarding between servers;
and the page that polls a server.

Paths below are relative to `src/`; `datastore.go` is
`go/src/code.google.com/p/open-instrument/datastore/datastore.go`.

## 1. Inventory

### Go server

| Component | State | Operations | Interaction |
|---|---|---|---|
| Datastore (`datastore.go`) | `Blocks` (map end key -> block), `blockKeys` (sorted), files `block.<id>` and `block.<id>.log` | `Open`, `Reader`, `Writer`, `Flush`, `findBlock`, `insertBlock`, `splitBlock`, `joinBlocks`, `compactBlock`, `readBlocks` | one goroutine per request, one ticker goroutine that compacts, splits and joins |
| DatastoreBlock (`datastore.go`) | `NewStreams`, `LogStreams`, `BlockHeader.Index`, `logLock` | `Read`, `Write`, `GetStreams`, `shouldCompact`, `shouldSplit`, `NumStreams` | used by all of the above; only `Flush`, `compactBlock` and part of `splitBlock` take `logLock` |
| protofile (`protofile.go`) | a file of magic, length, record | `Write`, `ValueStreamReader` | log files are appended to, block files replaced by rename |
| HTTP server (`store.go`) | none of its own | `Add`, `Get`, `List`, config and status pages | makes one `Writer` or `Reader` per request |
| Stream algorithms (`openinstrument.go`, `mutations/`) | none | `MergeValueStreams`, `ValueStreamWriter`, `Interpolate`, `Mean`, `Min`, `Max`, `Rate` | pipelines of goroutines over channels |
| StoreManager, IndexedStoreFile | record log, list of indexed files | add, rotate, index, merge | the engine before `datastore` |
| store_config, hashring | servers and their state, ring of nodes | read, watch, update | clients and handlers ask for the owner of a name |

### C++ server

| Component | State | Operations | Interaction |
|---|---|---|---|
| RecordLog, DiskDatastore | queue of unwritten streams, `recordlog*` files, `datastore.*.bin` files, live data | `Add`, `Flush`, `Rotate`, `Reindex`, `Replay` | handlers add; an admin thread flushes, rotates and reindexes |
| StoreFileManager | list of indexed files | refresh, retention (only logs) | reads what `Reindex` has written |
| request handlers (`store.cc`) | none of their own | `/add`, `/get`, `/list`, config pages | `HandleAdd` forwards streams to the server the hash ring names |
| StoreConfig, HashRing | the configuration and the ring built from it | read, reload, lookup | reload runs beside lookups |
| ThreadPool, Queue, executors | queue of closures, worker list | `Add`, `Shutdown`, growth and shrinking | run all handlers |
| retention policy, calculations | none | choice of a policy by age, `ValueStreamCalculation` | used by handlers |

### Web interface

`static/test.js`, on the `StoreClient` of `static/openinstrument.js`, keeps what the
user has selected, a timer and a zoom stack. The user's events, the answers to
requests, in any order, and the timers run one after the other and change them.

Clients, SNMP tools and string, URI, HTTP and file wrappers keep no state that
could go wrong between two calls; `PROJECT.json` lists them as not modelled.

### What is hard here

- `Writer` appends to `NewStreams` without a lock while `Flush` of another
  request reads, copies and resets it.
- `Flush` holds the locks of all the blocks it has visited until it returns.
- The ticker replaces the files of a block, and the blocks of the map, while
  requests run; a split or a join consists of several file operations, and the
  process may die after each, or one of them may fail.
- A log file is appended to after a crash has left part of a record in it.
- `readBlocks` rebuilds the map from file names and contents only.
- The C++ admin thread renames, copies and removes log files while the constructor
  replays them, and a crash may come after each file operation.
- The thread pool decides about its size without a lock, in every worker.
- A connection that is kept alive holds a thread of the pool as long as its client likes.
- Equal numbers of a variable are encoded as one value with an end, again and again: when they
  are recorded, replayed, reindexed and queried.
- A server that forwards streams keeps a thread waiting; a forward without an
  answer is sent again; each server has its own idea of the ring.
- `Get` reads a stream that another goroutine may still be appending to.
- The page starts a request without ending the one under way.

`PROJECT.json` has the full list ("hazards"), each at its line, with the
property that covers it or the reason why none does yet.

### What makes it correct

A stream that `Flush` has stored is on disk from then on and is found again
after a restart; compaction, split and join only move streams; a name is always
routed to a block that exists; no two blocks share a file; every `Flush`
returns; a query finds what has been stored.

The same holds of the C++ record log, as far as it goes: what it keeps for certain is when a
variable changed, not how long it kept its number. A connection is served once. A stream sent
to the cluster is recorded once, by the server that owns its name, and a client
that is told success can rely on it. An answer to a query of
sorted streams is sorted, complete and within the limit. The page goes on polling, and shows what is selected.

## 2. Modules

### DurableStore - what a storage engine promises

The abstract specification of all three engines, without files, logs or locks:
streams are accepted, the disk changes, and at some point a stream is promised,
after which the disk may never be without it, except when an unnoticed failure has
damaged it. `BlockStore`, `BlockMap` and `RecordLog` each instantiate it (`Engine`) with

| DurableStore | BlockStore | BlockMap | RecordLog |
|---|---|---|---|
| `accepted` | `sent` | `sent` | `sent` |
| `stored` | `OnDisk` | `OnDisk` | `OnDisk` |
| `promised` | `flushed` | `flushed` | `promised` |
| `damaged` | `damaged` | `damaged`, `raced` or `clash` | `damaged` |

and `ImplementsDurableStore` is `Engine!Spec`.

### BlockStore - one block

State: the memory of the process (`newStreams`, `logStreams`, `indexed`, the
owner of `logLock`, program counters of the Writers and of the compaction) and
the disk (`logFile`, `logTorn`, `blockFile`, and `tmpFile`, the temporary file a
failed rename has left). A stream is a value; a slice, map
or file is a function from values to how often it holds them.

| Action | Code |
|---|---|
| `Add` | `Writer` and the loop of `/add` that fills its channel |
| `AppendRead`, `AppendStore` | `block.NewStreams = append(block.NewStreams, stream)`: the slice is read and written back in two steps, because no lock is held |
| `FlushCheck`, `FlushLock`, `FlushWrite`, `FlushFail`, `FlushMerge`, `FlushReset` | `Flush`, one step per access to shared state |
| `CompactStart` ... `CompactClear` | `compactBlock`, with `DatastoreBlock.Read` and `Write` inlined; `CompactReadFail` and `CompactFail` are its error branches, `Written` is what `block.Read` will find in the file `Write` has made, `CompactShortWrite` and `CompactRemoveFail` the results nobody looks at |
| `Crash`, `Open` | the process dies; `readBlock`, `readBlockLog` |

`flushed` is a history variable: the streams that one `Flush` has both written
readably to the log and merged into `LogStreams`. It is what the durability
properties are about. `damaged` is another: a block file was put into place that may
lack streams, because a write was short or because the file was written behind a
leftover with another header. `sent` bounds the model: a stream is sent once.

### BlockMap - the blocks together

State: the map (`blocks`, `blockKeys`), the ticker (`tpc`, and its locals in
`tick`), the files. A variable name is a number, a stream a name and a serial
number. `Flush` and `compactBlock` are one step each, justified by BlockStore,
which has their inner steps. `SplitCompact`, `SplitRead`, `SplitLeft`, `SplitRight`,
`SplitInsert` are `splitBlock`; `JoinRead`, `JoinWrite`, `JoinRemove` (once per
old block, with the `readBlock` the code does there), `JoinPublish` are
`joinBlocks`; `compactBlockFails`, `SplitFail`, `JoinFail` are their error branches.
`WriteFile` and `WriteFails` are `DatastoreBlock.Write`; `header` is the index it
stores in the file and `file` what `DatastoreBlock.Read` finds there, which differ
only in a file written behind a leftover.
`Crash`, `Open`, `readBlock`, `FilesRead`, `readBlockLog`, `Opened` are a
restart.

`raced` is a history variable: the ticker has worked on a block with streams in
`NewStreams`, or one has been appended while it did. The code protects these
streams nowhere, so the properties that hold are about executions in which that
has not happened; `block_map_join_race` shows what happens otherwise.

`clash` is another: a restart has found two blocks with the same end key, of which
the one read later replaces the other in the map (`insertBlock`). See "Two files with one
end key" in section 3.

### FlushLocks - the logLocks of several blocks

BlockStore has one block and so cannot deadlock. FlushLocks keeps only the
locks: `Flush` visits the blocks in any order (Go map iteration), takes the lock
of each dirty one, and releases all of them on return, because its `Unlock`s are
deferred. The ticker takes one lock at a time.

### RecordLog - the C++ record log

State: `log_` and the live values of a process, the steps of `AdminThread` (`apc`)
and of the replay (`rpc`), and on disk `recordlog`, the rotated files with any number of
`.new` behind their names, and the indexed files by their newest timestamp.

A value is a variable, a timestamp, a number and an end, which is 0 if it has none; a file is the
sequence of values that can be read back from it. `Encode` is the run-length encoding, which
`RecordNoLog` and `ReindexRecordLogFile` do alike: a number equal to the last one of its variable moves
the end of that value to its own timestamp, and the end that it has itself is forgotten. `Record` logs
the value it has moved the end of, with its old timestamp. When that log is replayed or reindexed, the
second copy of a value sets the end of the first to the timestamp of both. So ends get lost where nothing
fails, and the properties are about the start of a value (`Change`), which is when the variable
changed. `OnDisk` and `TypeOK` look at ends too: none is made up.

| Action | Code |
|---|---|
| `Record` | `DiskDatastore::Record`, `RecordLog::Add` |
| `FlushStart`, `FlushWrite`, `FlushFail`, `FlushErase` | `Flush`, record by record |
| `RotateNot`, `RotateRename`, `RotateRenameFail`, `RotateCreate` | `RotateRecordLog`; a failing rename is followed by the truncation all the same |
| `ReindexRecordLog`, `ReindexFile`, `ReindexRead` | `ReindexRecordLog`, `ReindexRecordLogFile`: the values of a file are read and encoded one by one into `log_data` (`data`) |
| `IndexOpen`, `IndexWrite`, `IndexFail`, `IndexUnlink`, `IndexRename` | `WriteIndexedFile`, a variable at a time (`rows`); the rotated file is unlinked before the indexed one gets its name, which is the newest timestamp, ends left aside (`Newest`) |
| `Sleep`, `Shutdown`, `Crash`, `Start` | the end of a round, the destructor, the death and the restart of the process |
| `ReplayGlob`, `ReplayFile`, `ReplayLast`, `ReplayRead`, `ReplayDone` | `ReplayLog` and `RecordNoLog` of each value it returns (`rest` is what the open file has left), in the constructor of `DiskDatastore`, beside `AdminThread` |

`Glob("recordlog.*")` also finds `.new` files, so that a file left by a crash between
unlink and rename is indexed in the next round. `moved` is a file renamed or removed between the
listing of the replay and its end. If a record in the middle of a file cannot be read, or a file is
missing, two equal numbers may stand side by side that had another one between them, and encoding makes
one value of them (`Splices`): `joined` says that the replay has done so. `damaged` is a truncation
after a failing rename, an indexed file that replaced another one with the same newest timestamp, or
a splice in a file being reindexed. `MCRecordLog` gives the values that clients send.

### ThreadPool - threads, queue and policy

State: `threads_`, the queue with its mutex and `shutdown_`, `stats_busy_threads_`, and
for the listen thread and every worker where it is. `RunPolicy` reads the sizes in one
step, `AddThread` starts a thread, and `StoreThread` puts it into `threads_`, which the
code does without a lock: racing callers overwrite each other (`seen`). `WaitTest`,
`Wait` and `Pop` are `Queue::WaitAndPop`, `Push` and `NotifyOne` are `Queue::Push`,
`ShutdownFlag` and `ShutdownNotify` are `Queue::Shutdown`, `Stop`, `Join`, `Detach` and `Stopped` are
`ThreadPool::Stop`. `raced` and `expired` are histories: two callers were in the policy at
once; a `timed_join` ran out of time. A closure may run for ever: `HandleClient` serves the requests of a
connection in a loop and makes a new deadline for each (`http_server.cc:65`, `http_server.cc:155`), so a client that
keeps its connection alive keeps the thread. `AllHeld` is the state in which every thread is kept so.

### Cluster - HandleAdd on several servers

State: for each request where it is, its streams, its answer, what it has put aside for
other servers and the forward it waits for; for each server its ring. `Begin` needs a
free thread of the server, which the request then keeps until `Answer`. `Break`,
`PutAside` and `Record` are the three ways through the loop of `HandleAdd`.
`StartForward`, `ForwardAnswered`, `Retry` and `GiveUp` are `StoreClient::Add`, where a
request that was not answered in time may still be carried out. `HandleNewConfig`
empties the ring, and `AddNode` fills it server by server, while requests look names up.

### Query - one /get request

State: the values as a heap, because the code passes pointers and run-length encoding changes
the end of a value that others point to: a row per stored stream, and row 0 for the values that `Max`
has made; an address is a row and a place in it. A stored stream (`Series`) has its values in any order, as `Flush` logs them
as they arrive and `Reader` hands streams in memory over as they are; it may have a value
twice; and a value may have an end, sent by a client or left by the `ValueStreamWriter` of an earlier request.
`StreamsSorted` and `EndsRight` (no value ends before it begins) are premises of the properties that need
them, not of the model. Then the request, with `MinTimes` and `MaxTimes` as
the choices of its filter; the two channels; `newstream` of each
group, with what its `ValueStreamWriter` has read of it and not yet written back.
`MergeValueStreams` is one step per value sent; `MaxStep` is the mutation `Max`, if the
request has one; `NextGroup`, `Receive`, `Send`, `Close`, `Cut`, `CutPanic` and `returnResponse` are `Get`;
`WriterRead` and `WriterStore` are `ValueStreamWriter`. `raced` is a history: `Get` has read
`newstream` before its writer was done. A slice bound below zero, after run-length
encoding left fewer values than `MaxValues`, ends the handler (`CutPanic`).

### Dashboard - the page

State: the selection, the duration and its text, the options, the zoom, the requests under
way, the timers and what the graph shows. A callback is one action: the answers
(`GetReply`, `GetError`, `GetGarbled`, `SelectorsReply`, `InterfacesReply`, `ListError`), `TimerFire`, and one per
event of the user (`Increase`, `Decrease`, `EditDuration`, `ValueTypeChange`, `HostChange`, `VariableChange`,
`InterfaceChange`, `PlotSelected`, `ZoomOut`). `NiceDuration` and `ParseDuration` are modelled by what
they compute. `MCDashboard` gives the texts a user may type. `hasty` (the user has changed a
selection while a request was under way) and `lost` (an answer had no callback that goes
on polling) are histories.

### The modules with proofs

`BlockStoreProofs`, `BlockMapProofs`, `RecordLogProofs`, `ThreadPoolProofs`, `ClusterProofs`,
`DashboardProofs` and `QueryProofs` extend the module they are about with its inductive
invariants, lemmas and theorems; `NumberFacts` has the facts about the least
and the greatest number of a set that several of them cite. See section 5.

Operators whose comment begins with FAULT are not part of any specification.
Each is a definition of the model with a plausible bug, used to confirm that a
property notices it.

## 3. Runs

| Run | Checks | Result |
|---|---|---|
| `block_store` | `TypeOK`, `Durable`, `KeptStays`, `ImplementsDurableStore`, `FlushReturns` | hold |
| `block_map` | `TypeOK`, `FlushedKept`, `FlushedServed`, `OneOwner`, `RoutesKnown`, `ImplementsDurableStore` | hold |
| `record_log` | `TypeOK`, `ReplayComplete`, `ImplementsDurableStore`, `AddedIsFlushed`, `EveryFileIndexed` | hold |
| `thread_pool` | `TypeOK`, `EachJobOnce`, `LimitKept`, `NobodyLeft`, `AddedIsRun` | hold |
| `cluster` | `TypeOK`, `RecordedOnce`, `RecordedByOwner`, `SuccessMeansRecorded`, `AllAnswered` | hold |
| `query` | `TypeOK`, `AnswerSorted`, `ConsecutiveMerged`, `RunsCoverValues`, `PeaksShown`, `LimitKept`, `Answered` | hold |
| `dashboard` | `TypeOK`, `AlwaysPolling`, `OnePoller`, `MatchedInterface`, `IncreaseGrows`, `SettlesOnSelection`, `PollersMerge` | hold |
| `block_append_race` | `WrittenReachesDisk` | violated |
| `block_index_gap` | `FlushedServed` (BlockStore) | violated |
| `block_map_join_race` | `FlushedAlwaysKept` | violated |
| `flush_deadlock` | `FlushReturns` (FlushLocks) | violated |
| `query_merge` | `AllMerged` | violated |

The runs that hold:

- **block_store**: once a `Flush` has stored a stream, no interleaving of
  appends, flushes, compactions, failing file operations, crashes and restarts
  takes it from disk or from what the next compaction reads, unless a block file
  is written short, or behind what a failed compaction left (`Durable`). No step of a running process drops a
  stream that `DatastoreBlock.Read` would return (`KeptStays`). Every Writer
  leaves its `Flush` (`FlushReturns`).
- **block_map**: with the race above and clashing end keys set aside, flushed streams are on disk at
  every moment of every split and join, crashes and failing writes included
  (`FlushedKept`), are found by queries between ticks (`FlushedServed`), no two
  blocks share a file (`OneOwner`), and every block can be written to
  (`RoutesKnown`).
- **record_log**: when `Flush` has written the start of a value readably and erased it from `log_`, it is in
  some file at every moment (`ImplementsDurableStore`), whatever fails and wherever the process
  dies, but for the three kinds of damage above. The replay finds every change that is
  not indexed, unless `AdminThread` has moved a file under it or the replay has spliced (`ReplayComplete`).
  What is in `log_` is written to the disk, retries of failed writes included, as long as the process
  lives and no record written in part is before it (`AddedIsFlushed`), and no rotated or left-over file is stuck
  (`EveryFileIndexed`).
- **thread_pool**: every connection is in exactly one place (`EachJobOnce`), and is
  served while the server runs, if connections kept alive do not hold all threads from some moment on
  (`AddedIsRun`): the unlocked parts of the pool do not touch the queue. The limit on threads, and that `Stop` leaves none behind, hold as
  long as no two threads run the policy at once (`LimitKept`, `NobodyLeft`).
- **cluster**: a stream is recorded by one server only, even while rings differ, and
  more than once only after a forward without an answer (`RecordedOnce`); by its owner,
  as long as no configuration changes (`RecordedByOwner`). Success means recorded,
  unless a forward failed, which the client is not told (`SuccessMeansRecorded`).
  Servers with all threads waiting for each other answer in the end, because
  forwards have deadlines (`AllAnswered`).
- **query**: the pipeline ends for every request (`Answered`), and without a race between `Get` and its writer the
  answer is within the limit (`LimitKept`), whatever the streams. If the streams are sorted, the answer
  is, even when `Get` overtakes the writer (`AnswerSorted`), and without that race it shows the peak
  of every period but the last (`PeaksShown`) and, if no value ends before it begins, covers all values that
  passed (`RunsCoverValues`). Streams that follow each other in
  time are merged without loss, sorted or not (`ConsecutiveMerged`); others are not, see below.
- **dashboard**: a page never stops polling unless an answer was lost (`AlwaysPolling`) and in
  the end shows what is selected, in whatever order answers come (`SettlesOnSelection`). A patient
  user has one poller and an interface of the right host (`OnePoller`, `MatchedInterface`); the
  pollers a hasty one starts merge again if answers come sooner than timers (`PollersMerge`).
  `+` shows a longer time although the text it starts from is rounded (`IncreaseGrows`).

The runs that are violated each contradict a comment of the code; the
counterexamples are in "findings" of `PROJECT.json`:

- **block_append_race** (`datastore.go:223`, "will eventually be flushed to
  disk"): a stream appended between the loops of `Flush` and its
  `NewStreams = nil`, or by two goroutines at once, is lost. No fault is needed.
- **block_index_gap** (`datastore.go:224`, "immediately available for use"):
  `DatastoreBlock.Write` builds the new `BlockHeader.Index` before the file it
  describes is in place; queries take no lock.
- **block_map_join_race** (`datastore.go:432`, "This will block writes to the
  old blocks"): `joinBlocks` takes no lock, and removes a log that a `Flush` has
  appended to after it was read.
- **flush_deadlock** (`datastore.go:318`, "Returns once everything is written"):
  two `Flush`es that visit two blocks in opposite orders wait for each other.
- **query_merge** (`openinstrument.go:119`, "merges multiple ValueStreams"): the loop
  advances the index of every stream whose value was the smallest so far; if a later
  stream has a smaller one, the value is skipped for good.

Other deviations that the models contain, and that the properties above set aside by
name rather than by leaving them out:

- `WriteProtoFile` appends behind a record that a crash has cut off, and the reader does
  not find the record boundaries again (`logTorn` in BlockStore).
- After a failed rename the next compaction of the process appends to the same
  temporary file (`tmpFile`, `damaged` in BlockStore).
- `joinBlocks` leaves the end keys of removed blocks in `blockKeys`; `findBlock` then
  returns no block and `Writer` drops the stream (BlockMap; only the other direction is
  `RoutesKnown`).
- Two threads in the policy of the pool at once create more threads than its
  maximum, and may drop one from `threads_` (`raced` in ThreadPool).
- The replay and the reindexing of the record log lose the ends of values although nothing fails
  (`Encode` in RecordLog), where `record_log.h:5` has "The log can be replayed at startup to load all items that
  have been recorded by not yet indexed". An orderly shutdown drops what is in `log_` without a last `Flush` (`Sleep`).
- A thread is counted as busy only after it has taken its closure from the queue. A connection that is
  queued between the two gets no thread of its own although the pool may grow, and waits behind the first as long
  as that is kept alive, where `threadpool.h:31` has "If there are not enough threads available to service a
  request, one will be created up until the max size is reached" (the premise of `AddedIsRun`).
- The answer to a query of streams that arrived out of order is not sorted, and the run of a value that
  ends before it begins does not cover what is merged into it (the premises `StreamsSorted` and `EndsRight` in Query).
- The handler of the duration's text calls `val` of the event, throws, and changes nothing
  (`EditDuration`); an answer that cannot be parsed and a failing list end the polling
  (`lost` in Dashboard).
- A slice bound underflows when run-length encoding has left fewer values than
  `MaxValues` (`CutPanic` in Query).
- **Two files with one end key** (`clash` in BlockMap). The process dies in `splitBlock` between
  the left and the right write; the left file stays. After the restart the block is
  split again at the same name, and the new left file replaces the old one in the map,
  not on disk. At the next restart `readBlocks` finds both, with the same end key, and keeps
  the one it reads last. If that is the old one, the log of the new one has no block
  and becomes a block of its own, with the same id as the file that is not in the
  map. When `joinBlocks` later reads that file back, two blocks share an id, and a compaction
  of one removes the log of the other, with flushed streams in it. This takes five names, several streams
  of a name and two crashes, more than the run has; it was met in the attempt to prove `FlushedKept` and
  `OneOwner` without the condition `~clash`, and a directed run of TLC confirmed it.

## 4. Bounds and fairness

| Bound | Value | Why it is enough |
|---|---|---|
| `Values`, `Writers` | 2, 2 | two Writers are what an append race needs; two streams let one be lost while the other survives, and let a log be half written. The proofs hold for all sets. |
| `MaxCrashes` | 2, BlockMap 1 | a crash, a restart that works on what it left, and a second crash. BlockMap also holds with two crashes (3.5 million states, one minute); the run kept has one, and the proofs hold for any number |
| `MaxIOErrors`, `MaxShortWrites` | 2, 1 | a failing operation and a failing retry; one short write ends what `Durable` promises |
| `MaxKey`, `SplitPoint` | 4, 2 | a block with three names is split, and both halves can be split or joined again |
| `MaxIds` | 5 | every name can have its own block and there is one more for a split |
| `MaxErrors` | 1 | one failing file operation at every point of compaction, split and join |
| `Blocks`, `MaxRequests` | 2, 2 | the smallest cycle of waiting |
| RecordLog `Inputs`, `MaxTime`, `MaxRecords`, `MaxRotations` | 3, 2, 2, 2 | a number, the same number later (a value with an end) and another one; two files that may, or may not, have the same newest timestamp, or the same value |
| RecordLog `MaxCrashes`, `MaxErrors` | 1, 1 | a file left behind by either, one by both, and a restart that works on it |
| `MaxJobs`, `MaxWorkers`, `TargetSize`, `MaxSize` | 3, 3, 1, 2 | the pool grows on demand, reaches its limit, and by a race exceeds it by one |
| Cluster `NumNodes`, `Threads`, `MaxClients` | 2, 1, 2 | two servers whose only threads wait for each other |
| Cluster `NumNames`, `MaxStreams`, `Dropping`, `Early` | 4, 2, {3}, {4} | a name of each server, one beyond the last (the ring wraps), a dropped one, one that ends the loop with a stream before or behind it |
| Cluster `Addresses`, `MaxReloads`, `Configs` | 2, 1, {{1}} | one retry; one server that loses the other from its ring |
| Query `NumStreams`, `MaxLength`, `MaxStored`, `MaxTime` | 2, 2, 3, 3 | equal, interleaved and consecutive timestamps of two streams, one of which may be unsorted or have a value twice |
| Query `Ends` | {0, 2} | an end before, at and after the timestamp of its value |
| Query `MinTimes`, `MaxTimes` | {0, 3}, {2, 3} | each side of the filter is set or not; together they let nothing pass |
| Query `Numbers`, `Limits`, `Durations` | {1, 2}, {2}, {0, 1} | equal values (a run) and different ones; more and fewer values than the limit, before and after encoding |
| Dashboard `Hosts`, `MaxClicks`, `MaxFailures` | 2, 3, 1 | there and back again while a request is under way, and one answer lost |

The passing runs have no symmetry: BlockStore checks liveness, and the names of
BlockMap are ordered; the others check liveness too. They reach between 97 000 and
2.1 million states (query), each in less than three minutes. Deadlock is
not checked: a server whose clients have sent everything rests.

Two runs were also made with other bounds, and hold. The safety properties of `record_log` with three records,
which a splice needs, and one rotation: two variables with one timestamp (11.3 million states), and one variable
with all combinations of timestamp and number (5.0 million). `query` with all properties and `MinTimes` {0, 2} (2.7
million), and its safety properties with timestamps up to 2 and `Ends` {0, 1, 2} (1.6 million).

Fairness. In BlockStore every Writer and the running compaction are weakly fair:
the Go scheduler runs every goroutine that can run, and only finitely many others
compete for the mutex within the bounds. Requests, ticks, crashes and restarts
are not fair. FlushLocks also assumes strong fairness for taking a lock (a Go
mutex does not starve a waiter), so that its counterexample is a deadlock and
not bad luck.

In RecordLog the admin thread and the replay are weakly fair; nobody need restart a
dead process (`EveryFileIndexed` says so in its premise). Errors are finitely many (`MaxErrors`), which `AddedIsFlushed` needs: a disk
that stays full takes nothing. In ThreadPool the
threads are, except that a closure need not end; that not all threads are held for good is the premise of
`AddedIsRun`. Connections and `Stop` need not come. In Cluster a server with something to do does
something, and the deadline of a forward passes (`HttpClient` sets 30 s). In Query every
goroutine is weakly fair. In Dashboard the browser answers or fails every request and
runs every timer. Users, clients, crashes and reloads are never fair.

## 5. Proofs

TLAPS checks the proofs of seven modules, with `NumberFacts` beside them: all invariants, action
properties and refinements of the passing runs. Each theorem holds for every value of the
constants that satisfies the assumption its module names: bounds are natural numbers
(`ConstantsAssumption`, `ClusterAssumption`, `DashboardAssumption`, `QueryAssumption`), model values are
distinct, a pool has room for its target size, a cluster has a server, a thread and an
address, and the texts a user may type are texts (`TypedAssumption`). What clients of the record log send is any set of variables, times and numbers
(`InputsAssumption`). No assumption restricts the number of streams, processes, crashes or errors.

| Module | Theorem | States |
|---|---|---|
| `BlockStoreProofs` | `TypeCorrect`, `FlushedIsDurable`, `CompactionLosesNothing`, `BlockImplementsDurableStore` | `TypeOK`, `Durable`, `KeptStays`, `ImplementsDurableStore` |
| `BlockMapProofs` | `TypeCorrect`, `AlwaysRouted`, `BlocksShareNoFile`, `FlushedStaysOnDisk`, `FlushedIsServed`, `MapImplementsDurableStore` | `TypeOK`, `RoutesKnown`, `OneOwner`, `FlushedKept`, `FlushedServed`, `ImplementsDurableStore` |
| `RecordLogProofs` | `TypeCorrect`, `ReplayIsComplete`, `LogImplementsDurableStore` | `TypeOK`, `ReplayComplete`, `ImplementsDurableStore` |
| `ThreadPoolProofs` | `TypeCorrect`, `NoClosureLost`, `PoolLimited`, `NobodyOutlivesStop` | `TypeOK`, `EachJobOnce`, `LimitKept`, `NobodyLeft` |
| `ClusterProofs` | `TypeCorrect`, `ForwardedOnce`, `OwnerRecords`, `SuccessRecords` | `TypeOK`, `RecordedOnce`, `RecordedByOwner`, `SuccessMeansRecorded` |
| `DashboardProofs` | `TypeCorrect`, `NeverStopsPolling`, `PollsOnce`, `InterfaceOfHost`, `PlusShowsMore` | `TypeOK`, `AlwaysPolling`, `OnePoller`, `MatchedInterface`, `IncreaseGrows` |
| `QueryProofs` | `TypesHold`, `AnswerIsSorted`, `ConsecutiveStreamsMerged`, `RunsCover`, `PeaksAreShown`, `LimitHolds` | `TypeOK`, `AnswerSorted`, `ConsecutiveMerged`, `RunsCoverValues`, `PeaksShown`, `LimitKept` |

A proof of an invariant has one step, or one lemma, per action of `Next`. The properties are
not inductive; what each proof adds to them is the argument why the code is right.

**BlockStore.** `DurableInv` is the conjunction of `TypeOK`, `Durable` and

- `LockInv`: exactly the goroutine inside the critical part of `Flush` or
  `compactBlock` owns `logLock`, and a stopped process has no goroutine. Without it
  a `Flush` could merge between the compaction's read and its clear;
- `LoggedInv`: what the running `Flush` counts as logged is in the log file, so
  that `FlushMerge` may call it flushed;
- `CompactInv`: before the rename the compaction's buffer holds exactly what the
  block file and `LogStreams` hold; after it `LogStreams` is contained in the block
  file (unless the file is damaged), so that clearing it takes nothing away.

`WrittenFacts` shows that a file written to a fresh temporary file, or behind a
leftover with a header of the same length, lacks nothing. `CompactionLosesNothing` follows from
the same invariant: only `CompactRename` and `CompactClear` change `Kept`
otherwise than by adding to it. The refinement adds `SentInv`: every copy of a stream in a slice,
buffer or file is one that a client has sent.

**BlockMap.** `MapInv` holds whatever races: ids in use have been given out, everything in memory and on
disk was sent, and `findBlock` knows the end key of each block, also of the one that `joinBlocks` will
put into the map (`tick.key \in blockKeys`), without which `RoutesKnown` is not inductive. `KeptInv` holds until a
race, damage or a clash, and is the conjunction of

- `OwnerInv`: no two blocks share an id, in the middle of a split or a join too;
- `BlockInv`: `LogStreams` is what the log holds; the end key of a block is a name it holds,
  none of its names is above it, and it is in the header of its file;
- `FileInv`: the header of a file lists the names in it, and the log has no name above them all. With
  `BlockInv` this makes a restart put each block where it was;
- `ReadInv`: in a restart each file read has its block, so that a log without a block has no file either;
- `QuietInv`: the blocks the ticker works on have no unflushed streams;
- `SplitInv`, `JoinInv`: what the ticker has read is what the block, or the blocks it has still to
  remove, hold; the part that a write or a removal takes from one file is in another one that
  exists already. The split point is one of the names, so that neither file is empty;
- flushed streams are on disk.

`JoinableFacts` (the loop of the ticker that chooses the blocks to join, a recursive function) shows
that only blocks of the map are chosen, and `LeftKeyFacts` that the middle name exists and leaves
names on both sides. The attempt to do without `clash` failed at `readBlock`: see section 3.

`FlushedIsServed` needs `ServeInv` on top of these, about a process that has met no race, error or crash:

- `RouteInv`: between the names of any two blocks lies an end key that `findBlock` looks through, but for the blocks
  being joined. A name that is in a block is therefore routed to it, and a new stream to the only
  block whose range of names it falls into. It also excludes that `SplitInsert` finds its key taken: the block there would have
  to be separated from the left half by a key that belongs to both;
- `OwnedInv`: whatever is on disk belongs to a block of the map, or to the left half of a split that is not in
  the map yet;
- `IndexInv`: the index of a block names all that is in its file. It fails for the joined block between
  its write and its publication, which is why the property speaks about the time between two ticks;
- `WorkInv`: a block being split has an empty log, and after the right write only names to the right of the
  split point; `joinBlocks` works on names it has read.

**RecordLog.** Three invariants say which files a directory can hold: `FlushInv` (what the running `Flush` has
written is in `recordlog`, which is not rotated meanwhile), `DirInv` (a name has more `.new` than there were
crashes and errors only while it is written) and `IndexInv` (`WriteIndexedFile` has its input until the
unlink, and its output from then on). `DataInv` is about the encoding: the changes read from the input so far are in
`log_data`, unless it has spliced, and those of the rows written are in the output. It rests on the lemmas about
`Encode`: a value joined to another one of the same change takes no change away. With `PromisedInv`, what is promised
is in some file unless damaged, these give the refinement. `LiveInv` gives `ReplayComplete`: a change in a file is live, or
in what the open file has left, or in a file still to be replayed.

**ThreadPool.** `PoolInv` (`busy` counts the threads that run a closure; a caller has not created
itself), `HandInv` and `JobInv` (a closure is in one place, and where it is follows from the
program counters), `RaceInv` (until two callers are in the policy at once, what one of them is about to
create fits, and `threads_` lacks at most the thread just created), `StopInv`.

**Cluster.** `ClusterInv`: `PhaseInv` and `SendInv` say how a request, its forwards and their retries follow each
other; `SiteInv` that a stream is at one server at most, counting the ways to it; `CopyInv` that it is
recorded at most once per address tried. `OwnerInv` and `AnswerInv` account for every stream as
long as rings agree, or no forward has failed.

**Dashboard.** `PollInv`: with a user who waits, there is one request or timer at most, and the timer is the one
`fetch_timeout` refers to; `MatchInv`: the options offered, asked for and selected are of one host.
`PlusShowsMore` is about all durations: it goes through the units of `NiceDuration`.

**Query.** A value is an address, and the proofs follow it through the pipeline:

- `TodoInv`, `ClosedInv`: a group that `Get` has not started is untouched, and the channels close one after the other,
  when nothing is left to send;
- `PlaceInv`, `WriterInv`: an address passes every place of the pipeline once. Without it a writer could
  extend the end of a value that another group, or `Max`, has still to read;
- `OrderInv`, `YoungestInv`, `SortInv` (for `AnswerSorted`, of sorted streams): nothing that `Get` has passed is after what is still in a channel or at
  the head of a stream, so that a writer appends the youngest value. `before`, the slice that a
  writer has read, is sorted on its own, so that it does not matter when `Get` cuts;
- `LenInv`, `LimitInv` (for `LimitKept`): what is written, with the value in the writer's hands, is at most what was
  passed, which `Get` counts;
- `CoverInv`, `DoneInv` (for `RunsCoverValues`): each value passed, but for the one in the writer's hands, has its number in what is
  written, and is in a run of it unless the run has ended before it began. The premises `StreamsSorted` and `EndsRight` speak
  of the heap at the end, in which writers have moved ends; lemmas `SortedBefore` and `RightBefore` show that they
  held before each step (a writer may repair an end, hence `Right`, which is about the values merged away), so the
  invariants may assume them at every moment;
- `PeriodInv`, `PeakInv` (for `PeaksShown`): a peak that `Max` has seen is in the current period or on its way;
- `MergedInv` (for `ConsecutiveMerged`): what is taken from its stream has been sent. Lemma `TakenOne` is the heart of it: of streams
  that follow each other, each in whatever order, the loop of `MergeValueStreams` meets the smallest head first, and so advances
  no index but that of the value it sends.

Only model-checked:

- the liveness properties (`FlushReturns`, `AddedIsFlushed`, `EveryFileIndexed`, `AddedIsRun`, `AllAnswered`,
  `Answered`, `SettlesOnSelection`, `PollersMerge`): fairness is outside the prover's reach;
- the violated properties, which have counterexamples.

## 6. Abstractions

- Only the process crashes. Logs are never synced (only `DatastoreBlock.Write` calls
  `Sync`, before the footer and the final header), so that nothing could be promised
  about a power failure; a write that has returned is on disk here.
- A block file is written to `block.<id>.new.<pid>` and renamed. A restarted process
  has another pid, so only leftovers of the same process are modelled. A short write
  and a failing rename of the same file are not combined.
- A leftover changes what a sequential `Read` finds; the index still leads to the new
  records. `Served` looks at what `Read` finds, and is only used in runs, or under
  conditions, without errors.
- The code panics where it closes a file it could not open (`datastore.go:763`,
  `datastore.go:886`). To the models this is a crash.
- Thresholds of `shouldCompact` (number of streams, sizes, age) are abstracted to
  what all of them imply: `LogStreams` is not empty. The ticker compacts, splits
  and joins in a fixed order; the models allow any order.
- Byte-level resynchronisation of a damaged log is a choice: a record behind a
  partial one is readable or not.
- In BlockMap contents are sets, so that a stream stored twice (a crash between
  rename and removal of the log) is not told from a stream stored once.
- Failing `os.Remove` calls in `joinBlocks` are not modelled.
- `Reader` is represented by what it can find in one state (`Served`); its goroutine,
  which looks at several places one after another, is not modelled.
- BlockMap: `JoinRemove` removes the log of an old block, its map entry and its file in one step; what a
  Writer does to such a block between them counts as `raced` in any case.
- RecordLog: values are numbers (strings are encoded in the same way); clients send no ends; `RecordNoLog`, which
  changes `live_data_` without a lock, and `Add` are one step, so that two handlers that record the same
  variable at once are left out. Only the process crashes.
- ThreadPool: the counters that steer nothing and the deletion of threads, whose callback
  is empty, are left out.
- Cluster: `HashRing::GetNode` tests for the empty ring, looks up and dereferences in one step, though
  it takes no lock; a server has one point on the ring; a stream has one value; the retention
  policy is the set of names it drops; a connection that fails and an answer that comes
  too late are the same to the sender.
- Query: one request at a time. What an earlier one has left in the values of streams in memory is in the choice of
  their ends; two at once that change the same value are left out. All streams have one variable name, by which
  `MergeStreamsBy` groups too. A duration of 0 is a request without mutation;
  `Max` is the only mutation; at most one aggregation.
- Dashboard: drawing, resizing and the texts of the options are left out; all timers have
  the same length, and so expire in the order in which they were set. Of the texts that `parseInt` takes, a number
  with anything behind it is a number of seconds, and a negative number counts as an empty text, as `NiceDuration`
  shows it as one.

## 7. Not modelled, and plan

What is worth modelling next is `Reader` as a process over BlockStore (hazard at `datastore.go:278`). The proofs of the passing runs are complete but for liveness.

Not modelled, and why:

- **Mean, Interpolate, the rates** (Go) and **ValueStreamCalculation** (C++): arithmetic on
  floating point numbers. `ValueStreamCalculation` (`lib/protobuf.cc:69`) subtracts an interval from an
  unsigned timestamp, which needs its width and no interleaving.
- **Go StoreManager and IndexedStoreFile**: the engine before `datastore`; `store.go` does not
  start it any more. Its record log has the shape of RecordLog here.
- **Go hashring and store_config**: the Go server does not forward.
- **StoreFileManager, the range queries, List and the status pages**: they read and format.
- **Retention ages**: the choice of a policy by age is arithmetic on one request
  (`store.cc:430` underflows for a value in the allowed future); Cluster keeps its outcome.
- **HTTP, sockets, URIs, strings, files, tries; clients and collectors**: pure I/O and
  formatting.
- **jquery, flot and its plugins, excanvas** under `static/flot`: vendored. They make up nearly all
  JavaScript of the repository; the page's own code is `test.js` and `openinstrument.js`, which
  Dashboard models except for `Variable` (parsing of names) and `ResizeGraph`.
