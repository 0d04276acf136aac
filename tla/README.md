# Hrux-DB: a verification project

TLA+ models of Hrux-DB (`src/kv-distributed`, Go) and of the flash-sale
microservice built on it (`src/microservice-flashsale`, Node), TLC
configurations that check them on small instances, and proofs, for every instance,
of every invariant they check and of the storage engine's refinement of its
contract.

## 1. The system

| component | source | state | operations |
|---|---|---|---|
| storage engine | `internal/storage/storage.go` | 256 shards, each a lock, `Buckets` and `TTL` | Put, PutWithTTL, Get, Delete, Update, List, ScanShard, LoadFromFile |
| write-ahead log | `internal/storage/wal.go` | the log file and its handle, `opCount`, `compacting`; during a compaction the `.tmp` file | Append, Compact, Replay |
| publish/subscribe hub | `internal/service/pubsub.go` | per topic the Go channels of its subscribers, an RWMutex | Subscribe, Unsubscribe, Publish |
| HTTP server | `cmd/http-server/main.go` | none of its own; the loop of `/subscribe` | one handler per operation |
| data structures | `internal/datastructures/service.go` | sets, sorted lists, maps, queues, stacks behind one lock, in memory only | add, remove, list, push, pop, peek |
| service, indexer, transactions | `internal/service`, `internal/indexing` | none | prefix, range and cursor queries; ExecuteTransaction |
| RPC server, client library | `internal/api`, `client` | one connection per client; a list of slaves that is always empty | a handler and a client method per operation, Close |
| command line | `cmd/server`, `cmd/client` | none | start-up, shutdown; a demonstration |
| flash sale | `microservice-flashsale/server.js`, `sdk/hrux-client.js` | none: all of it in the database | create a product, buy, list, offer, reset |

How they interact.  A handler calls the service, which calls the engine or the
data structures.  A write first appends a record to the log (under `w.mu`) and
then changes memory (under the shard's lock); the append that takes `opCount`
to the threshold starts a compaction goroutine, which copies the shards to
`.tmp` one after another under their read locks and then, under `w.mu`, puts
that file in the place of the log.  At start-up the log is replayed into
memory; an error of the replay is logged and the server goes on.  A publisher
holds the hub's read lock while it offers the message to each subscriber's
buffered channel; a `/subscribe` handler moves messages from its channel to its
client until the client goes away, and then takes its channel out of the hub.
The goroutines of an RPC client share one connection; the server runs every call
in a goroutine of its own, which goes on when the connection is gone.
The flash sale is a client: each `await` in a handler is one request to the
database, and Node runs other handlers meanwhile.

What is hard, and what would make each part correct:

* *Storage and log.*  Two locks per write, a compaction that overlaps with
  writers, a swap of two files, crashes, power cuts and disk errors between any
  two steps.  Correct means: what the log would be replayed to is what memory
  holds; a completed request survives a crash; compactions exclude each other,
  end, and keep the log bounded; every request returns.
* *Hub.*  Channels are closed while others publish, buffers fill, clients
  stall.  Correct means: no send on a closed channel, no loss but at a full
  buffer, order per publisher, nobody waits for ever, nobody is forgotten.
* *Flash sale.*  Read and write of the stock are two requests, and any request
  may fail.  Correct means: units are neither lost nor sold twice, answers are
  on record, everybody gets one.
* *Scans and transactions.*  List and ScanKeys read shard after shard, and a scan
  goes on from a cursor in a map that has changed; a transaction is a sequence of
  single operations, any of which may fail.  Correct means: what is there all the
  time is found, once; nothing is found that never was; the answers of a
  transaction tell what it has done.
* *Data structures.*  The slice of a sorted list leaves its lock and is encoded
  while others sort it.  Correct means: the list comes out sorted and whole, its
  readers get what was there, and what is pushed is popped once.
* *RPC.*  A connection may go with calls under way on it: the client closes it,
  the network breaks it, or the server has an answer that gob cannot encode.
  Correct means: every call comes back, and nothing that was pushed is lost by it
  before it is popped.

`PROJECT.json` lists every component, and under "hazards" each of these dangers
at the line where it bites.

## 2. Modules

| module | what it is |
|---|---|
| `StorageWAL` | storage engine and log: clients, compaction goroutines, clock, crash, replay; invariants and liveness |
| `DurableStore` | the abstract contract: a map whose requests take effect one at a time and survive crashes |
| `StorageWALDurable` | `StorageWAL` under the refinement mapping to `DurableStore`, and claims of the documents |
| `StorageWALProofs` | lemmas about `Latest`, `Recovered` and appending to a log; type correctness and exclusion of compactions |
| `StorageWALRecovery` | the inductive invariants behind recovery and behind the operation count |
| `StorageWALPromise` | the refinement of `DurableStore`, step by step |
| `PubSub` | hub, `/publish` and `/subscribe` |
| `FlashSale` | `/api/buy` and `/api/product/create` over the database |
| `KVService` | `ExecuteTransaction`, `List`, the prefix and range queries and `ScanKeys` on one bucket, shard by shard |
| `RPC` | calls of the client library, connections, answers; the handlers are left to its extensions |
| `DataStructures` | extends `RPC` by sets, sorted lists, maps, queues and stacks |
| `Server` | the composition of `KVService` and `DataStructures`: all of it called through RPC |
| `PubSubProofs`, `FlashSaleProofs`, `KVServiceProofs`, `DataStructuresProofs` | the invariants of these modules, proved |
| `ServerProofs` | that the steps of `Server` are steps of its components, and what follows |
| `MCStorageWAL`, `MCPubSub`, `MCFlashSale`, `MCServer` | instances for TLC |

Definitions named `X_Something` next to a definition `X` are mutants of it:
plausible bugs that show that a property depends on `X`.

### StorageWAL

A key of the model is a (bucket, key) pair.  `mem[k]` is the value under `k` in
its shard's `Buckets` and the expiry in its `TTL` (0: none); `log` and `tmp` are
the records of the two files; `synced` says how much of the log a power cut
cannot take.  A record is what `Append` encodes: operation, key, value, expiry;
`torn` marks one of which only a part is in the file.

| action | code |
|---|---|
| `CallPut`, `CallDelete`, `CallUpdate` | entry of Put, PutWithTTL, Delete, Update: the expiry is computed, Update's Get is made |
| `AppendOK`, `AppendFails` | `Append`, one critical section of `w.mu`: write, count, claim the compaction |
| `Unlogged` | the same for a server that has no log: nothing |
| `Apply` | `putInternal` / `deleteInternal` under the shard's lock |
| `CompactOpen`, `CompactOpenFails` | creation of `.tmp`, and its error path |
| `LockShard`, `CopyKey`, `UnlockShard` | the loop over the shards and over a shard's keys, in the map's random order |
| `CompactRemove`, `CompactRename` | the swap, in its two file operations |
| `CompactRemoveFails`, `CompactSwapFails` | the failures of Remove, Sync and Rename, which the code does not look at, and of OpenFile |
| `Crash` | the process dies, or the power: the unsynced tail of the log goes, the record it cuts is torn |
| `NewWALFails` | the log cannot be opened at start: the error is dropped, and the server runs without one |
| `ReplayRecord`, `ReplayEnds`, `ReplayMisreads` | one round of `Replay`, its end, and a round that reads a torn record on into the next |
| `ReplayFails` | Seek or a read fails: the error is logged, and the server runs with what has been loaded |

A step is one critical section or one file operation that a crash can separate
from the next.  Three history variables say where the log, memory and the count
may differ: `skipped` (keys whose newest write the running compaction does not
have), `stray` (keys for which the log itself may tell another story than memory:
two requests on the key were between append and apply at once, a compaction
skipped it, or a read error ended the replay before its last record) and
`uncounted` (records that such a replay did not count, or that a swap kept, whose
Remove and Rename both failed, while it reset the count).

A `Get` is not an action: it changes nothing.  What it returns is `Visible` and
`mem[k].val`.

### PubSub

`subs`, `buf` and `closed` are the hub's map and the Go channels; `conn[c]` is
where the handler of connection `c` is.  `ps.mu` is modelled as Go's RWMutex
works: a writer that has announced itself keeps new readers out, and when it
unlocks, the readers that queued up come first.  A writer's section is one step
because it meets nobody; a reader's (Publish) is one step per channel.  A handler
in `write` may stay there for as long as its client is slow.  `got`, `due` and
`lagged` are history.

### FlashSale

One product.  `inv`, `meta`, `listed`, `buyers` and `waitlist` are its keys, sets
and queue in the database; `pc[r]` is where the handler of request `r` is.  One
step is one request to the database with the code up to the next `await`.  A
request is answered, or throws before or after the database did its work; and a put
may be answered like any other and have done nothing, because the service's Put
drops the error of a failed append (`AnsweredUnmade`).  A
restart empties sets and queues, which `datastructures/service.go` holds in
memory only, and keeps keys.  That keys survive is an assumption: section 4 lists
how the engine may lose them, and such a loss is not in this model.  A request that
throws is not carried out later.  One product is created at a time, but it may be
created again, to fill the stock up.

History since the stock was last set: `taken`, the writes of buyers; `sold`, the
puts that were confirmed to them; `unmade`, those of these that wrote nothing;
`raced`, two buyers held a reading at once; `stale`, a buyer held one when the stock
was set.  Of the whole run: `skipped`, what was confirmed to the creating handler
but not put; `before[r]`, what had been bought when `r` arrived; `blind`, the requests
whose fraud check could not read the buyers; `forgotten`, those whose outcome a
restart has wiped.

### KVService

Here a step is one critical section of a shard, and the log is only an `Append`
that may fail: what becomes of records is the subject of `StorageWAL`.  Time is
reduced to whether the expiry of a key lies ahead or has passed (`Expire`).

| action | code |
|---|---|
| `Begin`, `Return` | entry and return of `ExecuteTransaction`; a single request is a transaction of one operation |
| `PutOp`, `DeleteOp`, `BadOp` | the cases of its `switch`; the service's Put has no result |
| `UpdateCheck`, `UpdateWrite` | `Update`: its Get, and its Put in another critical section |
| `Start`, `Finish` | the handlers of `/list` and `/scan`, and their client |
| `List`, `Listed` | one round of List's loop, its end: an error if nothing was found; a query then picks its keys |
| `ScanShard`, `ScanAnswer`, `ScanNext` | one round of ScanKeys' loop; the page with its cursor; the request for the next page |

`always`, `ever`, `base` and `unsure` are history: what a reader could and must
find, what a transaction found on its keys, and the keys of which its answers say
nothing certain: those that another writer has written, or whose put was answered
without being made, since the transaction last wrote them with success.

### RPC, DataStructures and Server

Every goroutine of a client makes one call.  `stage[c]` is where call `c` is on the
server, `told[c]` what its caller has heard: a success, an error, or that the
connection is broken.  The two go apart when the connection breaks, since the
server's goroutine goes on.

| action | code |
|---|---|
| `Call`, `Drop` | a method of `KVClient`; `Close`, or a failure of the network |
| `Lose`, `Reply` | what net/rpc does: a request that was never read; an answer that is sent, dropped, or not encodable |
| `SetAdd` ... `StackPeek` | the operations of `datastructures/service.go`, one critical section of `ds.mu` each |
| `SortedListAdd`, `SortSwap`, `SortDone` | append under `ds.mu`, the exchanges of `sort.Strings`, the unlock |
| `SortedListGet`, `EncodeElem` | the slice is returned under the lock; its strings are read one by one after it |
| `Serve`, `StoreStep`, `Served` | a call of the store: the steps of a writer of `KVService` between request and answer |
| `ReadStep`, `Broken`, `Carry` | a step of a reader; a broken connection; a step of `DataStructures` |

A slice is an array of `heap` and a length.  `append` writes into the array if it
has room and makes one of twice the length if not, which is how Go grows short
slices; `sort.Strings` on up to 12 strings is an insertion sort, and on a list
that was sorted before it takes the new element down by adjacent exchanges.  A
string read while the sorter writes it comes out old, new or `Torn`.
`ExecuteTransaction` answers with a `[]error`; gob cannot encode an error whose
type is not registered, and net/rpc then closes the connection.  So the caller of a
transaction hears of success only if every operation succeeded, and otherwise of a
broken connection, which ends the calls of its other goroutines too.  A request
over HTTP is a client that makes one call.

`reads` and `req` are chosen once, by the script: the set `Scripts` says what the
server holds to begin with and what its clients will do.  This keeps the state
space a sum over scripts.  `held`, `asked` and `disturbed` are history: what was
added to the list, what it was when a reader got it, and which readers' arrays an
add has sorted meanwhile.

## 3. Runs

| run | instance | shows |
|---|---|---|
| `storage_core` | 2 clients writing the same 2 keys in 2 shards, ttl 0 or 1, threshold 2, 3 requests, 3 clock values, 1 process crash | `TypeOK`, `CompactionExclusive`, `LogMatchesMemory`, `ReplayExact`, `OpCountTracksLog` |
| `storage_faults` | 1 client, power cuts with torn records, 2 crashes, 2 disk faults anywhere (a write, Sync, Remove, Rename, OpenFile, NewWAL, Seek, a read), fairness | the same but `TypeOK`, and `CompactionEnds`, `RequestsReturn` |
| `storage_durable` | 2 clients with a key each, ttl 1, threshold 2, 3 requests, 3 clock values, 2 process crashes; `SparedSpec` | `DurableMap`: the engine implements `DurableStore` |
| `pubsub` | 2 connections on one topic, another topic, 2 publishers with 2 and 1 messages, buffers of 2, fairness | the five invariants of `PubSub`, `PublishReturns`, `LeaverForgotten` |
| `flashsale` | 3 purchases by 2 users, stock 2, two events among creations of the product, failed requests, puts that are confirmed and not made, and restarts; fairness | the six invariants of `FlashSale`, `BuyerAnswered` |
| `service` | ten scripts: 3 keys in 3 shards, a transaction and a single write on one connection, a reader (list, query, or scan with pages of 1 or 2); 2 adds and 1 or 2 gets of a sorted list of 0, 1 or 3 elements; queue, stack, set and map; 2 connections, 1 failure (of an append or of a connection), fairness | `TypeOK`, `ReadsComplete`, `ReadsReal`, `FoundOnce`, `AnswersTrue`, `ReadersReturn` of `KVService`; `DSTypeOK`, `ListSorted`, `ListExact`, `ElementsAccounted` of `DataStructures`; `CallsReturn` of `Server` |
| `claim_recovery`, `claim_swap`, `claim_torn`, `claim_renew`, `claim_oversell`, `claim_duplicate` | small instances | counterexamples, section 4 |

Why the bounds are enough.  With a threshold of 2 and three requests a
compaction starts, overlaps with the third request, and a second one can become
due; two keys in two shards put a write before, between and after the copies of
its shard; two disk faults let Remove and Rename both fail; two crashes let a log be torn, appended to and replayed again; three
clock values take an expiry from the future to the past.  `CompactionThreshold`
(100000) and `ShardCount` (256) are constants of the model, as is the buffer of
100, which is filled and overflows with three messages and a capacity of 2.  In
`flashsale` three requests contain a pair of racing ones and one after both; two
of them are one user's; `MaxEvents` bounds failures, puts that are not made, restarts
and creations together, and a creation under way when the bound is reached still sets the stock.  In
`service` a shard holds two keys, so that a page of one overflows, another holds
none, and a transaction and a write cross in every order, before, between and
after the pages.  A list of no, one or three elements finds no room, a full array,
and room for one more add but not for two.  Three calls share a connection with one
whose answer cannot be encoded.  `Max...` and `Quota` in the guards are the bounds;
the proofs hold for every value of them.

`CHECK_DEADLOCK` is off in every run: a run that has used up its bounds, with
nothing left to do, stops.

`storage_durable` runs the behaviours of `SparedSpec`, the hypothesis of the
theorem `KeepsPromise`: those in which no write fails, no compaction misses a write
or drops an expired entry, and no crash falls between remove and rename.  Three
requests with a threshold of 2 make a compaction before and after a restart.

`storage_core` uses symmetry of the clients, compaction goroutines and values, and
has no liveness property.

Fairness.  Goroutines that can run are run: weak fairness of every client and
compaction goroutine and of the replay; nobody has to call, crash or let time
pass.  Weak fairness is enough for the mutexes because nothing in the instance
takes them for ever: finitely many requests are made, so a goroutine that waits
finally finds its lock free and stays enabled.  In `PubSub` the choice of
`select` between a message and the end of the request is random, which would
justify strong fairness; with finitely many messages weak fairness does.  The
write to a client is fair only once the client is gone, since a slow client may
block it for ever.  In `FlashSale` Node's event loop runs every handler whose
`await` is over.  In `KVService` readers are run, and the client of a scan goes on
asking: that it does is the hypothesis of `ReadersReturn`.  In `Server` one weak
fairness for all goroutines that serve calls is enough, because there are finitely
many calls and each is served in finitely many steps; clients need not call, and
nothing has to break.

## 4. Where the program and its documents disagree

* `claim_recovery` (`wal.go:132`): records appended between the copy of their
  shard and the swap are dropped with the old log; a later crash loses them.
* `claim_swap` (`wal.go:136`): a crash between remove and rename leaves an empty
  log; nothing looks at `.tmp`.
* `claim_torn` (`wal.go:208`): a torn record stays in the file, later records are
  appended behind it, and the next replay may end inside them.
* `claim_renew` (`storage.go:165`): a plain put leaves an old expiry in place, so
  a key that has expired stays unreadable after it is written.
* `claim_oversell` (`server.js:147`): two buyers that read one stock both buy.
* `claim_duplicate` (`server.js:122`): two requests of one user under way together
  pass the fraud check, and the user buys twice.

The document each of them contradicts is quoted in `PROJECT.json`.  Met while
reading and modelling, without a run: two writers of one key may append in one order
and apply in the other (`storage.go:118`), and a restart brings the overwritten value
back, which is why such a key is `stray`; an update that crosses a delete brings the
key back (`storage.go:236`), although the comment at `storage.go:231` says that it
verifies the key first; acknowledged writes are never synced, so a power cut may
take them; a read error at start leaves memory short of the log, and the server goes
on; so it does without any log if the file cannot be opened; a swap whose Remove and
Rename both fail keeps the old log and starts its count at 0; expired keys stay
in memory for ever; `/api/reset` deletes keys instead of the sets it means; the
service's Put drops the error of a failed append, so that `/put` confirms what was
not written, and a product may be sold once more or be listed without its stock;
`src/README.md:153` promises transactions with isolation and rollback, and
`ExecuteTransaction` has neither; the errors it returns never reach an RPC client, which loses its connection
instead (`server.go:312`); an answer of SortedListGet may be unsorted, repeat an
element or hold a torn string when an add finds room in the array it is encoded
from (`datastructures/service.go:85`); an element popped for a client whose
connection is gone is lost.

What holds in spite of them is what the passing runs state: outside stray keys
the log and memory agree (`LogMatchesMemory`), and the engine is the map it
promises to be (`DurableMap`) for clients that do not share keys and use a ttl, if
no power cut and no failed write tears a record, no compaction misses a write, and
no crash falls into the swap.  Each restriction is there because of one of these: the
racing writers of a key, `claim_renew`, `claim_torn`, `claim_recovery`, `claim_swap`.
An entry that has expired is dropped by a compaction and not by memory; no client can
tell, but the two maps differ, so that is excluded as well.  `OversoldThreeWays`
says the same of `claim_oversell`: the two races for a reading of the stock, and a put
of the stock that is confirmed and not made, are the only ways to it.
`NoSecondPurchase` is what is left of the promise `claim_duplicate` refutes: it holds
of requests that come one after the other.  `AnswersTrue` is what a caller of a
transaction can rely on in place of a rollback.

## 5. What is proved

Each theorem holds for every value of the constants that the named assumptions of
its modules allow: any number of keys, values, clients, goroutines, connections,
topics, shards, pages, requests, scripts, and any bound.

| theorem | module | statement |
|---|---|---|
| `TypeCorrect` | `StorageWALProofs` | `Spec => []TypeOK` |
| `CompactionAlone` | `StorageWALProofs` | `Spec => []CompactionExclusive` |
| `LogIsMemory` | `StorageWALRecovery` | `Spec => []LogMatchesMemory` |
| `ReplayComputes` | `StorageWALRecovery` | `Spec => []ReplayExact` |
| `CountTracksLog` | `StorageWALRecovery` | `Spec => []OpCountTracksLog` |
| `KeepsPromise` | `StorageWALPromise` | `Careful /\ SparedSpec => DurableMap` |
| `TypeCorrect` | `PubSubProofs` | `Spec => []TypeOK` |
| `NeverSendsOnClosed` | `PubSubProofs` | `Spec => []NoSendOnClosed` |
| `HubExact` | `PubSubProofs` | `Spec => []HubKnowsHandlers` |
| `DeliversInOrder` | `PubSubProofs` | `Spec => []InOrder` |
| `MissesNothing` | `PubSubProofs` | `Spec => []NothingMissed` |
| `TypeCorrect` | `FlashSaleProofs` | `Spec => []TypeOK` |
| `LosesNoUnit` | `FlashSaleProofs` | `Spec => []NoUnitLost` |
| `SellsOnce` | `FlashSaleProofs` | `Spec => []SoldOnce` |
| `OversoldThreeWays` | `FlashSaleProofs` | `Spec => [](~raced /\ ~stale /\ unmade = 0 => NoOversell)` |
| `AnswersOnRecord` | `FlashSaleProofs` | `Spec => []AnswerOnRecord` |
| `BuysOnce` | `FlashSaleProofs` | `Spec => []NoSecondPurchase` |
| `CatalogIsComplete` | `FlashSaleProofs` | `Spec => []CatalogComplete` |
| `TypeCorrect` | `KVServiceProofs` | `Spec => []TypeOK` |
| `MissesNoKey` | `KVServiceProofs` | `Spec => []ReadsComplete` |
| `FindsWhatWasThere` | `KVServiceProofs` | `Spec => []ReadsReal` |
| `FindsOnce` | `KVServiceProofs` | `Spec => []FoundOnce` |
| `TellsWhatIsDone` | `KVServiceProofs` | `Spec => []AnswersTrue` |
| `StructuresTyped` | `DataStructuresProofs` | `DSSpec => []DSTypeOK` |
| `AddsInOrder` | `DataStructuresProofs` | `DSSpec => []ListSorted` |
| `GetsWhatWasThere` | `DataStructuresProofs` | `DSSpec => []ListExact` |
| `AccountsForPushes` | `DataStructuresProofs` | `DSSpec /\ DifferentPushes => []ElementsAccounted` |
| `ServesBoth` | `ServerProofs` | `ServerSpec => [](ServiceInv /\ StructInv)` |
| `ServerAccounts` | `ServerProofs` | `ServerSpec /\ DifferentPushes => []ElementsAccounted` |

What the assumptions ask for, beside the types of constants: the marks (`NoVal`,
`Garbage`, `NoOp`, `NoConn`, `Torn`, `Absent`, `NoCall`) are none of the things
they mark the absence of; keys are finitely many, because a bucket is a map in
memory and the log gives a name 16 bits of length; there is a topic; a list that
the server holds at first is sorted, with zeros for the room behind it; calls that
take an argument are made with one; writers call the store, and reads are for keys.

### StorageWAL

*Type correctness* needs, beside `TypeOK`, that no client is served while the log
is replayed, and no compaction runs then or without a log (`Booting`): otherwise a swap could shorten the log under
`Replay`'s position.  The step is proved for the clients, the compaction and the
boot apart.

*Exclusion* is inductive with the type invariant: only an append that finds the
flag clear starts a compaction, and both ways out clear flag and goroutine in one
step.

*Recovery.*  `Recovered(s, k)` is the closed form of what a replay of the records
`s` leaves under `k`: the value of the last record on `k`, and the expiry of the
last one that decides it (a delete, or a put with a ttl).  The lemma everything
rests on is `RecoveredAppend`: appending a record does to the closed form what
`Effect` does to the entry in memory.  It needs that a put carries a value
(`PutsCarry`), since a delete forgets the expiry only together with a value.
`LogMatchesMemory` is not inductive.  The invariant `RecoveryInv` adds

* `Carried`: pending requests and the records of both files are puts with a value
  or deletes;
* `NoOrphans`: no expiry without a value, in memory;
* `HeldKeys`: the keys a compaction has still to copy are those of the shard it
  holds, with the value they had, since a held shard does not change;
* `SnapshotFresh`: what is still to be copied is not in `.tmp` yet;
* `SnapshotExact`: what `.tmp` would be replayed to agrees with memory, on every key
  of a shard copied that no write or fault has made the copy miss.

The swap makes `SnapshotExact` the next `LogMatchesMemory`, a crash makes
`ReplayExact` start, and the end of the replay makes it `LogMatchesMemory` again; if
a read error ends it, the keys of the records unread are stray, and of every other
key the records read are all there are.
The proof has one step per conjunct, and under it one per action that can disturb
it.

*The operation count.*  `OpCountTracksLog` rests on `SnapshotOnce`: `.tmp` holds
at most one record of each key, since each goroutine copies a key only while it is
still to be copied (`SnapshotFresh`) and is alone.  So the sequence of the records'
keys is injective, and no longer than there are keys.  `ReplayCounts` carries the
count over a restart, and `uncounted` what a read error or a swap without Remove and
Rename has left out of it.

*The promise.*  Under the mapping of `StorageWALDurable` a request is outstanding
from its call until `Apply`, which is the step of the abstract map (`Return`); the
append before it, the whole compaction and the replay are silent.  What makes the
mapping work is `RecoveryInv`: by `ReplayExact` the map does not change when a
replay ends, and by `LogMatchesMemory` a crash changes it only for requests
between append and apply, to what they would have done.  `PromiseInv` adds that
both files are whole, that the log is open but in the swap, and that an update under
way finds its key, which only its own client could delete.

### PubSub

`HubInv` says how the lock protects the hub: a publisher in its loop holds `ps.mu`
for reading (`ReadLocked`), what it has still to visit is in the hub under its topic
(`Visiting`), and closed channels belong to handlers that are done (`ClosedDone`);
since a writer waits for the readers, no channel is closed under a publisher.  For
order, `Numbered`: nothing that has reached a connection, whether written or queued,
is newer than its publisher's last message, and the message being sent has not
reached those still to be visited.

### FlashSale

A handler at `put` holds a reading.  `ReadingsCover`: such a reading plus the units
taken is at least the stock, so that writing it back less one loses none;
`ReadingExact`: without a race there is one such reading, and it is the stock.
`SalesCounted`: each confirmed sale has taken a unit or is one of the `unmade`; from
this and `NoUnitLost` the bound of `SoldOnce` and of `OversoldThreeWays` follows.  The
answers need the order of the handler's writes (`OnRecord`, `PassedCheck`), the
catalog the order of the other handler's (`CreatedInOrder`).

### KVService

Of each reader: what was readable ever since it began still is (`Standing`); those of
these keys that lie in shards it has passed have been found (`Sweeps`); what it has
found lies in those shards, once (`Behind`), and was readable since (`Witnessed`).
The cursor is the number of the next shard, and a page ends between two shards:
hence the scan misses nothing and repeats nothing across pages.  Of each writer:
`Truthful`, of the keys that are not `unsure`.  The proof is
of `Step`, in which failed appends leave their bound out, so that it carries over
to `Server`.

### DataStructures

While `SortedListAdd` sorts, all of the list but the element on its way down is in
order, and that element is not above those behind it; the list holds every element
as often as it was added (`ListHolds`, with `held` as the count; an exchange is a
permutation, an append adds one).  `Encoding` says of a slice that is being encoded
that it is still what it was, unless an add has sorted its array, in which case its
reader is among the `disturbed`; `append` to a full array makes a new one, which
nobody has a slice of.  `Fate` says of queue and stack that what is in them was
pushed, is there once and was not popped, and the reverse.  It needs
`DifferentPushes`, without which the property cannot tell two pushes apart.

The list of a theorem has any length.  Go's `sort.Strings` is the modelled insertion
sort up to 12 strings only; beyond that the theorem is about the model.

### Server

`StoreSteps` and `StructSteps`: every step of the server is a step of `KVService` or
none, and a step of `DataStructures` or none, so their invariants are its invariants.
`Busy` says that a writer of the store is at work only while its call is served.

### Only model-checked

The liveness properties, since proofs about fairness and `ENABLED` are out of the
prover's reach: `CompactionEnds`, `RequestsReturn`, `PublishReturns`, `LeaverForgotten`,
`BuyerAnswered`, `ReadersReturn`, `CallsReturn`.  The violations of section 4 are
counterexamples of TLC.

## 6. Limits of the models

* Bytes are not modelled: a record is whole or torn.  A torn record followed by
  others is misread in the ways `ReplayMisreads` lists: its key gets a value that is
  garbage or an unknown key is hit, and parsing falls into step again at any later
  record or nowhere.  A misread expiry and an invented record are not among them.
* A power cut keeps a prefix of the log.  That a directory entry may itself be
  lost (no directory is ever synced) is left out.
* Integers are unbounded: the wrap of `time.Now().Unix() + ttlSeconds` and of the
  16-bit lengths of names is left out.
* `SaveToFile` at shutdown opens the log a second time; not modelled.
* In `KVService` a client follows the cursors it is given, from 0; a count that is
  not positive is replaced by 10 in the code and not among the counts.  The values'
  bytes, which the engine replaces and never changes, are left out.  What a prefix
  or a range selects is a set of keys.
* In `Server` the connection of a reader is left out: losing it only ends the read.
  There is one structure of each kind, the order of a set's values is left out, and
  lists are short enough for the insertion sort.  The server does not restart;
  that it forgets its structures when it does is in `FlashSale`.
* In `FlashSale` a value that is not a number does not occur.

## 7. Not modelled

Replication (`internal/api/replication.go` and the slaves of `server.go`): dead
code, since nothing ever adds a slave.  The `HTTP...` wrappers of `server.go`, which
nobody calls, and `/get`, which reads one entry.  The shutdown of either server
and the demonstration client.  Access control, CORS, metrics, the web pages and the
demonstration scripts.  `CheckTTLAndClean`: nothing calls it.

## 8. Plan

1. *Done*: all modules and runs; proofs of every invariant that a run checks, and of
   the refinement of `DurableStore`.
2. Proofs still worth having: the converse of `stray` (a key is stray only after a
   race, a miss of a compaction or a swap without it); a contract of the sorted list
   and of the queue as sequential objects, with a refinement like that of
   `StorageWALPromise`; the map of `KVService` against the engine's.
3. Expiries as integers of their width.
