# Verification of plum

TLA+ specifications of the parts of plum (a Filecoin node in Rust) where order,
concurrency, failure or restart decide correctness; TLC configurations that
check them on small instances; and proofs, checked by TLAPS, that hold for every
value of the constants. `PROJECT.json` lists every component, run, mutant,
theorem and hazard, and maps every definition to the lines it models.

Check a model with `tlc -config MCBasicTxnShared.cfg MCBasicTxn`, a proof with
`tlapm DataStoreStackProofs.tla`.

## 1. The system

plum is a workspace of some 30 small crates. Most of them are value types
(addresses, block headers, messages, IPLD) with serialisation. The crates `cli`,
`libp2p`, `network` and `peermgr` are commented out of the workspace in
`Cargo.toml` but are complete source and are modelled as such. The parts that
hold state, their operations and what is hard about them:

| Component | State | Operations | Hard behaviour | Module |
|---|---|---|---|---|
| RPC protocols handler (`libp2p/src/rpc/handler.rs`) | dial queue and slots, inbound and outbound substreams, two `DelayQueue`s, queued responses, events for the application | `inject_*` callbacks, `poll` | timers that fire while a substream moves on; slow, failing sends; requests that share an id; retries; a `poll` that returns half way | `RPCHandler` |
| libp2p behaviour and service, network service, message handler (`libp2p/src/{behaviour,service}.rs`, `libp2p/src/rpc/mod.rs`, `network/src/*.rs`) | event queues of RPC and Behaviour, two channels, wake-up of the task | `poll` of the service, `inject_event`, `handle_message` | two tasks; work left behind when a poll returns; one task panics, the other goes on | `NetworkService` |
| JSON-RPC over WebSocket (`api-client/...`) | request counter, pending requests, subscriptions, channel to `ws_task` | `prepare`, `send_request`, batches, `subscribe`, `unsubscribe`, `ws_task` | callers on many threads, replies in any order, loss of the connection, dropped streams | `WebSocketTransport` |
| RocksDB data store (`ipfs/datastore-rocksdb`) | files, column families, the corruption marker, open handles, recorded operations | put/get/delete, batch, txn, commit, discard, columns, open, close, repair | column handles used after they were looked up; crash and I/O error between steps; corruption | `RocksDatabase`, `AtomicBatch` |
| RocksDB statistics (`rocks/stats.rs`) | six atomic counters, the accumulated sum under a lock | tally, `overall`, `since_previous`, `io_stats` | counters taken one by one while others tally | `DBStats` |
| Basic batches and transactions (`ipfs/datastore/src/impls/basic.rs`) | recorded operations, a clone of the store | put/delete, `txn`, `commit`, `discard` | a commit that fails half way and is retried; a clone that is not shared | `BasicTxn` |
| Wallet and key store (`wallet`) | keys in memory, key store, default | `import`, `generate_key`, `set_default`, restart | the key store fails between two steps; memory is lost on restart | `Wallet` |
| Data store wrappers (`ipfs/datastore/src/impls`) | the store at the bottom, recorded operations, what clones share | every operation of the store traits through log, fail, transform, sync, delay and memory wrappers | which layer converts a key, who shares and who copies, a refusal half way down | `DataStoreStack` |
| RPC codec and upgrade (`libp2p/src/rpc/{codec,protocol,methods}.rs`) | the buffers of both ends of a substream | encode, decode, the inbound upgrade and its timers | frames cut or joined on their way | `RPCCodec` |
| Peer manager (`peermgr`) | peers with a limit, a channel | add, remove | re-adding at the limit | `PeerMgr` |
| Network parameters (`params`) | a mutable static and a `Once` | `init_params`, `params` | threads that initialise and read at once | `NetworkParams` |
| RLE+ bit fields (`primitives/bitfield`) | the decoder's place in its bytes | `encode`, `decode` | the edges of the block forms, the filled-up last byte, foreign bytes | `RlePlus` |
| Data store keys, addresses, piece sizes and proofs, tipsets, messages and gas, CBOR of the chain's types | none | pure functions | boundaries, round trips, orderings | `DataStoreKey`, `Address`, `Sector`, `Chain`, `ChainCbor` |

The interactions: the network service polls the libp2p service, which polls the
swarm, which polls one RPC protocols handler per connection; the message handler
and the network service exchange messages over two unbounded channels. The API
client talks to a remote node over WebSocket or HTTP. The wallet uses a key
store; the RocksDB and the in-memory stores implement the same data store
traits. Wallet, data stores and network do not call one another yet.

Parts that are not modelled are listed in section 7.

## 2. The modules

Each component has a module with its state, one action per operation and its
properties; an `MC` module with the instances; and, where something is proved, a
`Proofs` module that extends it. The handler's proofs are in two modules
(`RPCHandlerProofs` and, above it, `RPCHandlerAnswers`), those of the small components
in `ComponentsProofs`, those about values in `ValueProofs`; the statistics are treated
with their database in `RocksDatabaseProofs`, the keys with the stores that use them in
`DataStoreStackProofs`. Definitions have the names of the code where there is one. An operator whose name has a suffix (`CanDial_OffByOne`) is a
mutant: a plausible mistake in the definition that follows it, which at least
one property must detect. It is not part of the specification.

**RPCHandler.** One connection's `RPCHandler`. `dial_queue`, `dial_negotiated`,
`inbound_substreams`, `outbound_substreams`, their `_delay` queues,
`queued_outbound_items`, `events_out`, `pending_error`, `keep_alive` and
`outbound_io_error_retries` are the fields of the struct. `pc`, `todo` and
`busy` are the place in `poll()`: its early returns and the two loops over a
snapshot of the keys are separate steps, since `poll` returns from the middle of
them. A delay queue is the set of armed timers plus the subset that has elapsed
and not been polled (`InboundDeadline`, `OutboundDeadline`, external). Stream
I/O is a choice among not ready, done, failed and closed. `wire`, `given`,
`reports`, `asked`, `opened`, `seen` are history. A request is a model value
with an id (`IdOf`), as ids may collide, and a kind.

**NetworkService.** Two tasks. The first is `network_service`: it drains its
channel (`Recv`), then polls `Libp2pService`, hence the swarm and the derived
`Behaviour::poll` that drains RPC, then the other behaviours, then
`Behaviour.events`. The second is the message handler. `woken` is the
notification flag of the tokio task: an idle service is polled only if it is
set. The swarm, gossipsub and mDNS are external: an event appears and wakes the
task. Events and requests are numbered as they come up; `taken` and `issued` are
what came up. The queues between two ends are a row: `Ordered` says that numbers
grow along it and inside each queue, `Complete` that everything that came up is in the
row, which begins with what has been handled, and nothing else is.

**WebSocketTransport.** Callers, each making one call (single, batch, empty
batch, subscribe) in the steps `prepare`, register, send, await, and `ws_task`
with its reading and writing halves. The server is external: it answers in any
order, a batch in the order of its calls, and sends notifications, some with an id
that is no `u64`, pings, closes and malformed texts. `pendings` and `subscriptions` are `HashMap`s: partial
functions with `get`, `insert` and `remove`. Panics of `expect` and `unwrap` are
states.

**AtomicBatch** is what the traits `DataStoreBatch`, `DataStoreTxn` and `ToTxn`
promise: operations are recorded, and a commit applies all of them at once or,
if it fails, none; a batch keeps its record then, a plain store (`Plain`), whose record
lives as long as one call, does not. **RocksDatabase** is the implementation: the transaction is a
sequence of operations, `Database::write` takes the read lock, looks up the
column of every operation, and writes one `WriteBatch`; columns come and go
under the write lock; `open` creates families one by one, repairs a marked
database and may be cut off by a crash at any step. `Abstract` maps the recorded
sequence to its effect per key. RocksDB's own `write` is atomic (external).

**BasicTxn.** The batches and transactions of `ipfs/datastore`, which write
operation by operation, the lock of `SyncDataStore` being taken for each.
`SharedClone` distinguishes stores that clone by reference (`SyncDataStore`,
`MemoryDataStore`) from `MapDataStore`, which copies. The iteration order of the
`HashMap` of operations is a choice.

**DataStoreStack.** Clients with handles on stacks of wrappers. A wrapper is a
table: the operations it has and, for each, whether it converts the key and with
which string it asks `fail_fn`; the stack applies them from the outside in. What a
`Transform` makes of a key is the constant `KeyTransform`, and `Place` is where the
keys of a stack belong: where all its transforms take them. Every
wrapper forwards an operation to the same one below it, so this table is all that
tells the hundreds of forwarding functions apart. `clone`, `batch` and `txn` make
handles of a new kind: an `Arc` in the stack is one more reference to what is
below, everything else is copied, the pending record included. At the bottom are a
`MapDataStore`, a `DummyDataStore`, or a store that is both a `DataStore` and a
`DataStoreTxn`, as the bounds of the traits ask for; no type of the repository is
both, so that one is what `store/mod.rs` describes.

**DataStoreKey.** The key algebra over sequences of the characters it tells apart
(`.`, `/`, `:` and a letter): `clean`, `child`, `parent`, `path`, `reverse`,
`instance`, ancestry, order, `PrefixTransform`, the filters and orders of queries.
`str::split`, `join` and the crate `path_clean` are recursive functions along a
sequence, so that what they compute can be proved. The four helpers on sequences are
defined here and not taken from `SequencesExt`, because everything a module brings in
weighs on each step of its proofs.

**RPCCodec.** One direction of a substream: the buffer of the writing `Framed`, the
transport, the buffer of the reading one. A frame is a sequence of pieces, the
transport keeps their order and cuts and joins them. `encode_to` clears its buffer
before it writes and `decode` reads the whole buffer without consuming it, as the
code does. The tables of protocols, codes and reasons that both sides rely on are
operators of the same module.

**RlePlus.** `encode` as a function from sets to bits, `decode` block by block as
a state machine, with its errors; the data is what `encode` made or foreign bytes.
Numbers have `U64_BITS` bits: a long block has up to `MaxBytes` bytes, `unpack` loses
what it shifts out of a number, and a position past the largest number wraps or, where
overflow is checked, panics.

**Address**, **Sector**, **ChainCbor**, **Chain.** Functions. A hash is an
uninterpreted injective term. A text of an address is what `from_str` tells apart:
prefix, protocol, and digits (with a sign or zeros before them), base32 in letters of
either case, or something else, of a length; characters of several bytes make a slice
panic. A sum of `u64` that is too large wraps or panics. `ChainCbor` has for
every type the length its encoder announces and the order it writes the fields in, and
the length its decoder asserts and the fields it reads, each from its own function of
the code; two types derive both. It interprets them over a sequence of CBOR items; big
integers, signatures, addresses, registered proofs, peer ids and bit fields have their
own conversions. A bit field is read back within the limits that `RlePlus` shows: no more
members than `MaxSize`, and not the largest number where overflow is checked. `Chain` is `Tipset::new`, the checks of a
message before inclusion and the gas prices.

**PeerMgr**, **NetworkParams.** A channel and a bounded map; a `Once` around a
mutable static, the closure being a step of its own, panicking for the main
network.

**DBStats.** Readers and writers tally counter by counter, with no lock;
queries swap or load counter by counter, under the lock of `overall`. The
counters are `Relaxed` atomics; the model interleaves them (sequential
consistency), which is sound for these properties because each is a sum over
single-counter atomic operations, and the queries are ordered by the lock.
Counters are modulo `Modulus`, as `u64` is modulo 2^64; an overflowing
subtraction panics in a debug build (`tally_panics`) and wraps in a release
build: both are actions.

**Wallet.** Keys in memory, the key store that outlives the process, and the
default. With `MayFail` every call of the key store may return an error, and the
operation stops there, as `?` does. Key derivation is external: an address is a
model value.

**Inquiry**, **KeyQuestions**, **ChainValues**, **Statistics**, **Components.** The pieces
that do not interact, put together. `Inquiry` is a behaviour (`Inquiring`) that asks one
question on a topic, with arguments from `Questions(topic)`. `KeyQuestions` says what the
answers on keys have in common (`KeysFormTree`), `ChainValues` those on the other values
(`ValuesComeBack`, `TipsetsAgree`, `MessagesPaid`). `Statistics` is a behaviour (`Counting`)
about the statistics alone and states `StatsExact`. `Components` runs them beside the
wallet, the codec, the peer manager and the parameters, one of them per behaviour
(`SideBySide`). What may be asked is named assumptions: `KeyQuestionsAssumption` and
`QuestionsAssumption` give the types of the arguments (any string, any key, any blocks of
which no two share a CID, any id up to `U64_MAX`, any text, size, message),
`PricesAssumption` that no list of prices pays for storing a message. `MCComponents` adds
the bit fields and the questions on CBOR.

## 3. The runs

| Run | Instance | Properties | Distinct states |
|---|---|---|---|
| `MCRPCHandlerOutbound` | three requests (status, block sync, goodbye), the first two under id 0, dial limit 8, 3 retries, 2 chunks | `NoPanic` `DialAccounting` `NothingAfterFinal` `DrivenToCompletion` `FailureShadowed` `LetGoWhenQuiet` | 50 222 |
| `MCRPCHandlerInbound` | two inbound requests, up to 3 chunks or terminations given to each | `NoPanic` `HandedOverWhileAnswerable` `AnswersInOrder` | 817 096 |
| `MCRPCHandlerLive` | one block sync out, one request and one goodbye in, chunks and errors, dial limit 2, fairness | `FirstErrorIsLast` `Released` `Served` | 69 134 |
| `MCRPCHandlerCollision` | as Outbound; a violation | `AllDrivenToCompletion` | - |
| `MCNetworkServicePipeline` | one peer, three network events of all eight kinds, gossip with one or two topics, fairness | `NoLostWork` `InOrder` `WorkMovesOn` | 308 383 |
| `MCWebSocketTransportCalls` | an empty batch, a batch of two, a subscription with 2 notifications, one ping, close, malformed text or misnumbered notification, connection may end | `RepliesGoHome` `StreamComplete` `OnlyDroppedStreamEnds` | 851 010 |
| `MCWebSocketTransportLive` | a batch of two and a single call, fairness | `CallsReturn` | 9 610 |
| `MCRocksDatabaseAtomic` | two batches, one possibly the transaction of the other, 2 operations each, 2 keys | `ImplementsAtomicBatch` `CommitKeepsRecord` | 47 645 |
| `MCRocksDatabaseColumns` | a plain store and a batch, keys in two columns, three configurations | `ColumnsInStep` `ImplementsAtomicBatch` | 22 411 |
| `MCBasicTxnShared` | a batch, a transaction, direct writes, failing store | `KeepsWhatItWrote` `RetryCompletes` | 155 657 |
| `MCDataStoreStack` | five stacks of up to four wrappers, two of them on one database, two clients, the root key and one more, three sets of refusals | `ViewsKeepApart` `RecordIsAsked` | 18 288 |
| `MCComponents` | the components that do not interact, one per behaviour: wallet (four addresses, failing key store, restarts), statistics (one read or write, two queriers, two `io_stats` calls, one cache hit), codec (three frames in three pieces), bit fields, peer manager (three peers, limit two), parameters (two threads), and probes of every pure function | 12, listed below | 1 031 931 |

The properties of `MCComponents`, by subject: *wallet* `PromisedStored`
`DefaultKept`; *statistics* `StatsExact`; *keys* `KeysFormTree`; *addresses and
sectors* `ValuesComeBack`; *CBOR* `CborComesBack`; *chain* `TipsetsAgree`
`MessagesPaid`; *codec* `CodecFaithful`; *bit fields* `BitFieldsComeBack`; *peers*
`ManagedPeersFollow`; *parameters* `AllReadTheSameParams`. A behaviour picks its subject in its first state; the
variables of the other components keep a value nobody looks at, so the run is the
sum of the small state spaces and not their product.

Several properties are conjunctions of statements about one subject, each defined
and explained by itself in its module: `NoPanic` of `TypeOK`, `InboundTimersMatch`,
`OutboundKeysArmed` and `NoVacantEntry`; `AnswersInOrder` of `WireInOrder` and
`ChunksBeforeTermination`; `Released` and `Served` of the liveness of both
directions; `InOrder` of the orders of events and of requests; `RepliesGoHome` of
`ReplyFindsCaller` and `AnsweredByOwn`; `ColumnsInStep` of `HandlesStayValid` and
`NamedColumnsExist`; `DefaultKept` of `DefaultBacked` and `DefaultIsChosen`. The
type invariant of a module is the first conjunct of one of them.

What the runs show, component by component:

- *RPC handler.* However negotiation, retries, responses, timeouts and closes
  interleave, also with two requests under one id, `remove` and `reset` only
  ever name delay keys that are in the queue (they panic otherwise), the
  `unreachable!()` arms of `poll` are unreachable, at most `max_dial_negotiated`
  negotiations run, nothing but a leftover timeout is reported after a final
  answer, and a substream is driven to completion unless another request took
  its id. A peer gets responses in order, each once, all chunks before the end
  of the stream; a request is never handed over after it was answered by its own
  timeout. An error that begins an answer is the end of it, queued or not. A
  request that expects a response is given up without a report only in the step where
  its upgrade fails while another failure waits for `poll`, which is still reported. The shutdown of the connection is armed only when
  nothing waits to be dialled or negotiated. Silent peers and applications do not
  keep substreams for ever; only a peer that stops reading, for which no timeout is
  left, can.
- *Network service.* A poll that returns leaves nothing behind unless the task
  has been woken again; through three queues and a channel RPC events and gossip
  messages keep their order; requests leave in the order they were issued,
  without the help of later events; subscribers are greeted.
- *WebSocket.* No reply misses its caller or reaches another, whatever the
  interleaving; a malformed text or an answer without an id can only reach a
  caller whose call has no id; a registered stream has no gap; `ws_task` panics only
  on a notification whose stream was dropped or whose id is no `u64`; calls return as long as the
  connection is up.
- *Data stores.* RocksDB batches and transactions implement `AtomicBatch`
  through failures, crashes, repair, reopening and changes of columns, and a commit
  that fails can be retried, since its record is intact until all of it is written. The basic
  ones do not (a failed commit is half done), but a failed commit keeps its whole
  record, and an undisturbed retry ends with exactly the recorded operations.
  Through any of the stacks of wrappers each stack is a store of its own, also when
  the text of its prefix begins another's; a batch records what was asked for, at
  its place, and nothing that was refused.
- *Keys.* Every operation makes a clean key, ancestry by characters is the tree of
  namespaces, a subtree is a range of the order, and a prefix can be taken off
  again from every key but the root.
- *Codec.* A reader that gets pieces, or frames run together, fails or gives a frame
  that was sent, the first one first, never something else, and an inbound upgrade
  accepts a whole request or none. That responses behind the first are read, each once,
  is not so (section 5).
- *Bit fields.* Every field made of two runs that begin and end at the edges of the
  block forms comes back, as do fields whose members take long blocks of every size up
  to the largest number, behind which the position may overflow; on all vectors of one byte, many of
  two, and some with an overlong number or with positions that wrap the decoder stays
  inside its data.
- *Addresses, sectors, CBOR, tipsets, messages.* Round trips, also with something
  behind the value; cut encodings are errors; a state with a bit field beyond the limits
  of the decoder is refused, never misread; a text is accepted only for the address
  it belongs to, a sign, zeros and capitals aside; every valid piece size but the largest
  has a padded size; a tipset does not depend on the order of its blocks.
- *Parameters, peers.* All threads read the same parameters; the manager knows the
  peers it was last told of, up to its limit.
- *Statistics.* No tally is lost or counted twice by concurrent queries; no answer has
  something that did not happen, and one of the kind `SincePrevious` leaves out nothing
  since the query before; the cache hits do not go below zero as long as calls
  of `io_stats` do not overlap. Calls that overlap do make them, by wrapping or with a
  panic.
- *Wallet.* No address that was returned is lost; the default is a known key and
  only changes as the caller chose, through every failure and restart.

**Bounds.** Requests, callers, addresses and keys are two to four: every hazard
in `PROJECT.json` needs at most two actors and a third party. Three network
events suffice for two requests in the channel and one event behind them. Two
keys distinguish a half-applied batch, two notifications a lost stream entry, three
responses a queue of two behind a slow send. The real retry count (3) and dial
limit (8) are used where states allow; the limit is reached because failed
upgrades do not give their slot back. All bounds are constants named `Max...`
and are conjuncts of guards. Clients of `MCDataStoreStack` are symmetric; no other
symmetry is used. Arguments of pure functions are the boundaries their code has:
ids at the edges of varint bytes, sizes beside the powers of two and their
multiples of 127, runs of 1, 15 and 16 members, keys of up to four of the
characters that matter, CBOR values that differ from a first one in one field.
TLC's integers have 32 bits, so `u64` is scaled to 29 bits in `MCComponents`: `U64_MAX` is
2^29 - 1, ids have up to five varint bytes, long blocks up to five bytes, and the sum of
the largest valid piece size overflows as that of 127 * 2^57 does. The proofs are for any
width. Bit fields are read up to 30 members by themselves, up to 2 inside a state, so that
each limit is passed. Two further
price lists are supplied to `Chain`, as `PRICES` has only the first.

**Deadlock.** It is checked for `RPCHandler` (`poll` can always be called),
`BasicTxn` and `DataStoreStack`. The other models stop legitimately: bounded inputs
run out, tasks end, a probe asks once.

**Fairness.** `RPCHandler`: weak fairness of the poll step (the connection task
is polled while it lives), strong fairness of the deadlines (time passes; a
timer can be rearmed but not for ever). No fairness of the application or of the peer:
`Released` says without it that a substream is let go or is left with a send or close
that only the peer can end, and that it is let go for good if the peer reads (`PeerReads`,
a premise of that half alone). `protocol.rs:136` sets a timeout for reading and none for
writing, so the code cannot promise more. `Served` promises a dial while a slot is left; failed upgrades keep
theirs (section 5).
`NetworkService`: weak fairness of the steps of each task; a step of an idle
service is enabled only when it was woken, so nothing is scheduled that the
executor would not schedule. `WebSocketTransport`: weak fairness of the callers,
of both halves of `ws_task`, and of the server's answers, which is the premise of
`CallsReturn`; none of `End`, `Notify` or `Control`.

**Mutants.** Every property of every passing run is violated by at least one
mutant under the same configuration, and a conjunction by one for nearly every
conjunct; `PROJECT.json` names them.

## 4. The proofs

All proofs are for every value of the constants that satisfies the named
assumption: any finite set of requests and any ids, any keys, clients, callers,
addresses, columns, stacks. Each has the same shape: an inductive invariant, a lemma
for `Init`, a lemma for `[Next]_vars` with one step per action, and a temporal step.
Every safety property of every run is proved, except two of `MCComponents` that are
listed at the end.

- **RPCHandlerProofs** (`HandlerAssumption`): `NoPanicCorrect` (from
  `TypeCorrect`, `InboundTimersCorrect`, `OutboundKeysCorrect`, `NoVacantCorrect`),
  `DialCorrect`, `HandOverCorrect`, `LetGoCorrect`. `IInv` conjoins them with `Quiet` (the loops that
  drive substreams run when no expired inbound timer is left), `Fresh` (ids not
  given out yet have no state) and `Undelivered` (events wait only outside the
  loops, for requests not handed over yet). The parts depend
  on one another: a timer can only be removed safely because the loop visits
  present entries, and the hand-over order rests on the timers. Frame lemmas
  say which actions leave which group of variables alone. `LetGoCorrect` rests on
  `DialAccounting`: the callback that sets the timer looks at the counter, and only
  because the counter bounds the negotiations in flight does one counted mean none left.
  `FinalIsFinal`, `SubstreamsAreDriven` and `FailuresAccounted` follow a request from
  `send_request` to its last report. `RequestInv` says that before its substream is
  open it waits in one place at most and nothing is reported of it (`OnePlace`,
  `Untold`), that timers belong to opened requests (`TimersOpened`), and that while
  the timer is armed the reports are chunks and at most one final response, which has
  come exactly if the substream is `Closing` (`Told`). This holds also for requests that
  share an id and overwrite one another. `FailureShadowed` is then a statement about
  steps: only `add_error` with another failure pending gives a request up, and it leaves
  that failure where it is.
- **RPCHandlerAnswers**: `ErrorsComeAlone` and `AnswersKeepOrder`, about what a peer is
  sent. `AnswersInv` describes one inbound substream by its state: what was sent, the
  response that is being sent and the queue are together what the application gave, in
  order, and an error at the front is followed by nothing. The lemmas about sequences
  (prefixes, what `Append`, `Tail` and concatenation do to them) are in the same module.
- **NetworkServiceProofs**: `NoLostWorkCorrect` and `InOrderCorrect`. `WorkInv` adds what
  `poll` has established so far: without a new wake-up the channel is empty once its
  loop is over, and the network once the last look at it was empty. For the order,
  `NumberInv` says that every number in use has been given out, so what comes up next
  is the largest; lemmas about rows say that taking the first of one queue and
  appending it to the one before keeps a row ordered and complete, and every action
  is one such move, or appends at the end, or ends the task whose row it is, after
  which nothing is claimed.
- **RocksDatabaseProofs**.
  - *RocksDatabase* (`RocksAssumption`): `ColumnsInStepCorrect` (from
    `TypeCorrect`, `HandlesCorrect`, `NamedColumnsCorrect`), and `AtomicBatchCorrect`,
    the refinement. `Inv` adds
    that a plain store between two calls has no transaction. The refinement
    shows that appending an operation changes its effect at one key and that
    `write_opt` is the abstract commit; everything else maps to a stutter, a
    failure or a discard. `CommitsKeepRecords` is about the steps while a batch is inside
    `write()`: none but its own `write_opt` touches its record.
  - *DBStats* (`CountersAssumption`: the counters have some width, a write some number of
    operations): `StatsAreExact`, of `Counting`. No tally is lost, also after counters have
    wrapped around (`StatsKeepCount`); below 2^64 no answer has something that did not happen, and
    `since_previous` leaves out nothing since the query before (`AnswersSound`); and cache
    hits do not go below zero while calls do not overlap (`NoUnderflowApart`). `StatInv` adds that
    one query swaps at a time and none loads meanwhile (`OneSwaps`), that the parts of
    a counter add up to what was tallied, exactly as long as 2^64 is not reached
    (`AllCounted`), what a query has loaded so far (`Loaded`), and that as long as calls
    have not overlapped no counter of hits is above the hits there were (`HitsApart`).
- **DataStoreStackProofs**, the stacks (`StackAssumption`): `ViewsKeptApart` and
  `RecordsAreAsked`, for stacks with any number of wrappers in any order. The assumption is what the trait bounds enforce, and that
  stacks over one database have namespaces that do not overlap, which is the caller's
  part. `StackInv` adds that clients of one cell hold the same stack (`HandlesFit`),
  that a cell without handles is as new (`UnusedAreEmpty`), and that records and
  contents are at the places of their stack what the clients asked for and nothing
  elsewhere (`CellsRight`, `DatabaseRight`). Its core is that every operation
  that reaches the bottom was converted by all transforms of its stack, whatever else
  is between them.
- **DataStoreStackProofs**, the keys (`KeyQuestionsAssumption`): `KeysDoFormTree`, for all
  strings and keys of any length. The argument turns characters into names, the segments
  that are neither empty nor dots:
  - `K(a)` is the string of a sequence `a` of names. `Split`, `Join` and `Resolve` are the
    functions their equations describe (`SplitIs`, `JoinIs`, `ResolveIs`); by induction
    along a sequence, splitting a joined path gives the names back (`PathSplits`) and
    cleaning them changes nothing (`NamesResolve`). So every string is cleaned to some
    `K(a)` (`NewMakes`), `list(K(a)) = a` (`ListIs`), and no two sequences of names have
    the same string.
  - Each operation is then one on names: `child` concatenates (`ChildIs`), `parent` drops
    the last (`ParentIs`), `reverse` reverses. `is_ancestor_of`, which compares
    characters, is "begins with": a prefix that is followed by a slash ends where a name
    ends (`CutAtSlash`, `AncestorBegins`, `BeginsAncestor`).
  - A lexicographic order over a total order is total, puts a sequence before what it
    begins, and has nothing but such sequences in between (`LexTotal`, `LexAsymmetric`,
    `LexExtended`, `LexBetween`). It is used twice, from bytes to strings and from strings
    to keys.
- **WebSocketTransportProofs** (`TransportAssumption`): `RepliesGoHomeCorrect`, for
  any finite set of callers. That a reply finds its caller depends on every step
  the request has taken, so the invariant follows it: `IdInv` (ids are below the
  counter and no two requests share one), `PlaceInv` (a request is in one place at
  most: the channel, the server or the texts to read, under its own ids) and
  `PendInv` (from its registration until it is answered a call with an id has its
  sender under its first id, and while its reply is still to be read it has no
  answer); `CountInv` and `TaskInv` type what is left. `Closing` says that a request
  whose reply has been read does not come under way again, and `OwnIds` that no two
  calls have the same ids, so the outputs looked up are those of the call found.
  `StreamsComplete` and `OnlyDroppedEnds` go on to the notifications: `GrantInv` (no
  subscription id is granted to two callers, wherever the grant is on its way),
  `NoteInv` (the notifications of a subscription that are sent and not read are all in
  the connection, once and in order) and `StreamInv` (`subscriptions` holds exactly
  the callers with a stream, each under its own id).
- **ComponentsProofs** (`WalletAssumption`, `SizesAssumption`, `SidesAssumption`). Each
  component is treated by itself, and then in the composition: `OneMoves` says that a
  step of `SideBySide` is one of its subject and leaves the rest alone, so the invariant
  of a component holds whenever it is the subject.
  - *BasicTxn* (`BasicAssumption`): `TypeCorrect`, `KeepsCorrect`, `RetryCorrect`. `Inv`
    adds that a running commit has written all recorded keys but those in `todo`, if
    nobody interfered, and only recorded ones.
  - *RPCCodec* (a frame has at least one piece): `CodecsAreFaithful` (from
    `FramesAreWhole`). `CodecInv` adds
    that what is in the two buffers and on its way begins with all pieces of the first
    frame, in order, and is nothing else if it is a request (`OnTheWay`), so the reader's
    buffer, which is never consumed, is a frame only if it is the first.
    `SidesUnderstand` goes through the tables of protocols, codes and reasons.
  - *Wallet*: `PromisesKept` and `DefaultsKept`.
    `WalletInv` adds that a key in memory is in the key store or was supplied by the
    caller.
  - *NetworkParams*: `ReadersAgree`, for any number of threads. The invariant adds that one
    thread at most is in the closure, only while the `Once` is running, and that nobody
    is past `call_once` before it is complete.
  - *PeerMgr* (the limit is a natural number): `ManagersFollow`. The invariant adds that
    the set of peers is finite.
  - `ComponentsAsk` (`SideBySide => Inquiring`) and `ComponentsCount`
    (`SideBySide => Counting`) say that the composition implements `Inquiry` and
    `Statistics`, so that `KeysDoFormTree`, `StatsAreExact` and the theorems of
    `ValueProofs` hold in it.
- **ValueProofs** (`QuestionsAssumption`, `PricesAssumption`, `WidthAssumption`). What the run checks for
  bounded arguments is proved for all. There is no state but the question, so the work
  is in what the operations compute.
  - `MessagesArePaid`: the price list chosen for an epoch is the one of the greatest
    epoch not after it (`PricesOf`), so storing a message never costs less than nothing
    and the checks of `validate_for_block_inclusion` bound what is promised.
  - `TipsetsDoAgree`: `Tipset::new` sorts stably. A block's place is one more than the
    number of blocks that precede it; that every place is taken once follows from
    counting (`RankPlaces`). Two orders of the same blocks are sorted the same way
    because a block comes after exactly the lower ones, and only equal blocks share
    ticket and CID (`SortedInOrders`).
  - `ValuesDoComeBack`: a varint is read back as it was written and no further
    (`VarintComesBack`), a number of one bit stays one when halved, doubled, and
    multiplied by 128 (`PowersHalve` and the lemmas after it), so padding and unpadding
    undo each other as long as the sum is a `u64` (`PaddingsAgree`); a text that is accepted
    is digits that are the number, or base32 of the payload and its checksum
    (`AcceptedIds`, `AcceptedSums`), so it determines the address.

  The provers cannot apply the library's induction theorems, which take an operator as
  their parameter. Induction is therefore over sets, from the well-ordering of the numbers
  (`Induction`, `StrongInduction`), and that a recursive definition has the function it
  describes is a lemma about recursion along any measure (`Recursion`), instantiated for
  each function (`CountOnesIs`, `DecimalsIs`, `VarintEncodeIs`, `VarintDecodeIs`). The keys use
  the same two lemmas, and from them induction and recursion along a sequence from its end
  (`SequenceInduction`, `Fold`). What the
  lemmas need of finite sets and well-ordering is the definition `Library`, which they
  assume and which `LibraryFacts` proves before the theorems use it; the lemmas about keys
  assume `LeastExists`, which `NumbersWellOrdered` proves.

Only model-checked:

- `Released`, `Served`, `WorkMovesOn`, `CallsReturn`: liveness needs fairness and
  `ENABLED`, which are out of the prover's reach.
- `BitFieldsComeBack`: its operations are folds over bits, whose definition takes an
  operator as its parameter, which the prover does not expand.
- `CborComesBack`: it interprets nested lists of fields with `RECURSIVE` operators, which
  a module with proofs cannot use.

## 5. Where the code and its comments disagree

`MCRPCHandlerCollision` is kept as a run: with two requests under one id, as
`network/src/message_handler.rs` issues them, the first is overwritten and never
completed. The modules define, in their last section, further statements taken
from comments and assertions that the code does not keep. Each is refuted when
it is put into the named configuration instead of its properties; they are not
kept as runs, and no other property relies on them.

| Statement | Configuration | What the code does |
|---|---|---|
| `DialNegotiatedIsCurrent` | `MCRPCHandlerOutbound` | `inject_dial_upgrade_error` never gives back the dial slot ("Current number of concurrent outbound substreams being opened.", `handler.rs:58`) |
| `TimeoutOnlyWhileAwaiting` | `MCRPCHandlerOutbound` | a request that got its only response can still time out while it closes (`handler.rs:28`) |
| `FailureReported` | `MCRPCHandlerOutbound` | a second upgrade failure before the next `poll` is only logged (`handler.rs:91`) |
| `ErrorTerminates` | `MCRPCHandlerLive` | an error that had to be queued does not end the stream (`methods.rs:153`) |
| `InactiveShutdown` | `MCRPCHandlerLive` | a connection whose requests are over can keep `KeepAlive::Yes` (`handler.rs:88`) |
| `DialedIsGreeted` | `MCNetworkServicePipeline` | `PeerDialed` is dropped in `Behaviour` (`rpc/mod.rs:104`) |
| `GossipDispatched` | `MCNetworkServicePipeline` | gossip on the blocks or messages topic panics the message handler (`message_handler.rs:142`) |
| `TextSent` | `MCWebSocketTransportCalls` | a call after `ws_task` has ended panics (`ws.rs:112`) |
| `ResultSent` | `MCWebSocketTransportCalls` | a notification for a dropped stream, or with an id that is no `u64` (`ws.rs:178`), panics `ws_task` (`ws.rs:182`) |
| `SenderKept` | the same with two empty batches | both wait under id 0, the first panics (`ws.rs:114`) |
| `ColumnCorrect` | `MCRocksDatabaseColumns` | a write to a column that is not there panics (`rocks/mod.rs:50`) |
| `ReadIsCurrent` | `MCRocksDatabaseColumns` | a closed database reads every key as absent (`store/mod.rs:50`) |
| `StaysOpenable` | the same with three columns | an interrupted first open leaves files that the same configuration never opens (`rocks/mod.rs:153`) |
| `DiscardThrowsAway` | `MCBasicTxnShared` | a discard after a half-way failed commit leaves its writes (`store/mod.rs:113`) |
| `CommitReachesBase` | the same with `SharedClone = FALSE` | a transaction over a cloned `MapDataStore` commits into its copy (`store/mod.rs:91`) |
| `OverallSinceStart`, `OnlySincePrevious` | `MCComponents` (as `Stat!...`) | the two kinds of statistics answer with something else than they say (`stats.rs:11`, `:13`) |
| `CacheReadsHappened` | `MCComponents` (as `Stat!...`) | repeated queries count the same hits again (`stats.rs:24`) |
| `WritesPerTransaction` | `MCComponents` (as `Stat!...`) | `avg_batch_size` is the inverse of what it says (`stats.rs:56`) |
| `SignsStored`, `DefaultForStored` | `MCComponents` | after a restart stored keys cannot sign or become the default (`wallet.rs:92`, `:261`) |

Smaller ones, met while modelling, that are outcomes of the models and have no
statement of their own:

- `FailDataStore::get` asks `fail_fn` with the string of `put`, although
  `fail.rs:28` says it "will be called with different strings depending on the
  datastore function" (`Asking` in `DataStoreStack`).
- `ToBatch` is "Create a new batching data store.", but the batch of a wrapper
  starts with a copy of the pending record of the store below, or shares it
  through a `SyncDataStore` (`clone_as`).
- `PrefixTransform` cannot invert the place of the root key behind a prefix and
  panics, although `store/mod.rs:25` says that no data store should
  (`PrefixInvertible` excludes the root).
- `query/mod.rs` says a prefix selects strict children; `FilterKeyPrefix` compares
  characters, so only a prefix that ends with `/` does (`PrefixSelects`).
- The decoders of `codec.rs` neither consume their buffer nor return `None`, so a
  reader of responses is given the same frame again, and those behind it only as a
  failure (`poll` in `RPCCodec`; the end of a batch, `methods.rs:77`, is never seen as
  `None`). `CodecFaithful` is what remains true.
- "Maximum object size to encode or decode" (`rle/src/config.rs:21`) bounds decoding
  only: `encode` has no limit, so a bit field can be written that cannot be read back
  (`RoundTrip` and `Readable` are about those within the limit), and `decode` looks
  at it when its output is complete (`finish`).
- A bit field with the largest `u64` panics the decoder where overflow is checked, since
  its position is one past the last member (`Passed`).
- `UnpaddedPieceSize::validate` accepts 127 * 2^57, whose `padded` overflows
  (`PaddingAgrees` excludes it).
- `io_stats` subtracts a hit count taken before the lock from one that another call may
  have added meanwhile (`rocks/mod.rs:415`): it wraps or panics (`tally_panics`).
- `Tipset::new` accepts a block with fewer parents than the first (`Fault`), and the
  CBOR decoder of a tipset does not validate at all.
- `sector.rs` says a proof is one of 4 sizes where there are 5.

## 6. Plan

Open, in the order they would be taken:

1. *Composition.* The message handler gives every request id 0 and the RPC handler
   keys substreams by id. The collision is a run of `RPCHandler` alone; a module
   that composes it with `NetworkService` would say what the application is told
   about each request it issues. Their product is beyond TLC at the present
   bounds, so it needs an abstract RPC handler first.
2. *Proofs*: the first half of `StaysInside` of `RlePlus`.
3. *RocksDB*: secondary instances, iterators and restore.

## 7. What is left out

Not modelled, component by component (`PROJECT.json` has the same list):

- *JSON-RPC over HTTP*: each call awaits the answer of its own HTTP request; the
  one thing shared is the id counter, as in `WebSocketTransport`.
- *JSON-RPC message types and API interface*: derived serialisation, and one
  method per remote procedure that forwards its arguments.
- *libp2p and RocksDB configuration*: options computed once and handed on.
- *RocksDB iterators, secondary instances, restore, the parser of the statistics
  text*: reads of RocksDB, or files handled by it.
- *Block store, chain store*: traits without an implementation. *Actors*: state
  types only, whose CBOR is in `ChainCbor`.
- *Signing, hashing, big numbers, IPLD values, JSON forms*: conversions of single
  values without control; hashes are injective terms, CBOR of big integers,
  signatures and addresses is in `ChainCbor`.
- *Command line*: option parsing and one request per command.

Abstracted in the modules: payloads, formats and logging; the internals of libp2p,
RocksDB, the WebSocket library and the server, which appear as choices; elapsed
time, which appears as a timer that may fire; memory use. `queued_outbound_items`
of a failed substream is never removed by the code; its id is never reused, so
nothing depends on it. A request for a peer that has disconnected is dropped by
the swarm; the model records it as sent and not delivered, and the code promises
no more. Relaxed atomics are interleaved (see DBStats). An error of a `DelayQueue` itself
(`handler.rs:501`, `:522`: the timer wheel is shut down or full) is not modelled: `poll`
then returns it, which ends the connection. The server of `WebSocketTransport`
answers a batch in the order of its calls; for another order `ws.rs:203` looks up the
wrong id. `Chain` gives `validate_for_block_inclusion` the price of storing the message
as its `min_gas`, which the repository leaves to a caller it does not have yet, and
nothing executes messages, so what execution costs is open.
