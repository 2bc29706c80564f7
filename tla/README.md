# Hyperledger Avalon in TLA+

Avalon lets clients off-load computation to trusted workers. A client encrypts a
*work order* and submits it to a *listener*; the listener stores it in a shared
key-value store; an *enclave manager* takes it from there, has it executed in an
SGX enclave or a Graphene process and stores the signed response; the client
polls the listener for it and checks the signature. With a *worker pool*, a key
management enclave (KME) hands the keys of each order to one of several work
order processing enclaves (WPEs). In the *proxy model* the client puts the order
on a blockchain, and a connector carries it to the listener and the result back.

This project models these paths at the granularity at which the processes really
interleave, checks them with TLC, and proves the safety properties that hold for
every number of processes, orders and faults with TLAPS. Paths below are relative
to `src/`.

## 1. Inventory

| Component | State | Operations | Hard because |
|---|---|---|---|
| Shared KV store (`shared_kv_storage/`, `common/python/database/`) | LMDB tables of plain values and of comma-separated lists | get, set, remove, lookup, csv append / prepend / pop / match-pop / search / search-delete, one HTTP request each | one operation is atomic, nothing larger; lists are edited as bytes; requests time out and may still run |
| Asynchronous work order handler (`listener/avalon_listener/tcs_work_order_handler.py`) | `workorder_list`, `workorder_count` in memory | boot flow, `WorkOrderSubmit` with purge, `WorkOrderGetResult` | each handler is a sequence of store operations; memory is lost at a crash; several listeners share the store |
| Synchronous handler (`tcs_work_order_handler_sync.py`) | the same, and a ZeroMQ socket | submit, wait for the manager, return the result | request and reply without a timeout |
| Receipt, worker registry and encryption key handlers | `wo-receipts`, `workers`, `registries` | create, update, retrieve, paged lookups | a lookup reads keys first and values one at a time; a receipt changes what the manager does |
| Listener dispatch and schema checks (`tcs_listener.py`, `base_jrpc_listener.py`, `schema_validation/`) | - | refuse or dispatch | the schema and the SDK disagree in places |
| Enclave manager, work orders (`enclave_manager/.../work_order_processor_manager.py`, `work_order_kv_delegate.py`) | the order in hand | clean-up at boot; pop, read, mark, execute, update receipt, persist, append, clear | crash at any store operation |
| Singleton, KME, WPE managers (`singleton/`, `kme/`, `wpe/`, `wpe_common/`) | worker entry, pool entry, sealed keys, KME registration maps | boot flows, registration, key pre-processing | several processors on one queue; a KME restart under running WPEs |
| Graphene managers and workers (`graphene/`, `graphene_wpe/`, `tc/graphene/python_worker/`) | keys of the process, ZeroMQ request in hand | sign-up, nonce, verification, execution | either end restarts with a request under way; keys are made at each start |
| SGX enclave, cryptography, attestation (`tc/sgx/`, `common/crypto_utils/`, `attestation/`) | sealed data | encrypt, hash, sign, verify, quote | a result must belong to what the client hashed |
| Blockchain connector (`blockchain_connector/`) | maps of what it wrote to the chain | synchronization rounds, event handler | two coroutines, failing calls, redelivered events |
| Contracts and chaincode (`sdk/.../contracts`, `.../chaincode`) | worker and work order registries | register, update, set status, submit, complete | endorsement before commit, replaced transactions |
| Client SDK and generic clients (`sdk/avalon_sdk/`, `examples/apps/generic_client/`) | the order being built | build, hash, submit, poll, verify | call order matters; polling and event listening race the result |
| Sample applications | - | - | demonstrations without shared state |

Interaction: in asynchronous mode listeners and managers never talk to each
other. A submission is three writes by the listener (timestamp, request, queue
entry); processing is six operations by the manager (pop, read, mark processing,
store response, append to processed, clear processing). Boot flows of either
side read the same tables and remove what looks stale. In synchronous mode a
ZeroMQ request carries the id. WPEs call the KME over HTTP, Graphene managers
their worker over ZeroMQ, the connector the listener and the chain.

What must be right:

- *listener and store*: `max_work_order_count` bounds the store; capacity is
  neither leaked nor handed out twice; refusals are justified; an id is accepted
  once; pages of a lookup lose and repeat nothing.
- *manager and pool*: an accepted order is lost only with the process that held
  it, and never executed twice; a response belongs to the stored request;
  clean-up leaves nothing unreachable; published keys are the ones in use.
- *protocol*: an accepted result is the workload's output on exactly the data
  the client hashed; every order is answered; good orders are served.
- *proxy model*: what the connector has recorded is on the chain; an order is
  answered once, with an error only for a cause, and its client gets that answer.

`PROJECT.json` lists 40 hazards of the code, each at its line, with the
properties that cover it.

## 2. Modules

| Module | Models | Builds on |
|---|---|---|
| `WorkOrderStore` | the tables of the work order path and their operations | - |
| `WorkOrderListener` | a listener: boot flow, submit with purge, result, receipt creation, replies, restart | the store |
| `EnclaveManager` | a manager's clean-up and processing loop, its ways to end, its restart | the store |
| `SingletonSystem` | Singleton boot flow, the whole asynchronous deployment, properties, inductive invariants | listener, manager |
| `SyncSystem` | the synchronous handler and the ZeroMQ loop | `SingletonSystem` |
| `WorkerPool` | KME, WPEs, registration and pre-processing | listener, manager |
| `CsvStore` | abstract specification: what the storage interface promises | - |
| `StoreProtocol` | the store as built: client proxy, text protocol, byte strings | refines `CsvStore` |
| `Registries` | SDK requests, schema checks, worker registry and receipt handlers | - |
| `Ledger` | Fabric chaincode and Ethereum contracts as the SDK uses them | - |
| `ProxyModel` | connector with its two coroutines, proxy clients, what the listener and the workers make of an order | `Ledger` |
| `WorkOrderCrypto` | symbolic encryption, hashes, signatures, enclave processing | - |
| `WorkOrderProtocol` | clients, attestation and key set-up, SGX and Graphene workers, KME keys, restarts | `WorkOrderCrypto` |
| `SequenceLemmas` | facts about lists, sorted pages, queues and recursive functions that the proofs share | - |
| `ComponentProofs` | types of the listener and of the manager, step by step | listener, manager |
| `SingletonSystemProofs` | types, capacity and accounts of the listener; where an order is; what a client was promised; synchronous mode | `SyncSystem`, `ComponentProofs` |
| `WorkerPoolProofs` | the KME's keys, purgeable and lost orders | `WorkerPool`, `ComponentProofs` |
| `RegistriesProofs` | boot of the registry, pages of lookups | `Registries`, `SequenceLemmas` |
| `ProxyModelProofs` | answers and worker details on a chain | `ProxyModel`, `SequenceLemmas` |
| `WorkOrderProtocolProofs` | the key an SGX worker keeps; accepted results | `WorkOrderProtocol`, `SequenceLemmas` |
| `StoreProtocolProofs` | what the text functions compute, the refinement, elements popped once | `StoreProtocol`, `SequenceLemmas` |
| `MC*` | instances for TLC: constants, symmetry, views | |

### Correspondence to the code

*Grain.* The store server handles one HTTP request at a time, so in the modules
above the store an action is one store operation together with the local code up
to the next one. A process's position is its program counter (`lpc[l]`,
`mpc[m]`, `mgr.pc`, `sync.pc`, ...); its locals are variables indexed by the
process. A handler ends by answering; `Reply` is the dispatcher turning the
answer into the response the client sees.

*Data.* In `SingletonSystem` and the modules on it a request is the ordinal of
the client's submission of that id, a response the ordinal of the request it was
computed from; 0 is "no such key". Ids are naturals because LMDB enumerates a
table in key order, and the purge and the paged lookups depend on it. A
comma-separated value is a sequence; the empty one is a missing key. That the
bytes of the real store behave so is what `StoreProtocol` shows.

*Listener.* `Boot*` is `__work_order_handler_on_boot`: timestamps first, then for
each worker of the pool the scheduled and processed lists and the processing
entry of each pool member (`BootFollow` is that nested loop); an id found is
kept and counted, one found nowhere is removed from the four tables one at a
time. `SubmitReceive` is the head of `WorkOrderSubmit` up to the capacity test;
`Purge*` the branch taken at the limit, with the second test and the
`ValueError` of `workorder_list.remove` in `PurgeFinish`; `SubmitCheck` to
`SubmitSchedule` the creation. `GetResult*` is `WorkOrderGetResult`;
`ReceiptCreate`, `ReceiptStore` are `WorkOrderReceiptCreate` as far as the
manager notices it. `ListenerRestart` is a crash at any point.

*Manager.* `Cleanup*` is `cleanup_work_orders`; `Pop` to `ClearProcessing` are
`_process_work_orders` and `_process_work_order_by_id`. `EnclaveRaises` and the
receipt branch of `UpdateReceipt` are the two ways in which the code's own
exceptions end the process; `ManagerCrash` is an external end.

*Synchronous mode.* `SyncSystem` keeps the listener's tables and adds the socket:
`ZmqSend`, `ZmqRecv`, `SyncGet` at the listener, `SyncReceive`, `MatchPop`,
`SyncSendReply` at the manager. A request lives in `zmqIn` until the manager
reads it, survives a manager that is down, and is gone with one that dies
holding it. Purging (`SyncPurgeRead`) is the synchronous handler's own.

*Worker pool.* `Kme*` is enclave set-up from sealed data, clean-up, clearing of
the pool and publication; `IssueUniqueKey`, `RedeemUniqueKey`, `Preprocesses` are
the KME enclave's maps; `Wpe*` is the WPE's boot flow (read the worker record,
get a unique key, sign up, register, join the pool) and its loop, which uses the
actions of `EnclaveManager` for everything but execution. `WpeRaises` is an execution
that raises: the handler of the exception uses `random`, which its module does not
import, so the process ends. Registration sends the
quote made from the sign-up; a WPE that is started again is another member of
`Managers`, because its identity is the hash of a key made at start. Clients only
submit here; their queries change nothing the pool sees.

*Store.* `StoreProtocol` translates the client proxy (`Request`, `Result`), the
request handler (`Process`) and `lmdb_store.cpp` (`CsvExtend`, `CsvPop`,
`CsvSearchDelete`, ...) over strings as sequences of characters, escaping
included; `Comma` is the one character that separates, in lists and in the answer to
a lookup. `Post`, `Serve`, `Receive` are one call; `Timeout` leaves the request
in the server's backlog, where `ServeOrphan` may run it later; `Break` is a
connection that fails. Requests are numbered, so that two equal ones of a client
wait in the backlog as two. Clients put elements into lists that are new or that a
pop has returned, as a manager does with the id it moves from
`wo-worker-scheduled` to `wo-worker-processed`; `delivered` counts what pops
returned and was not put back. The stride of `csv_search_delete` and its comparison past
the end of the value are as in the C++ code; where the element is longer than the
value nothing is erased and the element is reported as found (`EraseOverrun`).

*Registries.* The `worker_*`, `work_order_receipt_*` and `encryption_key_get`
operators are the requests the SDK sends, as the set of their parameters;
`Schema` and `schema_validation` decide which of them reach a handler. `LookUp`,
`ScanGet`, `ScanDone` are the paged lookups, one store operation each;
`CreateRead`, `CreateCheck`, `CreateSet` the creation of a receipt; `InOrder` is
the key order in which LMDB enumerates a table, `AfterTag` and `FromTag` what is left of it
behind the last lookup tag;
`Boot*` the registry handler's boot flow. `Submit`, `PurgeRequest`, `PurgeReceipt`
stand for the work order handler, `AddWorker` for managers. The last answer is
not part of TLC's view: nothing reads it.

*Proxy model.* The connector is one thread with two coroutines, `sync_workers` and
`sync_work_orders`, which `asyncio.gather` starts in either order (`first`): in the
Python 3.6 of the default image (`DISTRO=bionic` in `.env`) it goes through a set.
`Sync*` is the round (`base_connector.py`, `worker_delegate.py`): look up the
listener's workers, read the chain, write what changed, decommission what is gone,
sleep; `Abort` is an exception, after which the loop goes on without a sleep.
`SyncWake` asks nothing of the transactions written before the sleep; `overtaken`
records that a round began while some of them waited. On Fabric each call to the
chain runs the event loop, which nest_asyncio lets nest, and
`start_event_handling` is such a call that does not return. So when
`sync_workers` is started first, its first query runs `sync_work_orders` and stays
beneath it (`Blocked`) until the stream of events ends (`Disconnect`); when
`sync_work_orders` is first, `Subscribe` comes after the whole first round, and later
rounds run above the listening call. `sync.over` is a round that runs above a
handler's call to the chain, which returns after it. `Deliver`, `HandSubmit`,
`HandPoll`, `HandComplete` are the event handler (`work_order_delegate.py`).
`Accepts` and `Refuses` are the listener's answers: it refuses an order whose worker
is not in the store, any order while the store is full, and an id it has. `Process`
ends an order with a result or with an error of the enclave; `RestartManager` is the
boot flow of a manager as the connector sees it: the worker is published with its old
keys or new ones, results not fetched are removed, and the order in hand is pending for
ever. No part of the program calls `cleanup_worker`, so `RemoveWorker` is somebody
outside. `Client*`, `FabricQuery`, `FabricListen`, `EthereumQuery`,
`EthereumListen` are the proxy clients. In `Ledger` a Fabric call returns when the
orderer has the transaction, which is committed later and refused if what it read has
been written meanwhile; an Ethereum call returns when mined, or raises after three
attempts with the last still pending. Discovery that fails before the subscription
ends the process and is part of `Crash`.

*Protocol.* A term `[by |-> key, of |-> data]` is encrypted or signed data that
only its key opens or verifies. `WorkOrderCrypto` translates the SDK's and the
workers' functions under their names (`encrypt_data`, `calculate_request_hash`,
`verify_work_order_request`, `decrypt_work_order_data_json`,
`process_work_order`, `verify_signature`, ...), for the C++ enclave, the Python
worker and the WPE. `WorkOrderProtocol` runs them: the client's calls
(`CreateOrder` takes any sequence of SDK calls from `Programs`), EPID and DCAP
attestation with its failures, sealing, publication, registration with the KME,
requests to the worker process (`SendRequest`, `WorkerServe`, `Receive*`), and
restarts of manager and worker. `RemoveSealed` is the command of the container that
starts an SGX manager (`docker-compose.yaml:72`): with `CLEAN_SEALED_DATA=1`, the
default of `.env`, the sealed data is erased and the worker gets new keys
(`docs/FAQ.rst:211-213`); with 0 it keeps them. The model has both. Listener and
store are one step there, since the other modules take them apart.

*History variables* (`submits`, `accepted`, `delivered`, `executed`, `repeated`,
`answered`, `died`, `used`, `dropped`, `erased`, `overtaken`, counters of faults and
of calls) record what happened
for the properties and bounds; no program step depends on them.

*Fault operators.* A definition commented "Fault:" is a plausible slip in the
definition that follows it. No specification uses them: substituting one for the
definition it varies must violate the property named for it under `mutants` in
`PROJECT.json`, which shows that the property depends on that code.

## 3. Runs

### Passing

- **`single_listener`**: one listener, one manager, no crashes, three ids
  submitted up to twice against a limit of two. Purges with and without a
  candidate, duplicates, reuse of purged ids. The limit is kept, the count is
  the number of orders whenever the listener is idle, nothing is lost, accepted
  twice or answered with another submission's response, a result handed out is
  not followed by "pending", and "busy" is said only when the store is full.
- **`two_workers`**: two workers with queues of their own, under fairness. Every
  accepted order is eventually answered; the listener always comes back to
  serving.
- **`restarts`**: a listener crash and a manager crash at any points, an order
  whose execution raises and one with a receipt, which both end the manager.
  `CapacityInv` holds, a request always has its timestamp (otherwise it could be neither reported nor
  removed), clean-up leaves no orphans, an unprocessed order stays known,
  nothing runs twice. (For any number of listeners the last is the theorem
  `FreshIdsRunOnce`.)
- **`sync_mode`**: two workers of which one is behind `zmq_url`, a manager crash,
  an order that raises, a listener restart. As long as nobody died, a reply
  means that the result is there; as long as no listener restarted, nothing is
  left at the head of the queue; and the listener comes back to serving unless a
  manager dies.
- **`worker_pool`**: a KME, two WPEs and a listener with one crash of any
  manager, and an order that raises. A WPE that ends takes at most the order it holds; unique keys are
  redeemed once; nothing but a death leaves a stored response unlisted; the
  published key is the one in use and in the sealed data; the pool catches up
  when nobody dies.
- **`registries`**: two listeners boot, refuse, serve, page and purge. A chain of
  pages returns every matching record that stays, in order and once; after all
  boots the registries table holds exactly the listener's entry.
- **`store_protocol`**: two clients, three calls of any operation on lists of up
  to three elements, popped ones put back, with timeouts and late execution. `ImplementsInterface` is
  the refinement: under the mapping that splits the bytes at commas,
  `StoreProtocol` implements `CsvStore` (every operation atomic, every call
  applied at most once). No popped element is returned twice unless it was put into
  a list again.
- **`proxy_chain`**: two orders of two clients, one of whom waits for the answer, on
  either chain, with the coroutines started in either order and one fault: a failing
  call, a lost event stream, a restart of the connector, a worker removed or a manager
  restarted. What the connector recorded is on the chain unless a round was
  overtaken; without a failing call or a restart of the connector an error on the
  chain means that the listener refused the order, its worker failed on it or a manager
  removed it; without a restart a result is never replaced and is what the client ends
  with. Without faults every Fabric order that comes while the connector listens is
  completed, and a connector that started `sync_work_orders` first brings the workers
  to the chain and keeps listening.
- **`wo_protocol`**: two clients, a worker of any of three kinds, two faults.
  One client builds its order in every way worth telling apart (`MCPrograms`).
  An accepted result is the output on the hashed data; an SGX worker's
  published key changes only if its sealed data was erased; every order is answered
  unless the manager died with it or waits for a lost reply; good orders are served,
  unless the worker has new keys when they are executed.

### Violations: where the code and its own words disagree

- **`listener_restart`**: the boot flow of a restarted listener removes accepted
  orders it cannot see: while their worker has registered but not joined the
  pool, between the pop and the processing mark, or when an order moves from
  processing to processed between the two reads. TLC reports the shortest.
- **`load_balanced`**: two listeners behind the load balancer share a store. Each
  compares `max_work_order_count` with its own count, so the store holds more than the
  limit that the configuration states for the deployment. What does hold is the sum of
  the limits (theorem `ListenersKeepSharedLimit`).
- **`mixed_items`**: a Graphene worker decrypts nothing behind the first plain
  item of an order and signs the result of a workload run on ciphertext.
  `AcceptedResultCorrect` of `wo_protocol` excludes exactly these orders.

### Other deviations the models contain

Each can be reproduced by the change given; they are not runs of their own.

| What | Where | How to see it |
|---|---|---|
| Two listeners accept the same id | `tcs_work_order_handler.py:291` | `single_listener` with `Listeners = {l1, l2}`: `AcceptedOnce` |
| A purge takes an order another listener accepted and fails after removing its records | `:276` | `load_balanced` with `WoIds = {1, 2, 3}`, `MaxSubmits = 2`: `PurgeVictimListed` |
| "Busy" although the store is not full, after a manager cleaned up | `:285` | `single_listener` with `MaxManagerCrashes = 1`: `BusyOnlyWhenFull` |
| A receipt ends the manager, its order is never answered | `work_order_receipt.py:163` | `two_workers` with `ReceiptIds = {1}`: `EveryOrderAnswered` |
| Ids of two lengths corrupt lists | `lmdb_store.cpp:584` | `store_protocol` with `Elements <- TwoLengths`, `Stored <- TwoLengthsStored`: `ImplementsInterface` |
| An id left at the head of the synchronous queue by a restarted listener makes later replies empty | `tcs_work_order_handler_sync.py:163` | `SyncReturnsResult` without `lrestarts = 0` |
| The purge takes the first processed id in key order, not the oldest (`listener_config.toml:30-31`) | `:266` | by reading |
| A response stored by a manager that dies before listing it is never cleaned up | `work_order_processor_manager.py:218` | `AnsweredOrderPurgeable` without the disjunct for deaths |
| A worker stays decommissioned: its new status was endorsed before its update was committed | `worker_delegate.py:120-127` | in `ProxyModel` the status transaction goes stale |
| The map of the connector has details that the chain refused: a round updates a worker whose earlier transaction is not committed | `base_connector.py:107` | `RecordedDetailsOnChain` without `~ overtaken` |
| An order committed before the connector subscribes is missed for ever | `fabric_connector.py:86` | `OrdersCompleted` without `events = "on"` |
| Started first, `sync_workers` never gets past its first query, and no worker reaches the chain | `tx_committer.py:122` | `RoundsReachChain` without `first = "orders"` |
| After a connector restart the last event comes again and the refusal overwrites the result | `event_listener.py:86` | `ResultStable` without `ncrash = 0` |

Met while translating, and modelled as the code behaves: an Ethereum connector
stops synchronizing after its first round, so no Ethereum order is answered; an
error answer to the connector's lookup reads as "no workers", and the round then
decommissions them all; the connector's handler polls for a lost order for ever and,
being the only thread, does nothing else; the schema refuses the SDK's receipt status
parameter, empty lookups and the encryption key methods, and `WorkerLookUpNext`
raises whenever a worker exists; no receipt update is ever accepted; after a KME
restart every live WPE ends with its next order; both data-key branches of the
Python crypto raise; a WPE refuses every order with a plain item; the generic
client goes on when the worker's verification fails and polls for ever.

### Bounds and why they are enough

`MaxSubmits`, `MaxListenerRestarts`, `MaxManagerCrashes`, `MaxFaults`,
`MaxCalls`, `MaxOrders` and `MaxPages` limit inputs and faults, never the
program's own steps. `MaxWaiting` bounds the transactions a round may find
uncommitted when it wakes, and a round overtakes waiting worker transactions only
once; `Waiting` are the orders whose client stays for the answer. One order more than the limit is what a purge needs; two in
the store make the choice of the victim and the order of lists matter. One crash
on each side covers every pair of interrupted handlers; with the exits
for an order that raises and for a receipt a manager ends up to three times, which
covers an interrupted clean-up after an interrupted execution. Three calls of two
clients with one orphan cover a late request between two others, and the stored
lists hold an element at the front, in the middle and at the end. Three pages
are one more than the ids. Two faults in `wo_protocol` cover a restart of the
worker during the manager's recovery. `single_listener` reuses ids; the other
runs submit each id once, because reuse across a manager restart meets the
snapshot hazard listed for `work_order_kv_delegate.py:56`. The safety properties
do not depend on the bounds: they are proved (section 4).

Symmetry is used for interchangeable listeners (`load_balanced`, `registries`) and
clients (`store_protocol`); none of these runs checks liveness, and the
refinement property is one of safety. Deadlock is checked where clients can
always ask for something; the runs whose clients stop after their last order or
call (`sync_mode`, `worker_pool`, `store_protocol`, `proxy_chain`, `wo_protocol`)
say `CHECK_DEADLOCK FALSE`, and their liveness properties say what must not get
stuck.

### Fairness

Weak fairness of each process's own steps: a listener that has received a
request runs its handler to its end, a manager's loop sleeps and polls again for
ever (`_start_polling_kvstore`), the KME and a worker process serve, the orderer
cuts blocks. Nothing is asked of clients except that one who waits goes on
polling, which its loop does, and no fault is forced. In `ProxyModel` fairness is
assumed only until something fails: weak for the rounds, which take no step where
the thread is not theirs, for the orderer and for the workers; strong for the event
handler, whose steps wait for the event loop, which comes back to them again and again
with blocking calls and whole rounds in between. `WorkOrderProtocol` and `SyncSystem` assume
that a stopped manager is started again, as Kubernetes does by default for the
deployments in the repository (`docker/` compose files set no restart policy); in
`SingletonSystem` this matters in no passing liveness run, which has no crashes.

## 4. Proofs

TLAPS checks 32 theorems, which state every invariant, action property and
refinement that a passing run checks (and the sum of the limits of several
listeners), all for arbitrary sets of ids, workers, managers,
orders and clients and arbitrary numbers of faults; a hypothesis is named where
there is one. TLC was used to find the inductive invariants: each was checked on
small instances first. A proof has a lemma for each group of actions, and a frame
lemma for the steps that leave the invariant's variables alone.

Hypotheses that recur, each a way to use the system:

- *one listener*: `Listeners = {l}`. The handlers of one listener never overlap;
  two listeners accept the same id (section 3), so this is needed wherever ids
  are promised something.
- `Deathless`: managers are not killed, no execution raises and no receipts are
  created; the two last end a manager.
- `NeverRestarted`: the listener is not restarted. Its boot flow removes orders
  it cannot see (`listener_restart`), so promises hold only until then.
- *ids used once*: `MaxSubmits <= 1`. A clean-up works on a snapshot of
  ids, and one that is submitted again meanwhile loses its records. Several
  theorems need this or `Deathless`, either of which excludes it.

### The Singleton deployment

| Theorem | States | Under |
|---|---|---|
| `TypeCorrect` | `TypeOK` | - |
| `OneListenerKeepsLimit`, `OneListenerPurgesItsOwn`, `OneListenerAccounts` | `StoreWithinLimit`, `PurgeVictimListed`, `CapacityInv` | one listener |
| `OneListenerCountsStore`, `OneListenerBusyWhenFull` | `CountMatchesStore`, `BusyOnlyWhenFull` | one listener, `Deathless` |
| `ListenersKeepSharedLimit` | `StoreWithinSharedLimit` | finitely many listeners, `NeverRestarted` |
| `FreshIdsRunOnce` | `AtMostOnceExecution` | ids used once |
| `OneListenerLeavesNoOrphans`, `OneListenerKnowsAccepted` | `NoOrphanRecords`, `AcceptedOrderKnown` | one listener; ids used once or `Deathless` |
| `OneListenerReachesRequests` | `RequestHasTimestamp` | the same; the listener may restart |
| `OneListenerAnswersMatch`, `OneListenerAcceptsOnce` | `ResponseAnswersRequest`, `AcceptedOnce` | the same, and `NeverRestarted` |
| `OneListenerLosesNothing`, `OneListenerReportsTruly` | `NoAcceptedOrderLost`, `NoPendingAfterResult` | one listener, `Deathless`, `NeverRestarted` |

*Types.* `TypeOK` is not inductive: a handler uses its locals (the victim, the
head of the scan, the index of the table) in ways that are typed only because of
where it is. `ListenerFormed` and `ManagerFormed` say so beside the components,
`ComponentProofs` proves them step by step, and `TypeInv` adds that the count is the
length of the list.

*Capacity.* The number of orders in the store is not bounded by the listener's
count at every moment: a crash resets the count, a boot rebuilds it while the
store already holds orders, a submission writes its timestamp before it counts.
What is invariant is that the listener accounts for the store
(`AccountsForStore`): every id of `wo-timestamps` is in `workorder_list`, among
the ids the boot flow still has to treat, or in hand, and the sizes of these parts
together stay within the limit. Managers only remove timestamps. `ExactInv` turns
the inclusion into an equality of disjoint parts while managers live, which gives
the count and the refusals. With several listeners no list covers the store,
since one purges what another created; `SharedInv` says that *some* assignment of
owners exists in which no listener owns more than its limit and everything it
owns is in its list or its hands. Cardinalities rest on `CoveredBound` and
`SharesBound` of `SequenceLemmas`.

*Orders.* `OnceInv`: an id that has been submitted once is in one place at a time
on its way (a submission in progress, one entry of one queue, one manager), and has
not run before it gets there. `PlacesInv` extends this to reused ids: an order
being created, queued or held is nowhere else and is not *retired*, that is,
listed as processed or about to be purged or cleaned up; its records are those
written so far. `PromiseInv` adds what was promised: a promised submission keeps
its request until it is answered, its id is not retired before, and a submission in
progress is the latest of its id. That a purge or clean-up never meets a fresh
order of the same id follows from `RetiredRan` (ids used once: what is retired
has run) or from `Undisturbed` and `ListedKeptInv` (managers live: what is retired
still has its timestamp, so it is not accepted again). `PlacedInv` (every order of
the store is in some place) gives `NoAcceptedOrderLost`, `ResultInv` the truth of
reports. `RequestInv` is about the order of writes and removals within the
handlers, and survives listener restarts, which `PlacesInv` does not.

### Synchronous mode

`SyncListenerReadsItsResult` (`SyncReturnsResult`) and `SyncQueueHoldsNoLeftOver`
(`NoHeadOfLineBlocking`) need one listener; the properties themselves end with its
first restart, the former also with the first death of a manager. With two
listeners in front of one `zmq_url` both are false: one that boots removes the
order the other has under way, and the manager receives in another order than the
queue holds. `SyncInv` has three parts. `OneRequest`: the
single request is on its way, served or replied to, never two of these, and nothing
is under way unless the listener waits. `QueueInFlight`: the queue of the target
holds the order in flight from its scheduling until `csv_match_pop` takes it, and
nothing else, whatever managers die; a clean-up does not touch the queue.
`SyncUndisturbed`: while no manager has died, clean-ups find nothing, the target
works on the request in flight, and once it appends the order or replies the response in the
store is that of the submission.

### The worker pool

`KmePublishesItsKey` (`PublishedKeyInUse`), `RegistrationUsesKeyUp`
(`UniqueKeyRedeemedOnce`) and `AnsweredStayPurgeable` (`AnsweredOrderPurgeable`)
need no hypothesis. `KeyInv` relates what the KME has in memory, in the sealed
data and in the workers table at each point of its boot flow, and its two
maps to the WPEs. `ListedInv`: in its first start the KME cleans up an empty pool,
because no WPE begins before the worker is published; from then on only a listener
that purges an order takes it off the list. `OneOrderPerFallenWpe`
(`OneOrderLostPerDeath`; one listener, ids used once, finitely many managers)
counts: `LossInv` bounds the accepted ids that are neither answered, queued nor held
by the WPEs that are down; a step adds to the former only by adding the one
that held the order to the latter.

### The registries

`BootLeavesRegistry` (`RegistryPublished`; there is a listener) needs to know of a
booting listener that a leftover it can see is among the entries it still
removes. `PagesAscend` (`ChainAscending`) and `PagesReturnStableKeys`
(`StableKeysReturned`) hold without hypothesis: pages returned, page in progress
and keys still to be read are ascending and each below the next, and a key that
has been there since the first page is in one of them. That `InOrder` is such an
enumeration is the lemma `SortedEnumeration`, by a least counterexample.

### The proxy model

No hypotheses; both chains. `ErrorsAreCaused` (`ErrorsHaveCause`),
`AnswersAreOnChain` (`AnswerIsOnChain`) and `ResultsStay` (the action property
`ResultStable`, which is proved for any answer) rest on `OrderInv`. Until the
connector is restarted an order is in one place at most on its way (`OncePlaced`):
with its client, in the pool of transactions, announced by the newest block
or in the connector's queue, in the handler's hands, or answered; what clients
and the newest block have of an answer is what the chain has (`TrueAnswers`). So
no write meets an order that has its answer. `ErrorInv` counts: restarts of the
connector and changes of workers are among the faults, and while the faults are all
changes of workers, an error in the handler's hands, in the pool or on the chain is
of an order that was refused, failed or removed (`Caused`), which no step takes back.

`RecordedDetailsArrive` (`RecordedDetailsOnChain`) rests on `DetailInv`, which holds
until a round overtakes the one before it: the pool has transactions of the current round only, of
workers the round is done with (`PoolOfRound`), a worker's details come before its
status (`DetailsFirst`) and so are never made stale by a write ahead of them
(`DetailsFresh`), and they are what the map has (`DetailsKept`).

### A work order from client to client

No hypotheses. `KeyChangesOnlyWhenErased` (the action property `PublishedKeyKept`)
rests on `SgxKeyInv`: what is published is the pair of the sealed data or has been
erased, a manager
that boots uses the sealed pair if there is one, and a pair not sealed yet was
never published. `AcceptedIsRight` (`AcceptedResultCorrect`) rests on `OrderInv`:
the items of an order are those its client made, with the client's data in them and no
encryption where there is no key; what is queued or held has been submitted, so that
its request no longer changes; the keys a KME hands out with an order are those of its items; and the
response in the manager's hands, in the worker's reply or in the store is an error
or has the output on the hashed data. Decryption with the right keys gives back
what was hashed, item by item, for orders of any length.

### The store

`StoreImplementsInterface` (`ImplementsInterface`: `ProtoSpec` implements the
specification of `CsvStore`) and `PoppedAtMostOnce` (`PoppedOnce`) have the
hypothesis `OneLength(n)`: all list elements have the same length `n`. The ids the SDK
makes have (`secrets.token_hex(32)`); the listener does not ask for it, and with two lengths
`csv_search_delete` steps past elements and both the run and the theorem fail
(section 3).

1. *Text.* Each recursive function is taken apart once: `RecursiveFunction` of
   `SequenceLemmas` shows that a function defined from the end of a string is total
   and satisfies its equation, `SplitCons`, `JoinCons`, `EscapeCons`, `Unescape*` state
   the equation, and induction along the string (`ListInduction`) gives
   `SplitJoin`, `EscapeRoundTrip` and from them `SentIsRead`: what one side writes
   is what the other side reads, with newlines and backslashes in it.
2. *Bytes.* A list without commas in its elements is read back from its text
   (`ListOfText`); appending, prepending and popping bytes is the operation on the list
   (`CsvExtend*`, `CsvPopTakesHead`). Elements of one length start at the places
   `csv_search_delete` steps through (`StrideIsPlace`), so it finds the first
   occurrence, never compares past the end with success, and erases the element
   with one comma (`SearchDeleteFinds`).
3. *Requests.* `RequestServed`: from bytes that stand for lists (`Rep`), every
   request of the interface leaves bytes that stand for the lists the interface
   prescribes, and its answer is read as the outcome the interface prescribes.
4. *Steps.* `WireInv` (the bytes stand for lists; connections and backlog hold
   requests of the interface) is inductive, and each step of the protocol is a
   call, application, return, failure or late application of the interface.
5. *Once.* `OnceInv` gives every element at most one place: a list, a request that
   is to put it there and is on the wire or in the backlog, the answer to a pop, or the
   record of what was delivered. Every step moves at most one element; `Post` brings a
   new one, or moves one that was delivered back into a request.

### Assumptions

`StoreAssumption`, `ListenerAssumption`, `ManagerAssumption` and
`SingletonAssumption`: ids are positive naturals, the limit is at least 1, there
is a worker and finitely many of them, and managers are workers. `PoolAssumption`
places the KME and the pool among managers and workers, `RegistriesAssumption`
has ids that are positive naturals; the ledger needs none. `SyncAssumption` has the
manager behind `zmq_url` among the managers. The `ProtocolAssumption` of
`StoreProtocol` says what strings are: sequences over `Chars`, which has the
characters the protocol gives a meaning; keys and elements are not empty and have no
comma, lists the server finds at its start have no element twice, and `None` is
no string. The one of `WorkOrderProtocol` types clients, kinds of workers and
programs. TLC evaluates all of them.

### Only model-checked

Liveness under fairness is out of the prover's reach: `EveryOrderAnswered`,
`ListenerServes`, `SyncServes`, `PoolAnswers`, `OrdersCompleted`,
`RoundsReachChain` and `GoodOrderServed` stay with TLC and hold for the instances of the runs. The
provers cannot instantiate the library's induction theorems, which take an operator;
`InductionUp`, `InductionDown` and `ListInduction` state induction for a set
instead, and are proved from a least counterexample.

## 5. Order of the work, and what is left

The modules were written outwards from the store: listener, manager and the
Singleton deployment; then synchronous mode, the pool, the store as built, the
registries, the proxy model and the work order protocol. The proofs followed the
same order, with capacity and promises of the Singleton deployment first and the
refinement of the storage interface last. Left for later are

1. the eight hazards without a property, which `PROJECT.json` names with the reason;
   most are deviations of section 3, which become properties once the code is changed;
2. a theorem on `csv_search_delete` for elements of different lengths once the code
   steps by the elements it finds.

## 6. Not modelled

- Store calls that time out inside a handler of the listener or of a manager.
  `StoreProtocol` has the timeouts themselves; above it, where the call raises
  (`lmdb_helper_proxy.py:352-366`), the handler ends half-way as at a crash, but the
  process goes on. In particular `work_order_processor_manager.py:110-113` drops an
  order it has popped, so that it is lost although nobody died.
- HTTP, command lines, configuration files, logging and message wording.
- The algorithms of cryptography and the SGX instructions: symbolic terms stand
  for them. `common/crypto_utils_openssl` is a second implementation of the same
  functions.
- Simulation mode of attestation, in which no proof is made or asked for.
- Registry lists and receipts on a chain: no part of the program calls them with
  success (`retrieve_uri_from_registry_list` uses an undefined name, the Fabric
  receipt implementation returns an error even on success), and the connector
  does not carry receipts.
- The number of orders a KME allows each WPE: unlimited as built
  (`KME_MAX_WO_COUNT = 0`).
- `main` of the Graphene WPE manager, which leaves out the set-up calls and ends
  at once; the model starts it the way the other managers are started.
- The client's own data encryption keys: the SDK raises before such an order
  exists.
- Sample applications and graphical clients: no shared state of their own.
