--------------------------- MODULE WorkOrderStore ---------------------------
(***************************************************************************)
(* The shared LMDB key-value store of Avalon: the tables through which the *)
(* listeners and the enclave managers exchange work orders, and the        *)
(* operations the store offers on them.                                    *)
(*                                                                         *)
(* Every client reaches the store by HTTP and the server handles one       *)
(* request at a time, so one store operation is one atomic step; nothing   *)
(* larger is atomic.  A table keyed by work order id is a function from    *)
(* ids (0 stands for "no such key"); a comma-separated value is a sequence *)
(* of ids, and the empty sequence stands for "no such key" because the     *)
(* store deletes a key whose last element goes.                            *)
(*                                                                         *)
(* Data abstraction: the content of a request is the ordinal of the client *)
(* submission of that id (1 for the first submission, 2 for a second one   *)
(* of the same id), and the content of a response is the ordinal of the    *)
(* request it was computed from.  Ids are numbers because LMDB enumerates  *)
(* a table in key order.                                                   *)
(***************************************************************************)
EXTENDS Naturals, Sequences, FiniteSets, SequencesExt

CONSTANTS
    WoIds,        \* work order ids
    Workers,      \* worker ids clients may name
    Managers,     \* enclave managers, by the identity they process under
    WorkerOf      \* the worker id (queue) a manager serves

ASSUME StoreAssumption ==
    /\ WoIds \subseteq Nat \ {0}
    /\ WorkerOf \in [Managers -> Workers]

VARIABLES
    woTimestamps,  \* wo-timestamps: the ids the store knows of
    woRequests,    \* wo-requests: id -> request
    woResponses,   \* wo-responses: id -> response
    woReceipts,    \* wo-receipts: the ids that have a receipt
    woScheduled,   \* wo-worker-scheduled: worker -> ids waiting
    woProcessing,  \* wo-worker-processing: identity -> id, 0 if none
    woProcessed,   \* wo-worker-processed: worker -> ids answered
    workers,       \* workers: the registered worker ids
    workerPool     \* worker-pool: worker -> identities serving it

orderVars == <<woTimestamps, woRequests, woResponses, woReceipts>>
queueVars == <<woScheduled, woProcessing, woProcessed>>
registryVars == <<workers, workerPool>>
storeVars == <<orderVars, queueVars, registryVars>>

StoreTypeOK ==
    /\ woTimestamps \in SUBSET WoIds
    /\ woRequests \in [WoIds -> Nat]
    /\ woResponses \in [WoIds -> Nat]
    /\ woReceipts \in SUBSET WoIds
    /\ woScheduled \in [Workers -> Seq(WoIds)]
    /\ woProcessing \in [Managers -> WoIds \cup {0}]
    /\ woProcessed \in [Workers -> Seq(WoIds)]
    /\ workers \in SUBSET Workers
    /\ workerPool \in [Workers -> Seq(Managers)]

\* A deployment starts with an empty database.
StoreInit ==
    /\ woTimestamps = {}
    /\ woRequests = [i \in WoIds |-> 0]
    /\ woResponses = [i \in WoIds |-> 0]
    /\ woReceipts = {}
    /\ woScheduled = [w \in Workers |-> <<>>]
    /\ woProcessing = [p \in Managers |-> 0]
    /\ woProcessed = [w \in Workers |-> <<>>]
    /\ workers = {}
    /\ workerPool = [w \in Workers |-> <<>>]

-----------------------------------------------------------------------------
(* Store operations on a comma-separated value                             *)

\* csv_append: the element goes to the end, the key is created if missing.
CsvAppend(table, key, v) == [table EXCEPT ![key] = Append(@, v)]

\* Fault: a pop that returns the head and leaves it in the queue.
CsvPopKeeps(table, key) == table

\* csv_pop: the first element leaves; popping a missing key returns nothing.
CsvPop(table, key) == [table EXCEPT ![key] = Tail(@)]

\* csv_search_delete: the first element equal to v leaves, if there is one.
CsvSearchDelete(table, key, v) == [table EXCEPT ![key] = RemoveFirst(@, v)]

\* lookup: the keys of a table of comma-separated values.
CsvKeys(table) == {key \in DOMAIN table : table[key] # <<>>}

\* lookup enumerates keys in ascending order; the first one of a set.
FirstKey(keys) == CHOOSE i \in keys : \A j \in keys : i <= j

-----------------------------------------------------------------------------
(* remove(table, id) on the tables keyed by work order id.  Removing a     *)
(* missing key fails in the store and every caller ignores the failure.    *)

OrderTables == {"wo-requests", "wo-responses", "wo-receipts", "wo-timestamps"}

RemoveRecord(table, i) ==
    /\ woRequests' = IF table = "wo-requests"
                     THEN [woRequests EXCEPT ![i] = 0] ELSE woRequests
    /\ woResponses' = IF table = "wo-responses"
                      THEN [woResponses EXCEPT ![i] = 0] ELSE woResponses
    /\ woReceipts' = IF table = "wo-receipts" THEN woReceipts \ {i} ELSE woReceipts
    /\ woTimestamps' = IF table = "wo-timestamps"
                       THEN woTimestamps \ {i} ELSE woTimestamps
=============================================================================
