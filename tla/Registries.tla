----------------------------- MODULE Registries -----------------------------
(***************************************************************************)
(* The requests of the client SDK other than work orders, the listener's   *)
(* checks of them, and its worker registry and work order receipt          *)
(* handlers: paged lookups over a table that other processes change, and   *)
(* the creation, update and retrieval of receipts.                         *)
(*                                                                         *)
(* A listener runs one request at a time, but a lookup is one store        *)
(* operation for the keys and one more for every value, and a second       *)
(* listener behind the load balancer creates and purges receipts between   *)
(* them.  A client follows one chain of pages at a time: LookUp, then      *)
(* LookUpNext with the tag of the page before.  Ids are numbers because    *)
(* the store lists keys in order; 0 is the empty tag of an empty page.     *)
(***************************************************************************)
EXTENDS Naturals, Sequences, FiniteSets, SequencesExt

CONSTANTS
    Listeners,    \* the listeners behind the load balancer
    Ids,          \* work order ids, and worker ids
    Matching,     \* ids whose record meets the client's lookup criteria
    MaxOrders,    \* bound: submissions of one id
    MaxPages      \* bound: pages the client asks for in one chain

ASSUME RegistriesAssumption ==
    /\ Ids \subseteq Nat \ {0}
    /\ Matching \subseteq Ids
    /\ MaxOrders \in Nat /\ MaxPages \in Nat

Tables == {"workers", "wo-receipts"}

VARIABLES
    requests,    \* wo-requests: id -> ordinal of the submission, 0 if none
    submitted,   \* how often an id was submitted
    receipts,    \* wo-receipts: id -> the submission its hash is of, 0 if none
    workers,     \* workers: the registered worker ids
    registries,  \* registries: the entries of the table
    req,         \* what each listener is working on
    chain,       \* the client's chain of pages
    reply        \* the last answer to a request that is not a lookup

regVars == <<requests, submitted, receipts, workers, registries, req, chain, reply>>

Idle == [op |-> "idle"]

\* No chain of pages, or one whose lookup failed.
NoChain == [table |-> "none", pages |-> 0, tag |-> 0, got |-> <<>>,
            stable |-> {}, open |-> FALSE]

\* The table of a key-value lookup, as the set of its keys.
Keys(t) == IF t = "workers" THEN workers ELSE {i \in Ids : receipts[i] # 0}

\* The store enumerates keys in ascending order.
InOrder(keys) ==
    CHOOSE s \in SetToSeqs(keys) : \A i, j \in DOMAIN s : i < j => s[i] < s[j]

\* Entries of an earlier start may be in the registries table.
RegInit ==
    /\ requests = [i \in Ids |-> 0]
    /\ submitted = [i \in Ids |-> 0]
    /\ receipts = [i \in Ids |-> 0]
    /\ workers = {}
    /\ registries \in SUBSET {"regid", "other"}
    /\ req = [l \in Listeners |-> [op |-> "down"]]
    /\ chain = NoChain
    /\ reply = "none"

Answer(l, r) == reply' = r /\ req' = [req EXCEPT ![l] = Idle]

-----------------------------------------------------------------------------
(* Requests: what the SDK sends, by its method and parameter names         *)

WorkerCriteria  == {"workerType", "organizationId", "applicationTypeId"}
ReceiptCriteria == {"workerServiceId", "workerId", "requesterId"}

worker_retrieve == [method |-> "WorkerRetrieve", params |-> {"workerId"}]

\* Only criteria that are given are sent.
worker_lookup(given) == [method |-> "WorkerLookUp", params |-> given]

worker_lookup_next(given) ==
    [method |-> "WorkerLookUpNext", params |-> {"lookUpTag"} \cup given]

worker_register ==
    [method |-> "WorkerRegister", params |-> {"workerId", "details"} \cup WorkerCriteria]

worker_update == [method |-> "WorkerUpdate", params |-> {"workerId", "details"}]

worker_set_status == [method |-> "WorkerSetStatus", params |-> {"workerId", "status"}]

\* The SDK sends no EncryptionKeySet: it answers encryption_key_set by itself.
encryption_key_get ==
    [method |-> "EncryptionKeyGet",
     params |-> {"workerId", "lastUsedKeyNonce", "tag", "requesterId",
                 "signatureNonce", "signature"}]

work_order_receipt_create ==
    [method |-> "WorkOrderReceiptCreate",
     params |-> {"workOrderId", "workerServiceId", "workerId", "requesterId",
                 "receiptCreateStatus", "workOrderRequestHash",
                 "requesterGeneratedNonce", "requesterSignature",
                 "signatureRules", "receiptVerificationKey"}]

work_order_receipt_update ==
    [method |-> "WorkOrderReceiptUpdate",
     params |-> {"workOrderId", "updaterId", "updateType", "updateData",
                 "updateSignature", "signatureRules"}]

work_order_receipt_retrieve ==
    [method |-> "WorkOrderReceiptRetrieve", params |-> {"workOrderId"}]

work_order_receipt_update_retrieve ==
    [method |-> "WorkOrderReceiptUpdateRetrieve",
     params |-> {"workOrderId", "updaterId", "updateIndex"}]

\* A receipt status is sent under the name requestCreateStatus.
work_order_receipt_lookup(given) ==
    [method |-> "WorkOrderReceiptLookUp", params |-> given]

work_order_receipt_lookup_next(given) ==
    [method |-> "WorkOrderReceiptLookUpNext", params |-> {"lastLookUpTag"} \cup given]

SdkRequests ==
    {worker_retrieve, worker_register, worker_update, worker_set_status,
     encryption_key_get, work_order_receipt_create, work_order_receipt_update,
     work_order_receipt_retrieve, work_order_receipt_update_retrieve}
    \cup {worker_lookup(g) : g \in SUBSET WorkerCriteria}
    \cup {worker_lookup_next(g) : g \in SUBSET WorkerCriteria}
    \cup {work_order_receipt_lookup(g) :
              g \in SUBSET (ReceiptCriteria \cup {"requestCreateStatus"})}
    \cup {work_order_receipt_lookup_next(g) :
              g \in SUBSET (ReceiptCriteria \cup {"requestCreateStatus"})}

\* The parameters that the schema of a method allows.
Schema == [
    WorkerLookUp |-> WorkerCriteria,
    WorkerLookUpNext |-> {"lookUpTag"} \cup WorkerCriteria,
    WorkerRetrieve |-> {"workerId"},
    WorkOrderReceiptCreate |-> work_order_receipt_create.params,
    WorkOrderReceiptUpdate |-> work_order_receipt_update.params,
    WorkOrderReceiptRetrieve |-> {"workOrderId"},
    WorkOrderReceiptUpdateRetrieve |-> {"workOrderId", "updaterId", "updateIndex"},
    WorkOrderReceiptLookUp |-> ReceiptCriteria \cup {"receiptStatus"},
    WorkOrderReceiptLookUpNext |-> ReceiptCriteria \cup {"receiptStatus", "lastLookUpTag"}]

\* schema_validation: a request without parameters is refused as well.  The SDK
\* sends all the parameters that are required.
schema_validation(r) ==
    /\ r.method \in DOMAIN Schema
    /\ r.params # {} /\ r.params \subseteq Schema[r.method]

\* _process_request checks a request before its handler is called.
Serves(l, r) == req[l] = Idle /\ schema_validation(r)

Refuse(l, r) ==
    /\ req[l] = Idle /\ ~schema_validation(r)
    /\ Answer(l, "invalid")
    /\ UNCHANGED <<requests, submitted, receipts, workers, registries, chain>>

\* render_POST answers what it cannot decode; render_GET refuses everything.
Undecodable(l) ==
    /\ req[l] = Idle
    /\ Answer(l, "undecodable")
    /\ UNCHANGED <<requests, submitted, receipts, workers, registries, chain>>

-----------------------------------------------------------------------------
(* Worker registry handler: boot                                           *)

\* __worker_registry_handler_on_boot reads the workers and the registries.
BootList(l) ==
    /\ req[l].op = "down"
    /\ req' = [req EXCEPT ![l] = [op |-> "boot", todo |-> SetToSeq(registries)]]
    /\ UNCHANGED <<requests, submitted, receipts, workers, registries, chain, reply>>

\* Every entry it read is removed.
BootRemove(l) ==
    /\ req[l].op = "boot" /\ req[l].todo # <<>>
    /\ registries' = registries \ {Head(req[l].todo)}
    /\ req' = [req EXCEPT ![l].todo = Tail(@)]
    /\ UNCHANGED <<requests, submitted, receipts, workers, chain, reply>>

\* Fault: the handler relies on the entry that another listener set.
BootPublishOnce(l) ==
    /\ req[l].op = "boot" /\ req[l].todo = <<>>
    /\ registries' = IF \E k \in Listeners \ {l} : req[k].op \notin {"down", "boot"}
                     THEN registries ELSE registries \cup {"regid"}
    /\ Answer(l, "booted")
    /\ UNCHANGED <<requests, submitted, receipts, workers, chain>>

\* The handler's own entry is set.
BootPublish(l) ==
    /\ req[l].op = "boot" /\ req[l].todo = <<>>
    /\ registries' = registries \cup {"regid"}
    /\ Answer(l, "booted")
    /\ UNCHANGED <<requests, submitted, receipts, workers, chain>>

-----------------------------------------------------------------------------
(* Lookups                                                                 *)

\* Fault: the page starts with the tag's own id.
FromTag(keys, tag) == InOrder({k \in keys : tag \in keys /\ k >= tag})

\* LookUpNext skips keys up to and including the tag: all of them if the tag's
\* record is gone, or if the page before was empty.
AfterTag(keys, tag) == InOrder({k \in keys : tag \in keys /\ k > tag})

Scan(l, t, todo) ==
    req' = [req EXCEPT ![l] = [op |-> "scan", table |-> t, todo |-> todo, ids |-> <<>>]]

\* A lookup reads the keys, and a new chain of pages starts.
LookUp(l, t) ==
    /\ ~chain.open
    /\ Scan(l, t, InOrder(Keys(t)))
    /\ chain' = [table |-> t, pages |-> 1, tag |-> 0, got |-> <<>>,
                 stable |-> Keys(t), open |-> TRUE]
    /\ UNCHANGED <<requests, submitted, receipts, workers, registries, reply>>

WorkerLookUp(l) ==
    \E given \in SUBSET WorkerCriteria :
        Serves(l, worker_lookup(given)) /\ LookUp(l, "workers")

WorkOrderReceiptLookUp(l) ==
    \E given \in SUBSET ReceiptCriteria :
        Serves(l, work_order_receipt_lookup(given)) /\ LookUp(l, "wo-receipts")

NextPage(t) == ~chain.open /\ chain.table = t /\ chain.pages \in 1 .. MaxPages - 1

\* The handler looks for a parameter lookupTag, which the schema spells
\* lookUpTag: it raises at the first worker.
WorkerLookUpNext(l) ==
    /\ Serves(l, worker_lookup_next({})) /\ NextPage("workers")
    /\ \/ /\ Keys("workers") # {} /\ Answer(l, "internal_error")
          /\ chain' = [chain EXCEPT !.pages = @ + 1]
       \/ /\ Keys("workers") = {} /\ Scan(l, "workers", <<>>)
          /\ chain' = [chain EXCEPT !.pages = @ + 1, !.open = TRUE]
          /\ UNCHANGED reply
    /\ UNCHANGED <<requests, submitted, receipts, workers, registries>>

WorkOrderReceiptLookUpNext(l) ==
    /\ Serves(l, work_order_receipt_lookup_next({})) /\ NextPage("wo-receipts")
    /\ Scan(l, "wo-receipts", AfterTag(Keys("wo-receipts"), chain.tag))
    /\ chain' = [chain EXCEPT !.pages = @ + 1, !.open = TRUE]
    /\ UNCHANGED <<requests, submitted, receipts, workers, registries, reply>>

\* Fault: a receipt that is gone empties the page.
CollectRestarts(t, i, ids) ==
    IF i \in Keys(t) THEN IF i \in Matching THEN Append(ids, i) ELSE ids
    ELSE <<>>

\* What reading one value adds to the page: a receipt that is gone is passed
\* over, a worker that is gone counts as a match.
Collect(t, i, ids) ==
    IF i \in Keys(t) THEN IF i \in Matching THEN Append(ids, i) ELSE ids
    ELSE IF t = "workers" THEN Append(ids, i) ELSE ids

\* One value is read and compared with the criteria.
ScanGet(l) ==
    /\ req[l].op = "scan" /\ req[l].todo # <<>>
    /\ req' = [req EXCEPT ![l].todo = Tail(@),
                          ![l].ids = Collect(req[l].table, Head(req[l].todo), @)]
    /\ UNCHANGED <<requests, submitted, receipts, workers, registries, chain, reply>>

\* The page is returned; its tag is its last id.
ScanDone(l) ==
    /\ req[l].op = "scan" /\ req[l].todo = <<>>
    /\ LET ids == req[l].ids
       IN chain' = [chain EXCEPT
            !.got = @ \o ids,
            !.tag = IF ids = <<>> THEN 0 ELSE Last(ids),
            !.open = FALSE]
    /\ req' = [req EXCEPT ![l] = Idle]
    /\ UNCHANGED <<requests, submitted, receipts, workers, registries, reply>>

-----------------------------------------------------------------------------
(* Retrievals                                                              *)

\* WorkerRetrieve answers from the workers table.
WorkerRetrieve(l, i) ==
    /\ Serves(l, worker_retrieve)
    /\ Answer(l, IF i \in workers THEN "worker" ELSE "unknown_worker")
    /\ UNCHANGED <<requests, submitted, receipts, workers, registries, chain>>

\* WorkOrderReceiptRetrieve: no update of a receipt is ever stored, so the
\* status is the one the receipt was created with.
WorkOrderReceiptRetrieve(l, i) ==
    /\ Serves(l, work_order_receipt_retrieve)
    /\ Answer(l, IF receipts[i] # 0 THEN "pending" ELSE "no_receipt")
    /\ UNCHANGED <<requests, submitted, receipts, workers, registries, chain>>

-----------------------------------------------------------------------------
(* Receipts                                                                *)

\* The validation of an update looks for workOrderId beside "params" instead of
\* inside it, so it raises, or refuses an unknown or misread field that comes
\* earlier; it never accepts.
UpdateRefusals == {"internal_error", "invalid"}

\* WorkOrderReceiptUpdate: a receipt must exist.  The code behind the validation
\* is never reached, so no update is ever stored.
WorkOrderReceiptUpdate(l, i) ==
    /\ Serves(l, work_order_receipt_update)
    /\ \/ receipts[i] = 0 /\ Answer(l, "no_receipt")
       \/ receipts[i] # 0 /\ \E r \in UpdateRefusals : Answer(l, r)
    /\ UNCHANGED <<requests, submitted, receipts, workers, registries, chain>>

\* WorkOrderReceiptUpdateRetrieve: there is no update it could return.
WorkOrderReceiptUpdateRetrieve(l, i) ==
    /\ Serves(l, work_order_receipt_update_retrieve)
    /\ Answer(l, "no_updates")
    /\ UNCHANGED <<requests, submitted, receipts, workers, registries, chain>>

\* WorkOrderReceiptCreate reads the work order request; h is the submission
\* the client's hash is of.
CreateRead(l, i, h) ==
    /\ Serves(l, work_order_receipt_create)
    /\ h \in 1 .. submitted[i]
    /\ \/ requests[i] = 0 /\ Answer(l, "unknown_order")
       \/ /\ requests[i] # 0
          /\ req' = [req EXCEPT ![l] = [op |-> "create", id |-> i, hash |-> h,
                                        order |-> requests[i]]]
          /\ UNCHANGED reply
    /\ UNCHANGED <<requests, submitted, receipts, workers, registries, chain>>

\* The receipt must not exist and its hash must be of the request read.
ValidCreate(r) == r.hash = r.order

CreateCheck(l) ==
    /\ req[l].op = "create"
    /\ \/ receipts[req[l].id] # 0 /\ Answer(l, "exists")
       \/ receipts[req[l].id] = 0 /\ ~ValidCreate(req[l]) /\ Answer(l, "invalid")
       \/ /\ receipts[req[l].id] = 0 /\ ValidCreate(req[l])
          /\ req' = [req EXCEPT ![l].op = "set"]
          /\ UNCHANGED reply
    /\ UNCHANGED <<requests, submitted, receipts, workers, registries, chain>>

\* The receipt is stored.
CreateSet(l) ==
    /\ req[l].op = "set"
    /\ receipts' = [receipts EXCEPT ![req[l].id] = req[l].order]
    /\ Answer(l, "created")
    /\ UNCHANGED <<requests, submitted, workers, registries, chain>>

-----------------------------------------------------------------------------
(* The rest of the listener and the enclave managers                       *)

\* WorkOrderSubmit stores the request of an id that is not in the store.  A purge
\* under way does not keep the id out: its timestamp, which goes last, may have
\* been removed by another listener that purges the same order.
Submit(i) ==
    /\ requests[i] = 0 /\ submitted[i] < MaxOrders
    /\ submitted' = [submitted EXCEPT ![i] = @ + 1]
    /\ requests' = [requests EXCEPT ![i] = submitted[i] + 1]
    /\ UNCHANGED <<receipts, workers, registries, req, chain, reply>>

\* WorkOrderSubmit purges an answered order: its request goes first ...
PurgeRequest(l, i) ==
    /\ req[l] = Idle /\ requests[i] # 0
    /\ requests' = [requests EXCEPT ![i] = 0]
    /\ req' = [req EXCEPT ![l] = [op |-> "purge", id |-> i]]
    /\ UNCHANGED <<submitted, receipts, workers, registries, chain, reply>>

\* ... then its receipt, which no chain of pages need return any more.
PurgeReceipt(l) ==
    /\ req[l].op = "purge"
    /\ receipts' = [receipts EXCEPT ![req[l].id] = 0]
    /\ chain' = [chain EXCEPT !.stable = IF chain.table = "wo-receipts"
                                        THEN @ \ {req[l].id} ELSE @]
    /\ Answer(l, "submitted")
    /\ UNCHANGED <<requests, submitted, workers, registries>>

\* An enclave manager publishes its worker; nothing ever removes one, as
\* cleanup_worker has no caller.
AddWorker(i) ==
    /\ i \notin workers
    /\ workers' = workers \cup {i}
    /\ UNCHANGED <<requests, submitted, receipts, registries, req, chain, reply>>

RegNext ==
    \/ \E l \in Listeners :
        \/ BootList(l) \/ BootRemove(l) \/ BootPublish(l)
        \/ Undecodable(l) \/ \E r \in SdkRequests : Refuse(l, r)
        \/ WorkerLookUp(l) \/ WorkOrderReceiptLookUp(l)
        \/ WorkerLookUpNext(l) \/ WorkOrderReceiptLookUpNext(l)
        \/ ScanGet(l) \/ ScanDone(l) \/ CreateCheck(l) \/ CreateSet(l)
        \/ PurgeReceipt(l)
        \/ \E i \in Ids : \/ WorkerRetrieve(l, i) \/ WorkOrderReceiptRetrieve(l, i)
                          \/ WorkOrderReceiptUpdate(l, i)
                          \/ WorkOrderReceiptUpdateRetrieve(l, i) \/ PurgeRequest(l, i)
                          \/ \E h \in 1 .. MaxOrders : CreateRead(l, i, h)
    \/ \E i \in Ids : Submit(i) \/ AddWorker(i)

RegSpec == RegInit /\ [][RegNext]_regVars

-----------------------------------------------------------------------------

\* Every worker or receipt that meets the criteria and was in the table for the
\* whole chain of pages has been returned, whatever listeners create and purge
\* between the store operations of the lookups.
StableKeysReturned ==
    chain.pages > 0 /\ ~chain.open => chain.stable \cap Matching \subseteq Range(chain.got)

\* A chain of pages never returns an id twice and returns ids in key order, also
\* when receipts are purged and created again behind the client's tag.
ChainAscending ==
    \A j, k \in DOMAIN chain.got : j < k => chain.got[j] < chain.got[k]

\* Once every listener is up the registries table holds the listener's entry and
\* no leftover, though each of them empties the table as it boots.
RegistryPublished ==
    (\A l \in Listeners : req[l].op \notin {"down", "boot"}) => registries = {"regid"}
=============================================================================
