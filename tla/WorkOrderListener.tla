-------------------------- MODULE WorkOrderListener --------------------------
(***************************************************************************)
(* The Avalon listener: the asynchronous work order handler and the        *)
(* receipt-creation handler that one listener process serves over JSON-RPC.*)
(*                                                                         *)
(* A listener is single-threaded: it runs one handler at a time, and its   *)
(* steps interleave with those of the enclave managers and of the other    *)
(* listeners behind the load balancer at every store operation.  An action *)
(* is one store operation together with the local code up to the next one. *)
(* A handler ends by raising its JSON-RPC answer; Reply delivers it.       *)
(***************************************************************************)
EXTENDS WorkOrderStore

CONSTANTS
    Listeners,             \* listener processes sharing the store
    MaxWorkOrderCount,     \* max_work_order_count of the configuration
    ReceiptIds,            \* ids for which clients create a receipt
    MaxSubmits,            \* bound: submissions of one id by the clients
    MaxListenerRestarts    \* bound: listener restarts in a behaviour

ASSUME ListenerAssumption ==
    /\ Workers # {} /\ IsFiniteSet(Workers)
    /\ MaxWorkOrderCount \in Nat \ {0}
    /\ ReceiptIds \subseteq WoIds
    /\ MaxSubmits \in Nat
    /\ MaxListenerRestarts \in Nat

VARIABLES
    lpc,        \* where each listener is in its current handler
    lreq,       \* the request being handled
    lreply,     \* the answer about to be sent
    lids,       \* ids returned by lookup("wo-timestamps") still to be treated
    lscan,      \* store reads still to be made
    lfound,     \* ids those reads have returned, with the worker they belong to
    lvictim,    \* id being removed from the tables
    lstep,      \* which table it is removed from next
    woList,     \* workorder_list of each listener
    woCount,    \* workorder_count of each listener
    submits,    \* number of client submissions of each id
    lrestarts,  \* listener restarts so far
    accepted,   \* submissions answered with PENDING
    delivered   \* submissions whose result was handed to a client

scanVars == <<lids, lscan, lfound, lvictim, lstep>>
memVars == <<woList, woCount>>
clientVars == <<submits, accepted, delivered>>
listenerVars == <<lpc, lreq, lreply, scanVars, memVars, lrestarts, clientVars>>

NoRequest == [id |-> 0, worker |-> CHOOSE w \in Workers : TRUE, num |-> 0]

ListenerPCs ==
    {"boot", "boot_pool", "boot_read", "boot_next", "boot_reap",
     "idle", "purge_pool", "purge_read", "purge_select", "purge_unlist",
     "purge_remove", "check", "set_timestamp", "set_request", "schedule",
     "get_timestamp", "store_receipt", "reply"}

Replies == {"NONE", "SUBMITTED", "BUSY", "EXISTS", "NO_WORKER", "ERROR",
            "RESULT", "PENDING", "INVALID", "SUCCESS"}

ScanItems ==
    ({"wo-worker-scheduled", "wo-worker-processed", "worker-pool"} \X Workers)
        \cup ({"wo-worker-processing"} \X Managers)

\* Faults: a removal that forgets a table, or drops the timestamp first.
PurgeOrderForgetsTimestamp == <<"wo-requests", "wo-responses", "wo-receipts", "wo-receipts">>
PurgeOrderForgetsResponse == <<"wo-requests", "wo-receipts", "wo-receipts", "wo-timestamps">>
BootReapOrderReversed == <<"wo-timestamps", "wo-receipts", "wo-responses", "wo-requests">>

\* Tables a work order is removed from, in the order of the handlers.
BootReapOrder == <<"wo-requests", "wo-responses", "wo-receipts", "wo-timestamps">>
PurgeOrder == <<"wo-requests", "wo-responses", "wo-receipts", "wo-timestamps">>

ListenerTypeOK ==
    /\ lpc \in [Listeners -> ListenerPCs]
    /\ lreq \in [Listeners -> [id : WoIds \cup {0}, worker : Workers, num : Nat]]
    /\ lreply \in [Listeners -> Replies]
    /\ lids \in [Listeners -> SUBSET WoIds]
    /\ lscan \in [Listeners -> Seq(ScanItems)]
    /\ lfound \in [Listeners -> SUBSET (WoIds \X Workers)]
    /\ lvictim \in [Listeners -> WoIds \cup {0}]
    /\ lstep \in [Listeners -> 0..4]
    /\ woList \in [Listeners -> Seq(WoIds)]
    /\ woCount \in [Listeners -> Nat]
    /\ submits \in [WoIds -> 0..MaxSubmits]
    /\ lrestarts \in 0..MaxListenerRestarts
    /\ accepted \in SUBSET (WoIds \X Nat)
    /\ delivered \in SUBSET (WoIds \X Nat)

ListenerInit ==
    /\ lpc = [l \in Listeners |-> "boot"]
    /\ lreq = [l \in Listeners |-> NoRequest]
    /\ lreply = [l \in Listeners |-> "NONE"]
    /\ lids = [l \in Listeners |-> {}]
    /\ lscan = [l \in Listeners |-> <<>>]
    /\ lfound = [l \in Listeners |-> {}]
    /\ lvictim = [l \in Listeners |-> 0]
    /\ lstep = [l \in Listeners |-> 0]
    /\ woList = [l \in Listeners |-> <<>>]
    /\ woCount = [l \in Listeners |-> 0]
    /\ submits = [i \in WoIds |-> 0]
    /\ lrestarts = 0
    /\ accepted = {}
    /\ delivered = {}

-----------------------------------------------------------------------------
GoTo(l, label) == lpc' = [lpc EXCEPT ![l] = label]

\* The handler raises its answer; the dispatcher turns it into the reply.
Answer(l, kind) ==
    /\ GoTo(l, "reply")
    /\ lreply' = [lreply EXCEPT ![l] = kind]

\* The locals of a loop over the store go out of scope.
EndScan(l) ==
    /\ lids' = [lids EXCEPT ![l] = {}]
    /\ lscan' = [lscan EXCEPT ![l] = <<>>]
    /\ lfound' = [lfound EXCEPT ![l] = {}]
    /\ lvictim' = [lvictim EXCEPT ![l] = 0]
    /\ lstep' = [lstep EXCEPT ![l] = 0]

\* Faults: a capacity test that is one too late or one too early.
FullOffByOne(count) == count > MaxWorkOrderCount
FullTooEarly(count) == count + 1 >= MaxWorkOrderCount

\* (workorder_count + 1) > max_workorder_count
Full(count) == count + 1 > MaxWorkOrderCount

\* What one store read of a scan returns.
ReadIds(item) ==
    CASE item[1] = "wo-worker-scheduled" -> ToSet(woScheduled[item[2]]) \X {item[2]}
      [] item[1] = "wo-worker-processed" -> ToSet(woProcessed[item[2]]) \X {item[2]}
      [] item[1] = "wo-worker-processing" ->
             ({woProcessing[item[2]]} \ {0}) \X {WorkerOf[item[2]]}
      [] OTHER -> {}

\* A later read of an id overrides an earlier one, as in wo_worker_map.
Override(found, ids) == {f \in found : \A r \in ids : r[1] # f[1]} \cup ids

FoundIds(l) == {f[1] : f \in lfound[l]}

\* The reads the boot flow makes next once it has made this one.
BootFollow(item) ==
    CASE item[1] = "wo-worker-scheduled" ->
             <<<<"wo-worker-processed", item[2]>>, <<"worker-pool", item[2]>>>>
      [] item[1] = "worker-pool" ->
             [k \in 1..Len(workerPool[item[2]]) |->
                 <<"wo-worker-processing", workerPool[item[2]][k]>>]
      [] OTHER -> <<>>

\* lookup("worker-pool") starts a scan that reads a table for each worker.
LookupPool(l, table) ==
    \E ws \in SetToSeqs(CsvKeys(workerPool)) :
        lscan' = [lscan EXCEPT ![l] = [k \in 1..Len(ws) |-> <<table, ws[k]>>]]

-----------------------------------------------------------------------------
(* __work_order_handler_on_boot                                            *)

BootLookup(l) ==
    /\ lpc[l] = "boot"
    /\ GoTo(l, "boot_pool")
    /\ lids' = [lids EXCEPT ![l] = woTimestamps]
    /\ UNCHANGED <<storeVars, lreq, lreply, lscan, lfound, lvictim, lstep,
                   memVars, lrestarts, clientVars>>

BootLookupPool(l) ==
    /\ lpc[l] = "boot_pool"
    /\ LookupPool(l, "wo-worker-scheduled")
    /\ GoTo(l, IF CsvKeys(workerPool) = {} THEN "boot_next" ELSE "boot_read")
    /\ UNCHANGED <<storeVars, lreq, lreply, lids, lfound, lvictim, lstep,
                   memVars, lrestarts, clientVars>>

BootRead(l) ==
    LET item == Head(lscan[l])
        rest == BootFollow(item) \o Tail(lscan[l])
    IN  /\ lpc[l] = "boot_read"
        /\ lfound' = [lfound EXCEPT ![l] = Override(@, ReadIds(item))]
        /\ lscan' = [lscan EXCEPT ![l] = rest]
        /\ GoTo(l, IF rest = <<>> THEN "boot_next" ELSE "boot_read")
        /\ UNCHANGED <<storeVars, lreq, lreply, lids, lvictim, lstep,
                       memVars, lrestarts, clientVars>>

\* Fault: the boot flow counts a kept id but does not list it.
BootKeepUnlisted(l) ==
    /\ lpc[l] = "boot_next"
    /\ lids[l] # {}
    /\ FirstKey(lids[l]) \in FoundIds(l)
    /\ lids' = [lids EXCEPT ![l] = @ \ {FirstKey(@)}]
    /\ woCount' = [woCount EXCEPT ![l] = @ + 1]
    /\ UNCHANGED <<storeVars, lpc, lreq, lreply, lscan, lfound, lvictim, lstep,
                   woList, lrestarts, clientVars>>

\* An id found in one of the lists is kept and counted.
BootKeep(l) ==
    LET i == FirstKey(lids[l])
    IN  /\ lpc[l] = "boot_next"
        /\ lids[l] # {}
        /\ i \in FoundIds(l)
        /\ lids' = [lids EXCEPT ![l] = @ \ {i}]
        /\ woList' = [woList EXCEPT ![l] = Append(@, i)]
        /\ woCount' = [woCount EXCEPT ![l] = @ + 1]
        /\ UNCHANGED <<storeVars, lpc, lreq, lreply, lscan, lfound, lvictim, lstep,
                       lrestarts, clientVars>>

\* An id found in none of them is to be removed from all tables.
BootDiscard(l) ==
    LET i == FirstKey(lids[l])
    IN  /\ lpc[l] = "boot_next"
        /\ lids[l] # {}
        /\ i \notin FoundIds(l)
        /\ lids' = [lids EXCEPT ![l] = @ \ {i}]
        /\ lvictim' = [lvictim EXCEPT ![l] = i]
        /\ lstep' = [lstep EXCEPT ![l] = 1]
        /\ GoTo(l, "boot_reap")
        /\ UNCHANGED <<storeVars, lreq, lreply, lscan, lfound, memVars,
                       lrestarts, clientVars>>

BootReap(l) ==
    /\ lpc[l] = "boot_reap"
    /\ RemoveRecord(BootReapOrder[lstep[l]], lvictim[l])
    /\ IF lstep[l] < 4
       THEN /\ lstep' = [lstep EXCEPT ![l] = @ + 1]
            /\ UNCHANGED <<lpc, lvictim>>
       ELSE /\ lstep' = [lstep EXCEPT ![l] = 0]
            /\ lvictim' = [lvictim EXCEPT ![l] = 0]
            /\ GoTo(l, "boot_next")
    /\ UNCHANGED <<queueVars, registryVars, lreq, lreply, lids, lscan, lfound,
                   memVars, lrestarts, clientVars>>

BootDone(l) ==
    /\ lpc[l] = "boot_next"
    /\ lids[l] = {}
    /\ GoTo(l, "idle")
    /\ EndScan(l)
    /\ UNCHANGED <<storeVars, lreq, lreply, memVars, lrestarts, clientVars>>

-----------------------------------------------------------------------------
(* WorkOrderSubmit                                                         *)

\* A well-formed request arrives; requests that fail the schema or signature
\* format checks change nothing.
SubmitReceive(l, i, w) ==
    /\ lpc[l] = "idle"
    /\ submits[i] < MaxSubmits
    /\ submits' = [submits EXCEPT ![i] = @ + 1]
    /\ lreq' = [lreq EXCEPT ![l] = [id |-> i, worker |-> w, num |-> submits[i] + 1]]
    /\ IF w \notin workers
       THEN Answer(l, "NO_WORKER")
       ELSE /\ GoTo(l, IF Full(woCount[l]) THEN "purge_pool" ELSE "check")
            /\ UNCHANGED lreply
    /\ UNCHANGED <<storeVars, scanVars, memVars, lrestarts, accepted, delivered>>

\* Fault: the purge scans the scheduled work orders.
PurgeScheduled(l) ==
    /\ lpc[l] = "purge_pool"
    /\ LookupPool(l, "wo-worker-scheduled")
    /\ GoTo(l, IF CsvKeys(workerPool) = {} THEN "purge_select" ELSE "purge_read")
    /\ UNCHANGED <<storeVars, lreq, lreply, lids, lfound, lvictim, lstep,
                   memVars, lrestarts, clientVars>>

PurgeLookupPool(l) ==
    /\ lpc[l] = "purge_pool"
    /\ LookupPool(l, "wo-worker-processed")
    /\ GoTo(l, IF CsvKeys(workerPool) = {} THEN "purge_select" ELSE "purge_read")
    /\ UNCHANGED <<storeVars, lreq, lreply, lids, lfound, lvictim, lstep,
                   memVars, lrestarts, clientVars>>

PurgeRead(l) ==
    /\ lpc[l] = "purge_read"
    /\ lfound' = [lfound EXCEPT ![l] = Override(@, ReadIds(Head(lscan[l])))]
    /\ lscan' = [lscan EXCEPT ![l] = Tail(@)]
    /\ GoTo(l, IF Tail(lscan[l]) = <<>> THEN "purge_select" ELSE "purge_read")
    /\ UNCHANGED <<storeVars, lreq, lreply, lids, lvictim, lstep,
                   memVars, lrestarts, clientVars>>

\* The first key of wo-timestamps that was read as processed is purged; if
\* there is none the handler is busy.
PurgeCandidates(l) == woTimestamps \cap FoundIds(l)

PurgeSelect(l) ==
    /\ lpc[l] = "purge_select"
    /\ IF PurgeCandidates(l) = {}
       THEN Answer(l, "BUSY") /\ EndScan(l)
       ELSE /\ lvictim' = [lvictim EXCEPT ![l] = FirstKey(PurgeCandidates(l))]
            /\ GoTo(l, "purge_unlist")
            /\ UNCHANGED <<lreply, lids, lscan, lfound, lstep>>
    /\ UNCHANGED <<storeVars, lreq, memVars, lrestarts, clientVars>>

PurgeUnlist(l) ==
    /\ lpc[l] = "purge_unlist"
    /\ \E w \in Workers :
           /\ <<lvictim[l], w>> \in lfound[l]
           /\ woProcessed' = CsvSearchDelete(woProcessed, w, lvictim[l])
    /\ lstep' = [lstep EXCEPT ![l] = 1]
    /\ GoTo(l, "purge_remove")
    /\ UNCHANGED <<orderVars, woScheduled, woProcessing, registryVars, lreq, lreply,
                   lids, lscan, lfound, lvictim, memVars, lrestarts, clientVars>>

\* Faults: a removal loop that runs one too far, or never moves on.
PurgeRemoveTooFar(l) ==
    /\ lpc[l] = "purge_remove"
    /\ RemoveRecord(PurgeOrder[lstep[l]], lvictim[l])
    /\ lstep' = [lstep EXCEPT ![l] = @ + 1]
    /\ UNCHANGED <<queueVars, registryVars, lpc, lreq, lreply, lids, lscan, lfound,
                   lvictim, memVars, lrestarts, clientVars>>

PurgeRemoveStuck(l) ==
    /\ lpc[l] = "purge_remove"
    /\ lstep[l] < 4
    /\ RemoveRecord(PurgeOrder[lstep[l]], lvictim[l])
    /\ UNCHANGED <<queueVars, registryVars, lpc, lreq, lreply, lids, lscan, lfound,
                   lvictim, lstep, memVars, lrestarts, clientVars>>

PurgeRemove(l) ==
    /\ lpc[l] = "purge_remove"
    /\ lstep[l] < 4
    /\ RemoveRecord(PurgeOrder[lstep[l]], lvictim[l])
    /\ lstep' = [lstep EXCEPT ![l] = @ + 1]
    /\ UNCHANGED <<queueVars, registryVars, lpc, lreq, lreply, lids, lscan, lfound,
                   lvictim, memVars, lrestarts, clientVars>>

\* The last removal; then workorder_list.remove, which raises ValueError if
\* this listener does not hold the id, and the second capacity check.
PurgeFinish(l) ==
    /\ lpc[l] = "purge_remove"
    /\ lstep[l] = 4
    /\ RemoveRecord(PurgeOrder[lstep[l]], lvictim[l])
    /\ IF lvictim[l] \in ToSet(woList[l])
       THEN /\ woList' = [woList EXCEPT ![l] = RemoveFirst(@, lvictim[l])]
            /\ woCount' = [woCount EXCEPT ![l] = @ - 1]
            /\ IF Full(woCount[l] - 1)
               THEN Answer(l, "BUSY")
               ELSE GoTo(l, "check") /\ UNCHANGED lreply
       ELSE Answer(l, "ERROR") /\ UNCHANGED memVars
    /\ EndScan(l)
    /\ UNCHANGED <<queueVars, registryVars, lreq, lrestarts, clientVars>>

\* Fault: a work order is created whether or not its id exists.
SubmitUnchecked(l) ==
    /\ lpc[l] = "check"
    /\ GoTo(l, "set_timestamp")
    /\ UNCHANGED <<storeVars, lreq, lreply, scanVars, memVars, lrestarts, clientVars>>

SubmitCheck(l) ==
    /\ lpc[l] = "check"
    /\ IF lreq[l].id \in woTimestamps
       THEN Answer(l, "EXISTS")
       ELSE GoTo(l, "set_timestamp") /\ UNCHANGED lreply
    /\ UNCHANGED <<storeVars, lreq, scanVars, memVars, lrestarts, clientVars>>

SubmitTimestamp(l) ==
    /\ lpc[l] = "set_timestamp"
    /\ woTimestamps' = woTimestamps \cup {lreq[l].id}
    /\ GoTo(l, "set_request")
    /\ UNCHANGED <<woRequests, woResponses, woReceipts, queueVars, registryVars,
                   lreq, lreply, scanVars, memVars, lrestarts, clientVars>>

SubmitRequest(l) ==
    /\ lpc[l] = "set_request"
    /\ woRequests' = [woRequests EXCEPT ![lreq[l].id] = lreq[l].num]
    /\ GoTo(l, "schedule")
    /\ UNCHANGED <<woTimestamps, woResponses, woReceipts, queueVars, registryVars,
                   lreq, lreply, scanVars, memVars, lrestarts, clientVars>>

\* Fault: an accepted work order is counted but not listed.
SubmitScheduleUnlisted(l) ==
    /\ lpc[l] = "schedule"
    /\ woScheduled' = CsvAppend(woScheduled, lreq[l].worker, lreq[l].id)
    /\ woCount' = [woCount EXCEPT ![l] = @ + 1]
    /\ Answer(l, "SUBMITTED")
    /\ UNCHANGED <<orderVars, woProcessing, woProcessed, registryVars, lreq,
                   scanVars, woList, lrestarts, clientVars>>

SubmitSchedule(l) ==
    /\ lpc[l] = "schedule"
    /\ woScheduled' = CsvAppend(woScheduled, lreq[l].worker, lreq[l].id)
    /\ woList' = [woList EXCEPT ![l] = Append(@, lreq[l].id)]
    /\ woCount' = [woCount EXCEPT ![l] = @ + 1]
    /\ Answer(l, "SUBMITTED")
    /\ UNCHANGED <<orderVars, woProcessing, woProcessed, registryVars, lreq,
                   scanVars, lrestarts, clientVars>>

-----------------------------------------------------------------------------
(* WorkOrderGetResult                                                      *)

GetResult(l, i) ==
    /\ lpc[l] = "idle"
    /\ lreq' = [lreq EXCEPT ![l] = [NoRequest EXCEPT !.id = i, !.num = woResponses[i]]]
    /\ IF woResponses[i] # 0
       THEN Answer(l, "RESULT")
       ELSE GoTo(l, "get_timestamp") /\ UNCHANGED lreply
    /\ UNCHANGED <<storeVars, scanVars, memVars, lrestarts, clientVars>>

GetResultTimestamp(l) ==
    /\ lpc[l] = "get_timestamp"
    /\ Answer(l, IF lreq[l].id \in woTimestamps THEN "PENDING" ELSE "INVALID")
    /\ UNCHANGED <<storeVars, lreq, scanVars, memVars, lrestarts, clientVars>>

-----------------------------------------------------------------------------
(* WorkOrderReceiptCreate, for receipts that pass the validation.  The     *)
(* existence check and the write are one action: a write between them is a *)
(* receipt of the same id, which leaves the same entry.                    *)

ReceiptCreate(l, i) ==
    /\ lpc[l] = "idle"
    /\ i \in ReceiptIds
    /\ lreq' = [lreq EXCEPT ![l] = [NoRequest EXCEPT !.id = i]]
    /\ IF woRequests[i] = 0
       THEN Answer(l, "INVALID")
       ELSE GoTo(l, "store_receipt") /\ UNCHANGED lreply
    /\ UNCHANGED <<storeVars, scanVars, memVars, lrestarts, clientVars>>

ReceiptStore(l) ==
    /\ lpc[l] = "store_receipt"
    /\ woReceipts' = woReceipts \cup {lreq[l].id}
    /\ Answer(l, IF lreq[l].id \in woReceipts THEN "EXISTS" ELSE "SUCCESS")
    /\ UNCHANGED <<woTimestamps, woRequests, woResponses, queueVars, registryVars,
                   lreq, scanVars, memVars, lrestarts, clientVars>>

-----------------------------------------------------------------------------
Reply(l) ==
    LET submission == <<lreq[l].id, lreq[l].num>>
    IN  /\ lpc[l] = "reply"
        /\ accepted' = IF lreply[l] = "SUBMITTED"
                       THEN accepted \cup {submission} ELSE accepted
        /\ delivered' = IF lreply[l] = "RESULT"
                        THEN delivered \cup {submission} ELSE delivered
        /\ GoTo(l, "idle")
        /\ lreply' = [lreply EXCEPT ![l] = "NONE"]
        /\ lreq' = [lreq EXCEPT ![l] = NoRequest]
        /\ UNCHANGED <<storeVars, scanVars, memVars, lrestarts, submits>>

\* The process dies at any point and is started again: it loses its memory,
\* the store keeps its tables, and the boot flow runs.
ListenerRestart(l) ==
    /\ lrestarts < MaxListenerRestarts
    /\ lrestarts' = lrestarts + 1
    /\ GoTo(l, "boot")
    /\ lreq' = [lreq EXCEPT ![l] = NoRequest]
    /\ lreply' = [lreply EXCEPT ![l] = "NONE"]
    /\ EndScan(l)
    /\ woList' = [woList EXCEPT ![l] = <<>>]
    /\ woCount' = [woCount EXCEPT ![l] = 0]
    /\ UNCHANGED <<storeVars, clientVars>>

\* The steps a running listener takes on its own, and the ones that start
\* because a client sends a request.
ListenerStep(l) ==
    \/ BootLookup(l) \/ BootLookupPool(l) \/ BootRead(l) \/ BootKeep(l)
    \/ BootDiscard(l) \/ BootReap(l) \/ BootDone(l)
    \/ PurgeLookupPool(l) \/ PurgeRead(l) \/ PurgeSelect(l) \/ PurgeUnlist(l)
    \/ PurgeRemove(l) \/ PurgeFinish(l)
    \/ SubmitCheck(l) \/ SubmitTimestamp(l) \/ SubmitRequest(l) \/ SubmitSchedule(l)
    \/ GetResultTimestamp(l) \/ ReceiptStore(l) \/ Reply(l)

ClientRequest(l) ==
    \E i \in WoIds :
        \/ \E w \in Workers : SubmitReceive(l, i, w)
        \/ GetResult(l, i)
        \/ ReceiptCreate(l, i)

-----------------------------------------------------------------------------
\* What the locals of a listener's handler hold where they are used.
ListenerFormed(l) ==
    /\ lpc[l] \in {"boot_read", "purge_read"} => lscan[l] # <<>>
    /\ lpc[l] \in {"boot_reap", "purge_unlist", "purge_remove"} => lvictim[l] \in WoIds
    /\ lpc[l] \in {"boot_reap", "purge_remove"} => lstep[l] \in 1..4
    /\ lpc[l] \in {"purge_pool", "purge_read", "purge_select", "purge_unlist",
                   "purge_remove", "check", "set_timestamp", "set_request",
                   "schedule", "get_timestamp", "store_receipt", "reply"} =>
           lreq[l].id \in WoIds
    /\ woCount[l] = Len(woList[l])
=============================================================================
