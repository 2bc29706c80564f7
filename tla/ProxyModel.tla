----------------------------- MODULE ProxyModel -----------------------------
(***************************************************************************)
(* The proxy model: clients put work orders on a blockchain, and a         *)
(* connector carries them to the listener and the results back, while it   *)
(* copies the workers of the listener's registry to the chain.             *)
(*                                                                         *)
(* The connector is one thread with two coroutines, sync_workers and       *)
(* sync_work_orders, started in either order (asyncio.gather goes through  *)
(* a set in the Python of the default image).  On Fabric, each call to the *)
(* chain runs the event loop, nested by nest_asyncio, and returns when the *)
(* loop is back from what it ran meanwhile: a round waits for the handler  *)
(* of an event that came during one of its calls, and a handler for the    *)
(* round that fell due during its own.  Listening for events is such a     *)
(* call, and does not return.  Calls to the listener block the thread.     *)
(***************************************************************************)
EXTENDS Ledger, FiniteSets

CONSTANTS
    Waiting,    \* the orders whose clients wait for the answer; the others leave
    MaxWaiting  \* bound: transactions that a round may find uncommitted

VARIABLES
    kv,         \* worker id -> version of its details in the store, 0 if absent
    avalon,     \* work order id -> what listener and workers have made of it
    nkv,        \* changes of workers and restarts of managers so far
    sync,       \* the coroutine sync_workers; over: above a handler's call
    first,      \* the coroutine that was started first
    active,     \* _active_worker_ids
    dmap,       \* _worker_details_map, 0 for no entry
    smap,       \* _worker_status_map, "none" for no entry
    events,     \* the coroutine sync_work_orders: off, on (listening), over
    inbox,      \* work order events the connector has not handled
    hand,       \* the event being handled
    ncrash,
    overtaken,  \* a round began before the last one's transactions were committed
    client      \* work order id -> its client

avalonVars == <<kv, avalon, nkv>>
mapVars == <<dmap, smap>>
eventVars == <<first, events, inbox, hand>>
faultVars == <<ncrash, overtaken>>
connectorVars == <<sync, active, mapVars, eventVars, faultVars>>
proxyVars == <<ledgerVars, avalonVars, connectorVars, client>>

Idle == [pc |-> "idle"]
Start == [pc |-> "lookup", seen |-> {}, todo |-> {}, cur |-> {}, over |-> FALSE]
Coroutines == {"workers", "orders"}
NoDetails == [w \in Workers |-> 0]
NoStatus == [w \in Workers |-> "none"]

\* The connector starts with empty maps beside an empty chain.
ProxyInit ==
    /\ LedgerInit
    /\ kv = [w \in Workers |-> 1] /\ nkv = 0
    /\ avalon = [o \in Orders |-> "none"]
    /\ sync = Start /\ active = {} /\ dmap = NoDetails /\ smap = NoStatus
    /\ first \in Coroutines /\ events = "off" /\ inbox = <<>> /\ hand = Idle
    /\ ncrash = 0 /\ overtaken = FALSE
    /\ client = [o \in Orders |-> [pc |-> "start"]]

-----------------------------------------------------------------------------
(* sync_workers                                                            *)

\* The coroutine has the thread: no handler is above it.
SyncRuns == hand = Idle \/ sync.over

\* The records, the transactions and the events of the chain.
records == <<chain, wreg, oreg, txs, newest>>

\* Worker transactions wait to be committed.
Unsettled(ts) == \E i \in DOMAIN ts : ts[i].key[1] = "worker"

\* An exception ends the round; the loop starts the next one without a sleep.
Abort ==
    /\ sync' = [Start EXCEPT !.over = sync.over]
    /\ overtaken' = (overtaken \/ Unsettled(txs'))
    /\ UNCHANGED mapVars

\* The loop over the store's workers is followed by the one over stale workers,
\* and the round is over.  The Ethereum connector then starts its event listener
\* inside the running event loop, which raises and ends the process.
Settle(s) ==
    LET t == IF s.pc = "each" /\ s.todo = {}
             THEN [s EXCEPT !.pc = "stale", !.todo = s.seen \ active] ELSE s
    IN IF t.pc = "stale" /\ t.todo = {}
       THEN [Start EXCEPT !.pc = IF chain = "fabric" THEN "sleep" ELSE "exited"] ELSE t

\* The round goes on with the next worker.
NextWorker(w) ==
    /\ sync' = Settle([sync EXCEPT !.pc = IF @ = "status" THEN "each" ELSE @,
                                   !.todo = @ \ {w}, !.cur = {}])
    /\ UNCHANGED overtaken

\* lookup_workers_in_kv_storage: an error answer reads as no workers.  Without an
\* answer the round starts again at once.
SyncLookup ==
    /\ sync.pc = "lookup" /\ SyncRuns
    /\ \/ active' = {w \in Workers : kv[w] # 0} /\ UNCHANGED nfaults
       \/ active' = {} /\ Fault
    /\ sync' = [sync EXCEPT !.pc = "chain"]
    /\ UNCHANGED <<records, avalonVars, mapVars, eventVars, faultVars, client>>

\* Fault: the call is beneath the listening coroutine in either order.
BlockedAlways == chain = "fabric" /\ events # "over"

\* When sync_workers was started first, its first call to the chain runs
\* sync_work_orders, and is beneath it as long as that is listening.
Blocked == chain = "fabric" /\ first = "workers" /\ events # "over"

\* lookup_workers_onchain: a failing query raises.
SyncChain ==
    /\ sync.pc = "chain" /\ SyncRuns /\ ~ Blocked
    /\ \/ /\ sync' = Settle([sync EXCEPT !.pc = "each", !.todo = active,
                                          !.seen = worker_lookup])
          /\ UNCHANGED <<ledgerVars, overtaken, mapVars>>
       \/ Fault /\ UNCHANGED records /\ Abort
    /\ UNCHANGED <<avalonVars, active, eventVars, ncrash, client>>

\* Fault: the details are recorded although the chain refused them.
RecordedAnyway(w, r, then) ==
    CASE r = "SUCCESS" -> dmap' = [dmap EXCEPT ![w] = kv[w]] /\ then
      [] r = "ERROR" -> /\ dmap' = [dmap EXCEPT ![w] = kv[w]]
                        /\ NextWorker(w) /\ UNCHANGED smap
      [] r = "raised" -> Abort

\* What the round makes of a registration or an update of w.
Recorded(w, r, then) ==
    CASE r = "SUCCESS" -> dmap' = [dmap EXCEPT ![w] = kv[w]] /\ then
      [] r = "ERROR" -> NextWorker(w) /\ UNCHANGED mapVars
      [] r = "raised" -> Abort

\* A worker of the store: new on the chain, changed since it was recorded, or
\* neither.  One that cannot be retrieved, or not any more, raises.
SyncWorker(w) ==
    /\ sync.pc = "each" /\ SyncRuns /\ w \in sync.todo
    /\ \/ kv[w] = 0 /\ UNCHANGED ledgerVars /\ Abort
       \/ Fault /\ UNCHANGED records /\ Abort
       \/ /\ kv[w] # 0 /\ w \in sync.seen /\ dmap[w] = kv[w]
          /\ NextWorker(w) /\ UNCHANGED <<ledgerVars, mapVars>>
       \/ /\ kv[w] # 0 /\ w \in sync.seen /\ dmap[w] # kv[w]
          /\ \E r \in Outcomes :
                /\ Invoke(WorkerTx("update", w, kv[w]), r)
                /\ Recorded(w, r, /\ sync' = [sync EXCEPT !.pc = "status", !.cur = {w}]
                                  /\ UNCHANGED <<smap, overtaken>>)
       \/ /\ kv[w] # 0 /\ w \notin sync.seen
          /\ \E r \in Outcomes :
                /\ Invoke(WorkerTx("register", w, kv[w]), r)
                /\ Recorded(w, r, smap' = [smap EXCEPT ![w] = "active"] /\ NextWorker(w))
    /\ UNCHANGED <<avalonVars, active, eventVars, ncrash, client>>

\* Whatever was recorded, an updated worker is set active; an error is logged
\* with a name that is not defined, which raises.
SyncStatus ==
    /\ sync.pc = "status" /\ SyncRuns
    /\ \E w \in sync.cur, r \in Outcomes :
        /\ Invoke(WorkerTx("status", w, "active"), r)
        /\ IF r = "SUCCESS"
           THEN smap' = [smap EXCEPT ![w] = "active"] /\ NextWorker(w) /\ UNCHANGED dmap
           ELSE Abort
    /\ UNCHANGED <<avalonVars, active, eventVars, ncrash, client>>

\* Workers on the chain that the lookup did not return.  A recorded status is an
\* enumeration member and never equals the number it is compared with, so only
\* an unrecorded worker is skipped when the chain has it decommissioned.  The
\* query for an unrecorded status raises when it fails.
SyncStale(w) ==
    /\ sync.pc = "stale" /\ SyncRuns /\ w \in sync.todo
    /\ \/ smap[w] = "none" /\ Fault /\ UNCHANGED records /\ Abort
       \/ /\ smap[w] = "none" /\ worker_retrieve(w).status = "decommissioned"
          /\ NextWorker(w) /\ UNCHANGED <<ledgerVars, mapVars>>
       \/ /\ smap[w] # "none" \/ worker_retrieve(w).status # "decommissioned"
          /\ \E r \in Outcomes :
                /\ Invoke(WorkerTx("status", w, "decommissioned"), r)
                /\ CASE r = "SUCCESS" -> /\ smap' = [smap EXCEPT ![w] = "decommissioned"]
                                         /\ NextWorker(w) /\ UNCHANGED dmap
                     [] r = "ERROR" -> NextWorker(w) /\ UNCHANGED mapVars
                     [] r = "raised" -> Abort
    /\ UNCHANGED <<avalonVars, active, eventVars, ncrash, client>>

\* Thirty seconds later, whether the round's transactions are committed or not
\* (bounded: no more than MaxWaiting are not, and only once one of a worker's).
\* A handler that waits for the chain runs the event loop, and with it the round.
SyncWake ==
    /\ sync.pc = "sleep" /\ (hand = Idle \/ hand.pc = "complete")
    /\ Len(txs) <= MaxWaiting /\ ~ (overtaken /\ Unsettled(txs))
    /\ sync' = [Start EXCEPT !.over = (hand # Idle)]
    /\ overtaken' = (overtaken \/ Unsettled(txs))
    /\ UNCHANGED <<ledgerVars, avalonVars, active, mapVars, eventVars, ncrash, client>>

SyncNext ==
    \/ SyncLookup \/ SyncChain \/ SyncStatus \/ SyncWake
    \/ \E w \in Workers : SyncWorker(w) \/ SyncStale(w)

\* The connector process ends, killed or because the discovery that precedes the
\* subscription raises, and is started again.
Crash ==
    /\ Fault /\ ncrash' = ncrash + 1
    /\ sync' = Start /\ active' = {} /\ dmap' = NoDetails /\ smap' = NoStatus
    /\ first' \in Coroutines /\ events' = "off" /\ inbox' = <<>> /\ hand' = Idle
    /\ overtaken' = (overtaken \/ Unsettled(txs))
    /\ UNCHANGED <<records, avalonVars, client>>

-----------------------------------------------------------------------------
(* sync_work_orders and the handler of its events                          *)

\* start_event_handling connects to the peer from the newest block on.  Started
\* second, the coroutine runs in the first call of sync_workers to the chain;
\* started first, it waits for discovery, which runs sync_workers, and goes on
\* when that sleeps.
Subscribe ==
    /\ chain = "fabric" /\ events = "off"
    /\ sync.pc = IF first = "workers" THEN "chain" ELSE "sleep"
    /\ events' = "on"
    /\ inbox' = IF newest.name = "submitted" THEN <<newest>> ELSE <<>>
    /\ UNCHANGED <<ledgerVars, avalonVars, sync, active, mapVars, first, hand, faultVars,
                   client>>

\* The stream of events ends: the coroutine is done, and nobody starts it again.
Disconnect ==
    /\ events = "on" /\ hand = Idle /\ Fault
    /\ events' = "over" /\ inbox' = <<>>
    /\ UNCHANGED <<records, avalonVars, sync, active, mapVars, first, hand, faultVars,
                   client>>

\* Fault: the event stays at the head of the queue.
DeliverAgain ==
    /\ hand = Idle /\ inbox # <<>> /\ sync.pc # "lookup"
    /\ LET e == Head(inbox)
       IN hand' = IF e.worker \in active
                  THEN [pc |-> "submit", id |-> e.id, worker |-> e.worker] ELSE Idle
    /\ inbox' = IF Len(inbox) > 1 THEN Tail(inbox) ELSE inbox
    /\ UNCHANGED <<ledgerVars, avalonVars, sync, active, mapVars, first, events,
                   faultVars, client>>

\* work_order_submitted_event_handler: the order of a worker that the last
\* lookup did not return is dropped.
Deliver ==
    /\ hand = Idle /\ inbox # <<>> /\ sync.pc # "lookup"
    /\ LET e == Head(inbox)
       IN hand' = IF e.worker \in active
                  THEN [pc |-> "submit", id |-> e.id, worker |-> e.worker] ELSE Idle
    /\ inbox' = Tail(inbox)
    /\ UNCHANGED <<ledgerVars, avalonVars, sync, active, mapVars, first, events,
                   faultVars, client>>

Answer(resp) == hand' = [pc |-> "complete", id |-> hand.id, resp |-> resp]

\* A call to the listener fails: its error is taken for the result, or there is no
\* answer and the exception is logged.
Unanswered == Answer("error") \/ hand' = Idle

\* The listener has no such id: it never had, refused it, or a manager removed it.
Unknown(o) == avalon[o] \in {"none", "refused", "gone"}

SetAvalon(o, a) == avalon' = [avalon EXCEPT ![o] = a]

\* WorkOrderSubmit accepts an id the listener has not, for a worker it has.  An
\* unknown worker is refused, any order is while the store is full, and so is an id
\* that exists.
Accepts == Unknown(hand.id) /\ kv[hand.worker] # 0 /\ SetAvalon(hand.id, "pending")
Refuses == IF Unknown(hand.id) THEN SetAvalon(hand.id, "refused") ELSE UNCHANGED avalon

\* Fault: an accepted order is not polled for.
SubmitOnly ==
    /\ hand.pc = "submit"
    /\ \/ Accepts /\ hand' = Idle /\ UNCHANGED nfaults
       \/ Refuses /\ Answer("error") /\ UNCHANGED nfaults
       \/ Fault /\ Unanswered /\ UNCHANGED avalon
    /\ UNCHANGED <<records, kv, nkv, sync, active, mapVars, first, events, inbox,
                   faultVars, client>>

\* submit_work_order_and_get_result: an accepted order is polled for; any other
\* answer is the result.  The order of a call that failed may have been accepted.
HandSubmit ==
    /\ hand.pc = "submit"
    /\ \/ Accepts /\ hand' = [pc |-> "poll", id |-> hand.id] /\ UNCHANGED nfaults
       \/ Refuses /\ Answer("error") /\ UNCHANGED nfaults
       \/ Fault /\ Unanswered /\ (UNCHANGED avalon \/ Accepts)
    /\ UNCHANGED <<records, kv, nkv, sync, active, mapVars, first, events, inbox,
                   faultVars, client>>

\* Fault: the first answer to the poll is taken for the result.
PollOnce ==
    /\ hand.pc = "poll"
    /\ \/ avalon[hand.id] = "done" /\ Answer("result") /\ UNCHANGED nfaults
       \/ avalon[hand.id] # "done" /\ Answer("error") /\ UNCHANGED nfaults
       \/ Fault /\ Unanswered
    /\ UNCHANGED <<records, avalonVars, sync, active, mapVars, first, events,
                   inbox, faultVars, client>>

\* work_order_get_result polls until the answer is not pending: the result, the
\* error of the enclave, or that the id is not there any more.
HandPoll ==
    /\ hand.pc = "poll"
    /\ \/ avalon[hand.id] = "done" /\ Answer("result") /\ UNCHANGED nfaults
       \/ avalon[hand.id] \in {"failed", "gone"} /\ Answer("error") /\ UNCHANGED nfaults
       \/ Fault /\ Unanswered
    /\ UNCHANGED <<records, avalonVars, sync, active, mapVars, first, events,
                   inbox, faultVars, client>>

\* add_work_order_result_to_chain: the outcome is only logged.
HandComplete ==
    /\ hand.pc = "complete" /\ ~ sync.over
    /\ \E r \in Outcomes : FabricInvoke(workOrderComplete(hand.id, hand.resp), r)
    /\ hand' = Idle
    /\ UNCHANGED <<avalonVars, sync, active, mapVars, first, events, inbox, faultVars,
                   client>>

HandStep == Subscribe \/ Deliver \/ HandSubmit \/ HandPoll \/ HandComplete
HandNext == HandStep \/ Disconnect

-----------------------------------------------------------------------------
(* Clients                                                                 *)

Finish(o, resp) == client' = [client EXCEPT ![o] = [pc |-> "end", resp |-> resp]]

\* get_worker_details: the client gives up unless the chain has the worker active.
ClientStart(o) ==
    /\ client[o].pc = "start"
    /\ \E w \in Workers :
        IF worker_retrieve(w).status = "active"
        THEN client' = [client EXCEPT ![o] = [pc |-> "submit", worker |-> w]]
        ELSE Finish(o, "failed")
    /\ UNCHANGED ledgerVars

ClientSubmit(o) ==
    /\ client[o].pc = "submit"
    /\ \E r \in Outcomes :
        /\ Invoke(workOrderSubmit(o, client[o].worker), r)
        /\ IF r = "SUCCESS" /\ o \in Waiting
           THEN client' = [client EXCEPT ![o] = [pc |-> "query"]]
           ELSE Finish(o, "failed")

Listen(o) == client' = [client EXCEPT ![o] = [pc |-> "listen"]]

\* workOrderGet, before an event is waited for.  The record of an order without a
\* response is taken for the answer, and its empty response cannot be parsed.  A
\* query that fails reads as no record.
FabricQuery(o) ==
    /\ chain = "fabric" /\ client[o].pc = "query"
    /\ \/ /\ CASE oreg[o].resp # "none" -> Finish(o, oreg[o].resp)
               [] oreg[o].status = "submitted" -> Finish(o, "failed")
               [] OTHER -> Listen(o)
          /\ UNCHANGED ledgerVars
       \/ Fault /\ Listen(o) /\ UNCHANGED records

\* An order without a response is listened for; a query that fails is final.
EthereumQuery(o) ==
    /\ chain = "ethereum" /\ client[o].pc = "query"
    /\ \/ Listen(o) /\ UNCHANGED ledgerVars
       \/ Fault /\ Finish(o, "failed") /\ UNCHANGED records

\* Fault: the handler takes the event of any order.
ListenForAny(o) ==
    /\ chain = "fabric" /\ client[o].pc = "listen"
    /\ client' = [client EXCEPT ![o] =
                    [pc |-> "wait",
                     mail |-> IF newest.name = "completed" THEN newest.resp ELSE "none"]]
    /\ UNCHANGED ledgerVars

\* The client connects for workOrderCompleted events from the newest block on.
FabricListen(o) ==
    /\ chain = "fabric" /\ client[o].pc = "listen"
    /\ client' = [client EXCEPT ![o] =
                    [pc |-> "wait",
                     mail |-> IF newest.name = "completed" /\ newest.id = o
                              THEN newest.resp ELSE "none"]]
    /\ UNCHANGED ledgerVars

\* The filter polls for events that no connector causes.
EthereumListen(o) ==
    /\ chain = "ethereum" /\ client[o].pc = "listen"
    /\ client' = [client EXCEPT ![o] = [pc |-> "wait", mail |-> "none"]]
    /\ UNCHANGED ledgerVars

\* A result is recognized by its id; an error without data is not.
ClientEvent(o) ==
    /\ client[o].pc = "wait" /\ client[o].mail # "none"
    /\ \/ Finish(o, client[o].mail)
       \/ /\ client[o].mail = "error"
          /\ client' = [client EXCEPT ![o].mail = "none"]
    /\ UNCHANGED ledgerVars

ClientTimeout(o) ==
    /\ client[o].pc = "wait"
    /\ Finish(o, "failed")
    /\ UNCHANGED ledgerVars

ClientNext ==
    /\ \E o \in Orders :
        \/ ClientStart(o) \/ ClientSubmit(o) \/ ClientEvent(o) \/ ClientTimeout(o)
        \/ FabricQuery(o) \/ EthereumQuery(o) \/ FabricListen(o) \/ EthereumListen(o)
    /\ UNCHANGED <<avalonVars, connectorVars>>

-----------------------------------------------------------------------------
(* The chain and the listener                                              *)

\* An event goes to the connector or to the client that waits for it.
Publish(e) ==
    /\ inbox' = IF e.name = "submitted" /\ events = "on" THEN Append(inbox, e) ELSE inbox
    /\ client' = IF e.name = "completed" /\ client[e.id].pc = "wait"
                 THEN [client EXCEPT ![e.id].mail = e.resp] ELSE client

ChainNext ==
    /\ (FabricCommit /\ Publish(newest')) \/ (EthereumMine /\ UNCHANGED <<inbox, client>>)
    /\ UNCHANGED <<avalonVars, sync, active, mapVars, first, events, hand, faultVars>>

\* A worker answers an order with a result or an error.
Process ==
    /\ \E o \in Orders, a \in {"done", "failed"} : avalon[o] = "pending" /\ SetAvalon(o, a)
    /\ UNCHANGED <<ledgerVars, kv, nkv, connectorVars, client>>

\* The entry of a worker is removed from the store.
RemoveWorker(w) ==
    /\ Fault /\ nkv' = nkv + 1
    /\ kv[w] # 0 /\ kv' = [kv EXCEPT ![w] = 0]
    /\ UNCHANGED <<records, avalon, connectorVars, client>>

OrdersOf(w, states) == {o \in Orders : oreg[o].worker = w /\ avalon[o] \in states}

\* The manager of a worker is started again.  It publishes the worker, with new keys
\* or the old ones, and removes what has been processed; the order it held when it
\* ended stays pending for ever.
RestartManager(w) ==
    /\ Fault /\ nkv' = nkv + 1
    /\ \E v \in {kv[w], nkv + 2} \ {0} : kv' = [kv EXCEPT ![w] = v]
    /\ \E held \in SUBSET OrdersOf(w, {"pending"}) :
        /\ Cardinality(held) <= 1
        /\ avalon' = [o \in Orders |->
                        CASE o \in held -> "lost"
                          [] o \in OrdersOf(w, {"done", "failed"}) -> "gone"
                          [] OTHER -> avalon[o]]
    /\ UNCHANGED <<records, connectorVars, client>>

AvalonNext == Process \/ \E w \in Workers : RemoveWorker(w) \/ RestartManager(w)

ProxyNext == SyncNext \/ HandNext \/ ClientNext \/ ChainNext \/ AvalonNext \/ Crash

\* Something failed, or the chain is one whose connector ends after a round.
Disturbed == nfaults > 0 \/ chain = "ethereum"

\* As long as nothing is disturbed: the coroutine that has the thread runs, blocks
\* are cut and workers answer orders.  Discovery ends, a queued event is handled and
\* a handler's call returns when the event loop gets to them, again and again,
\* although calls to the listener and whole rounds come in between.
Fairness ==
    /\ WF_proxyVars(~ Disturbed /\ SyncNext) /\ SF_proxyVars(~ Disturbed /\ HandStep)
    /\ WF_proxyVars(~ Disturbed /\ ChainNext) /\ WF_proxyVars(~ Disturbed /\ Process)

ProxySpec == ProxyInit /\ [][ProxyNext]_proxyVars
FairProxySpec == ProxySpec /\ Fairness

-----------------------------------------------------------------------------

\* _worker_details_map stands for the details on the chain, since a worker whose
\* details it has is not written again: a transaction that carries them is on its
\* way and will not be refused, or they are on the chain.  So it is as long as no
\* round begins, after an exception, a restart or its thirty seconds, before the
\* worker transactions of the rounds before it are committed.
RecordedDetailsOnChain ==
    \A w \in Workers :
        LET mine == {i \in DOMAIN txs : /\ txs[i].key = <<"worker", w>>
                                        /\ txs[i].fn \in {"register", "update"}}
        IN ~ overtaken /\ dmap[w] # 0 =>
            \/ mine = {} /\ wreg[w].details = dmap[w]
            \/ \E i \in mine : /\ \A j \in mine : j <= i
                               /\ txs[i].arg = dmap[w] /\ ~ txs[i].stale

\* While no call has failed and the connector has not been restarted, an order has
\* an error on the chain only if the listener refused it, a worker failed on it or a
\* restarted manager removed its result: never because the handler took "pending"
\* for an answer or submitted the order again.
ErrorsHaveCause ==
    \A o \in Orders : oreg[o].resp = "error" /\ nfaults = nkv
                        => avalon[o] \in {"refused", "failed", "gone"}

\* Without a restart of the connector, a result on the chain is never replaced:
\* workOrderComplete overwrites what it finds, so everything rests on each order
\* being handled once.
ResultStable ==
    [][\A o \in Orders : oreg[o].resp = "result" /\ ncrash = 0
                            => oreg'[o].resp = "result"]_proxyVars

\* Without a restart of the connector, the answer a client ends with, read from the
\* record or taken from an event, is the one the chain keeps for its order.
AnswerIsOnChain ==
    \A o \in Orders :
        client[o].pc = "end" /\ client[o].resp \in {"result", "error"} /\ ncrash = 0
            => oreg[o].resp = client[o].resp

\* The orderer has accepted order o.
Ordered(o) == \E i \in DOMAIN txs : txs[i].fn = "submit" /\ txs[i].key = <<"order", o>>

\* Unless something fails, an order that comes to a Fabric chain while the connector
\* is listening is completed there, whatever the synchronization rounds do meanwhile.
OrdersCompleted ==
    \A o \in Orders : events = "on" /\ Ordered(o)
                        ~> oreg[o].status = "completed" \/ Disturbed

\* Unless something fails, a connector that happened to start sync_work_orders first
\* brings every worker of the store to the chain and keeps listening.
RoundsReachChain ==
    first = "orders" =>
        <>[](\/ Disturbed
             \/ /\ events = "on"
                /\ \A w \in Workers : wreg[w] = [status |-> "active", details |-> kv[w]])

=============================================================================
