------------------------------ MODULE SyncSystem ------------------------------
(***************************************************************************)
(* The Singleton deployment in synchronous mode (TCSWorkOrderHandlerSync   *)
(* and the ZeroMQ loop of the enclave manager).  A submission goes into    *)
(* the tables as in asynchronous mode; the listener then sends the id over *)
(* a ZeroMQ REQ socket to the one configured zmq_url, blocks until a reply *)
(* comes, and reads the response from the store.                           *)
(*                                                                         *)
(* ZeroMQ keeps a request queued until the peer reads it, reconnects after *)
(* a crash, and never sends a request again; there is no receive timeout.  *)
(***************************************************************************)
EXTENDS SingletonSystem

CONSTANT ZmqTarget   \* the manager behind the listeners' zmq_url

ASSUME SyncAssumption == ZmqTarget \in Managers

VARIABLES
    zmqIn,     \* requests sent to the target and not yet received
    serving,   \* the request each manager is serving
    zmqOut,    \* for each listener, whether the reply to its request is there
    died       \* managers that have died

zmqVars == <<zmqIn, serving, zmqOut, died>>
syncVars == <<vars, zmqVars>>

NoServe == [from |-> "none", id |-> 0, num |-> 0]

SyncInit ==
    /\ Init
    /\ zmqIn = <<>>
    /\ serving = [m \in Managers |-> NoServe]
    /\ zmqOut = [l \in Listeners |-> FALSE]
    /\ died = {}

-----------------------------------------------------------------------------
(* TCSWorkOrderHandlerSync.WorkOrderSubmit                                 *)

\* The purge reads the processed orders of the request's worker only.
SyncPurgeRead(l) ==
    /\ lpc[l] = "purge_pool"
    /\ lfound' = [lfound EXCEPT ![l] =
                     ReadIds(<<"wo-worker-processed", lreq[l].worker>>)]
    /\ GoTo(l, "purge_select")
    /\ UNCHANGED <<storeVars, lreq, lreply, lids, lscan, lvictim, lstep,
                   memVars, lrestarts, clientVars, zmqVars>>

\* Fault: the request is sent before the id is in the worker's queue.
SyncScheduleAfterSend(l) ==
    /\ lpc[l] = "schedule"
    /\ woList' = [woList EXCEPT ![l] = Append(@, lreq[l].id)]
    /\ woCount' = [woCount EXCEPT ![l] = @ + 1]
    /\ GoTo(l, "zmq_send")
    /\ UNCHANGED <<storeVars, lreq, lreply, scanVars, lrestarts, clientVars, zmqVars>>

SyncSchedule(l) ==
    /\ lpc[l] = "schedule"
    /\ woScheduled' = CsvAppend(woScheduled, lreq[l].worker, lreq[l].id)
    /\ woList' = [woList EXCEPT ![l] = Append(@, lreq[l].id)]
    /\ woCount' = [woCount EXCEPT ![l] = @ + 1]
    /\ GoTo(l, "zmq_send")
    /\ UNCHANGED <<orderVars, woProcessing, woProcessed, registryVars, lreq, lreply,
                   scanVars, lrestarts, clientVars, zmqVars>>

ZmqSend(l) ==
    /\ lpc[l] = "zmq_send"
    /\ zmqIn' = Append(zmqIn, [from |-> l, id |-> lreq[l].id, num |-> lreq[l].num])
    /\ GoTo(l, "zmq_wait")
    /\ UNCHANGED <<storeVars, lreq, lreply, scanVars, memVars, lrestarts, clientVars,
                   serving, zmqOut, died>>

\* Fault: the listener does not wait for the reply.
ZmqRecvNoWait(l) ==
    /\ lpc[l] = "zmq_wait"
    /\ zmqOut' = [zmqOut EXCEPT ![l] = FALSE]
    /\ GoTo(l, "sync_get")
    /\ UNCHANGED <<storeVars, lreq, lreply, scanVars, memVars, lrestarts, clientVars,
                   zmqIn, serving, died>>

\* socket.recv() returns; what the reply says is only logged.
ZmqRecv(l) ==
    /\ lpc[l] = "zmq_wait"
    /\ zmqOut[l]
    /\ zmqOut' = [zmqOut EXCEPT ![l] = FALSE]
    /\ GoTo(l, "sync_get")
    /\ UNCHANGED <<storeVars, lreq, lreply, scanVars, memVars, lrestarts, clientVars,
                   zmqIn, serving, died>>

\* The response, if there is one; otherwise the handler returns None and the
\* client is answered with a null result.
SyncGet(l) ==
    /\ lpc[l] = "sync_get"
    /\ IF woResponses[lreq[l].id] # 0
       THEN /\ Answer(l, "RESULT")
            /\ lreq' = [lreq EXCEPT ![l].num = woResponses[lreq[l].id]]
       ELSE Answer(l, "NULL") /\ UNCHANGED lreq
    /\ UNCHANGED <<storeVars, scanVars, memVars, lrestarts, clientVars, zmqVars>>

\* A listener that dies closes its socket: the request it has sent is still
\* delivered or not, and nobody reads the reply.
SyncListenerRestart(l) ==
    /\ ListenerRestart(l)
    /\ zmqOut' = [zmqOut EXCEPT ![l] = FALSE]
    /\ zmqIn' \in {zmqIn, SelectSeq(zmqIn, LAMBDA r : r.from # l)}
    /\ UNCHANGED <<serving, died>>

-----------------------------------------------------------------------------
(* _start_zmq_listener and _process_work_order_sync                        *)

SyncReceive(m) ==
    /\ mpc[m] = "poll"
    /\ m = ZmqTarget
    /\ serving[m] = NoServe
    /\ zmqIn # <<>>
    /\ serving' = [serving EXCEPT ![m] = Head(zmqIn)]
    /\ zmqIn' = Tail(zmqIn)
    /\ MGoTo(m, "match")
    /\ UNCHANGED <<storeVars, managerLocals, mcrashes, runVars, zmqOut, died>>

\* csv_match_pop: the head of the queue is taken only if it is the id asked
\* for; otherwise an error is replied and the queue stays as it is.
MatchPop(m) ==
    LET queue == woScheduled[WorkerOf[m]]
        match == queue # <<>> /\ Head(queue) = serving[m].id
    IN  /\ mpc[m] = "match"
        /\ woScheduled' = IF match THEN CsvPop(woScheduled, WorkerOf[m]) ELSE woScheduled
        /\ mwo' = [mwo EXCEPT ![m] = IF match THEN serving[m].id ELSE 0]
        /\ MGoTo(m, IF match THEN "read" ELSE "poll")
        /\ UNCHANGED <<orderVars, woProcessing, woProcessed, registryVars,
                       mreq, mids, mstep, mcrashes, runVars, zmqVars>>

\* Fault: only a processed order is replied to.
SyncSendReplyOnSuccess(m) ==
    LET r == serving[m]
    IN  /\ mpc[m] = "poll"
        /\ r # NoServe
        /\ serving' = [serving EXCEPT ![m] = NoServe]
        /\ zmqOut' = IF lpc[r.from] = "zmq_wait" /\ woResponses[r.id] = r.num
                     THEN [zmqOut EXCEPT ![r.from] = TRUE] ELSE zmqOut
        /\ UNCHANGED <<storeVars, mpc, managerLocals, mcrashes, runVars, zmqIn, died>>

\* The reply reaches the listener if it still waits on that socket.
SyncSendReply(m) ==
    LET r == serving[m]
    IN  /\ mpc[m] = "poll"
        /\ r # NoServe
        /\ serving' = [serving EXCEPT ![m] = NoServe]
        /\ zmqOut' = IF /\ lpc[r.from] = "zmq_wait"
                        /\ lreq[r.from].id = r.id /\ lreq[r.from].num = r.num
                     THEN [zmqOut EXCEPT ![r.from] = TRUE] ELSE zmqOut
        /\ UNCHANGED <<storeVars, mpc, managerLocals, mcrashes, runVars, zmqIn, died>>

\* The request a dying manager serves is lost, as are those its socket had
\* already taken in: any number from the head of the queue.
LoseRequests(m) ==
    /\ serving' = [serving EXCEPT ![m] = NoServe]
    /\ \E k \in 0..Len(zmqIn) :
           zmqIn' = IF m = ZmqTarget THEN SubSeq(zmqIn, k + 1, Len(zmqIn)) ELSE zmqIn
    /\ died' = died \cup {m}
    /\ UNCHANGED zmqOut

SyncExit(m) == (EnclaveRaises(m) \/ (UpdateReceipt(m) /\ mpc'[m] = "down")) /\ LoseRequests(m)

\* The steps of EnclaveManager that leave the socket alone.
SyncProcess(m) ==
    /\ \/ BootAddWorker(m) \/ JoinPool(m)
       \/ CleanupRead(m, "poll") \/ CleanupRemove(m) \/ CleanupUnlist(m, "poll")
       \/ ReadRequest(m) \/ MarkProcessing(m) \/ Execute(m)
       \/ UpdateReceipt(m) /\ mpc'[m] # "down"
       \/ PersistResponse(m) \/ AppendProcessed(m) \/ ClearProcessing(m)
       \/ ManagerRestart(m)
    /\ UNCHANGED zmqVars

-----------------------------------------------------------------------------
SyncListenerStep(l) ==
    \/ /\ \/ BootLookup(l) \/ BootLookupPool(l) \/ BootRead(l) \/ BootKeep(l)
          \/ BootDiscard(l) \/ BootReap(l) \/ BootDone(l)
          \/ PurgeSelect(l) \/ PurgeUnlist(l) \/ PurgeRemove(l) \/ PurgeFinish(l)
          \/ SubmitCheck(l) \/ SubmitTimestamp(l) \/ SubmitRequest(l)
          \/ GetResultTimestamp(l) \/ ReceiptStore(l) \/ Reply(l)
       /\ UNCHANGED zmqVars
    \/ SyncPurgeRead(l) \/ SyncSchedule(l) \/ ZmqSend(l) \/ ZmqRecv(l) \/ SyncGet(l)

SyncManagerStep(m) ==
    SyncProcess(m) \/ SyncExit(m) \/ SyncReceive(m) \/ MatchPop(m) \/ SyncSendReply(m)

SyncNext ==
    \/ \E l \in Listeners :
           /\ \/ SyncListenerStep(l)
              \/ ClientRequest(l) /\ UNCHANGED zmqVars
              \/ SyncListenerRestart(l)
           /\ UNCHANGED managerVars
    \/ \E m \in Managers :
           /\ SyncManagerStep(m) \/ (ManagerCrash(m) /\ LoseRequests(m))
           /\ UNCHANGED listenerVars

SyncSpec ==
    /\ SyncInit /\ [][SyncNext]_syncVars
    /\ \A l \in Listeners : WF_syncVars(SyncListenerStep(l) /\ UNCHANGED managerVars)
    /\ \A m \in Managers : WF_syncVars(SyncManagerStep(m) /\ UNCHANGED listenerVars)

-----------------------------------------------------------------------------
(* Properties                                                              *)

ForTarget(l) == lreq[l].worker = WorkerOf[ZmqTarget]

\* The reply has come, so the work order is processed: the listener finds in
\* wo-responses the response to the very submission it holds.
Fetched(l) == woResponses[lreq[l].id] = lreq[l].num

\* As long as no process has died, a listener that was replied to reads the
\* response to its own submission: csv_match_pop cannot have missed.
SyncReturnsResult ==
    \A l \in Listeners :
        lpc[l] = "sync_get" /\ ForTarget(l) /\ lrestarts = 0 /\ died = {} => Fetched(l)

\* While no listener has restarted, the queue of the worker behind zmq_url
\* holds nothing but orders in flight, whatever the manager does: no left-over
\* at its head makes csv_match_pop refuse every later order.
NoHeadOfLineBlocking ==
    lrestarts = 0 =>
        \A i \in ToSet(woScheduled[WorkerOf[ZmqTarget]]) :
            \E l \in Listeners :
                lpc[l] \in {"zmq_send", "zmq_wait"} /\ lreq[l].id = i

\* The single-threaded listener comes back to serving after every request;
\* only a manager that dies can leave it waiting on the socket for good.
SyncServes == \A l \in Listeners : []<>(lpc[l] = "idle") \/ <>(died # {})
=============================================================================
