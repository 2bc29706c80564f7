---------------------------- MODULE SingletonSystem ----------------------------
(***************************************************************************)
(* The Singleton deployment in asynchronous mode: clients, the listeners,  *)
(* the shared store and one enclave manager per worker.  A Singleton       *)
(* manager processes under its worker id, so managers are workers.         *)
(***************************************************************************)
EXTENDS WorkOrderListener, EnclaveManager, FiniteSetsExt

ASSUME SingletonAssumption ==
    /\ Managers = Workers
    /\ \A m \in Managers : WorkerOf[m] = m

vars == <<storeVars, listenerVars, managerVars>>

TypeOK == StoreTypeOK /\ ListenerTypeOK /\ ManagerTypeOK

Init == StoreInit /\ ListenerInit /\ ManagerInit

-----------------------------------------------------------------------------
(* _manager_on_boot of the Singleton manager                               *)

BootAddWorker(m) ==
    /\ mpc[m] = "boot"
    /\ workers' = workers \cup {WorkerOf[m]}
    /\ MGoTo(m, "join")
    /\ UNCHANGED <<orderVars, queueVars, workerPool,
                   managerLocals, mcrashes, runVars>>

\* update_worker_map appends, also for an identity that is already there.
JoinPool(m) ==
    /\ mpc[m] = "join"
    /\ workerPool' = CsvAppend(workerPool, WorkerOf[m], m)
    /\ MGoTo(m, "clean_read")
    /\ UNCHANGED <<orderVars, queueVars, workers,
                   managerLocals, mcrashes, runVars>>

SingletonStep(m) ==
    \/ BootAddWorker(m) \/ JoinPool(m)
    \/ CleanupRead(m, "poll") \/ CleanupUnlist(m, "poll")
    \/ ManagerStep(m)

Next ==
    \/ \E l \in Listeners :
           /\ ListenerStep(l) \/ ClientRequest(l) \/ ListenerRestart(l)
           /\ UNCHANGED managerVars
    \/ \E m \in Managers :
           /\ SingletonStep(m) \/ ManagerCrash(m)
           /\ UNCHANGED listenerVars

Spec == Init /\ [][Next]_vars

\* A process that is running goes on running, and one that has ended is
\* started again; clients owe nothing.
Fairness ==
    /\ \A l \in Listeners : WF_vars(ListenerStep(l) /\ UNCHANGED managerVars)
    /\ \A m \in Managers : WF_vars(SingletonStep(m) /\ UNCHANGED listenerVars)

FairSpec == Spec /\ Fairness

-----------------------------------------------------------------------------
(* Properties                                                              *)

Purging(l) == lpc[l] \in {"purge_unlist", "purge_remove"}

IsScheduled(i) == \E w \in Workers : i \in ToSet(woScheduled[w])

IsHeld(i) == \E m \in Managers : mwo[m] = i

AcceptedOf(i) == {s[2] : s \in {a \in accepted : a[1] = i}}

\* max_work_order_count bounds the work orders the store holds context for,
\* whatever is purged, rebuilt at boot or cleaned up by the managers.
StoreWithinLimit == Cardinality(woTimestamps) <= MaxWorkOrderCount

\* Listeners that share the store without restarting hold at most the limit
\* each: every order in the store is in the list of the one that accepted it.
StoreWithinSharedLimit ==
    Cardinality(woTimestamps) <= MaxWorkOrderCount * Cardinality(Listeners)

\* The id a listener purges is in its own workorder_list: removing it from
\* the list at the end of a purge never raises.
PurgeVictimListed ==
    \A l \in Listeners : Purging(l) => lvictim[l] \in ToSet(woList[l])

\* Between two requests a listener's count is the number of work orders in
\* the store, so capacity is neither leaked nor handed out twice.
CountMatchesStore ==
    \A l \in Listeners : lpc[l] = "idle" => woCount[l] = Cardinality(woTimestamps)

\* Every record and every queue entry belongs to an id with a timestamp: the
\* clean-ups, which enumerate wo-timestamps, can find it.  (The boot flow of a
\* listener may remove the records of an order a manager holds.)
NoOrphanRecords ==
    lrestarts = 0 => \A i \in WoIds :
        woRequests[i] # 0 \/ woResponses[i] # 0 \/ IsScheduled(i) => i \in woTimestamps

\* A request without its timestamp can neither be reported nor purged.
RequestHasTimestamp == \A i \in WoIds : woRequests[i] # 0 => i \in woTimestamps

\* A submission answered with PENDING is answered, or its request is still in
\* the store and queued for a worker or held by an enclave manager.
NoAcceptedOrderLost ==
    \A s \in accepted :
        s \in answered \/ (woRequests[s[1]] = s[2] /\ (IsScheduled(s[1]) \/ IsHeld(s[1])))

\* A submission answered with PENDING but not processed yet keeps its request
\* and timestamp, whatever happens to the managers, so a client that polls is
\* never told the id is unknown while the listener keeps running.
AcceptedOrderKnown ==
    lrestarts = 0 => \A s \in accepted \ answered : s[1] \in woTimestamps /\ woRequests[s[1]] = s[2]

\* An id is accepted again only once its earlier submission was answered.
AcceptedOnce ==
    \A s, t \in accepted : s[1] = t[1] /\ s[2] < t[2] => s \in answered

\* No submission runs twice in an enclave.
AtMostOnceExecution == repeated = {}

\* A stored response was computed from the stored request of that id.
ResponseAnswersRequest ==
    \A i \in WoIds : woResponses[i] # 0 => woRequests[i] \in {0, woResponses[i]}

\* Once the result of an order was handed out, the listener does not report
\* the order as yet to be processed.
NoPendingAfterResult ==
    \A l \in Listeners :
        lpc[l] = "reply" /\ lreply[l] = "PENDING" /\ AcceptedOf(lreq[l].id) # {} =>
            <<lreq[l].id, Max(AcceptedOf(lreq[l].id))>> \notin delivered

\* A work order is refused as busy only when the store is full.
BusyOnlyWhenFull ==
    \A l \in Listeners :
        lpc[l] = "reply" /\ lreply[l] = "BUSY" =>
            Cardinality(woTimestamps) >= MaxWorkOrderCount

-----------------------------------------------------------------------------
(* Inductive strengthenings                                                *)

TypeInv ==
    /\ TypeOK
    /\ \A l \in Listeners : ListenerFormed(l)
    /\ \A m \in Managers : ManagerFormed(m)

Booting(l) == lpc[l] \in {"boot_pool", "boot_read", "boot_next", "boot_reap"}

Submitting(l) == lpc[l] \in {"check", "set_timestamp", "set_request", "schedule"}

\* The id whose record exists but is not (or no longer) in the list.
InHand(l) ==
    CASE lpc[l] = "boot_reap" -> {lvictim[l]}
      [] lpc[l] \in {"set_request", "schedule"} -> {lreq[l].id}
      [] OTHER -> {}

\* A listener accounts for the whole store: what is in it is in workorder_list,
\* still to be treated by the boot flow, or in hand; and that much fits.
AccountsForStore(l) ==
    /\ lpc[l] = "boot" => woList[l] = <<>>
    /\ lpc[l] # "boot" => woTimestamps \subseteq ToSet(woList[l]) \cup lids[l] \cup InHand(l)
    /\ Booting(l) \/ lids[l] = {}
    /\ IsFiniteSet(lids[l])
    /\ Len(woList[l]) + Cardinality(lids[l])
           + (IF lpc[l] = "boot_reap" \/ Submitting(l) THEN 1 ELSE 0) <= MaxWorkOrderCount

\* With one listener the limit is kept because that listener accounts for the
\* store at every step, through purges, crashes and the boot flow.
CapacityInv ==
    /\ TypeInv
    /\ IsFiniteSet(woTimestamps) /\ StoreWithinLimit
    /\ PurgeVictimListed
    /\ \A l \in Listeners : AccountsForStore(l)

-----------------------------------------------------------------------------
(* Liveness                                                                *)

\* Every submission answered with PENDING eventually has its response stored.
EveryOrderAnswered ==
    \A i \in WoIds, n \in 1..MaxSubmits :
        <<i, n>> \in accepted ~> <<i, n>> \in answered

\* Every request is eventually answered and the boot flow ends: a listener
\* always comes back to serving.
ListenerServes == \A l \in Listeners : []<>(lpc[l] = "idle")
=============================================================================
