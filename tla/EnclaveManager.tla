---------------------------- MODULE EnclaveManager ----------------------------
(***************************************************************************)
(* An enclave manager that processes work orders: the polling loop of      *)
(* WOProcessorManager, the clean-up of stale work orders at boot, and the  *)
(* ways the process ends.  What a manager does first at boot depends on    *)
(* its kind (Singleton, KME, WPE) and is left to the composing module.     *)
(*                                                                         *)
(* As for the listener, an action is one store operation together with the *)
(* local code up to the next one.                                          *)
(***************************************************************************)
EXTENDS WorkOrderStore

CONSTANTS
    RaisingIds,           \* ids whose execution may throw out of the enclave
    MaxManagerCrashes     \* bound: enclave manager crashes in a behaviour

ASSUME ManagerAssumption ==
    /\ RaisingIds \subseteq WoIds
    /\ MaxManagerCrashes \in Nat

VARIABLES
    mpc,        \* where each manager is
    mwo,        \* the work order id it holds, 0 if none
    mreq,       \* the request it has read
    mids,       \* boot: ids still to be cleaned up
    mstep,      \* boot: which table the first of them is removed from next
    mcrashes,   \* crashes so far
    executed,   \* submissions run in an enclave
    repeated,   \* submissions run more than once
    answered    \* submissions whose response reached the store

managerLocals == <<mwo, mreq, mids, mstep>>
runVars == <<executed, repeated, answered>>
managerVars == <<mpc, managerLocals, mcrashes, runVars>>

ManagerPCs ==
    {"boot", "join", "clean_read", "clean", "clean_unlist", "poll", "read",
     "mark", "execute", "receipt", "persist", "append", "clear", "down"}

\* Fault: the timestamp goes before the records it makes reachable.
CleanupOrderReversed == <<"wo-timestamps", "wo-receipts", "wo-requests", "wo-responses">>

\* Tables a stale work order is removed from, in the order of the delegate.
CleanupOrder == <<"wo-responses", "wo-requests", "wo-receipts", "wo-timestamps">>

ManagerTypeOK ==
    /\ mpc \in [Managers -> ManagerPCs]
    /\ mwo \in [Managers -> WoIds \cup {0}]
    /\ mreq \in [Managers -> Nat]
    /\ mids \in [Managers -> Seq(WoIds)]
    /\ mstep \in [Managers -> 0..4]
    /\ mcrashes \in 0..MaxManagerCrashes
    /\ executed \in SUBSET (WoIds \X Nat)
    /\ repeated \in SUBSET (WoIds \X Nat)
    /\ answered \in SUBSET (WoIds \X Nat)

ManagerInit ==
    /\ mpc = [m \in Managers |-> "boot"]
    /\ mwo = [m \in Managers |-> 0]
    /\ mreq = [m \in Managers |-> 0]
    /\ mids = [m \in Managers |-> <<>>]
    /\ mstep = [m \in Managers |-> 0]
    /\ mcrashes = 0
    /\ executed = {}
    /\ repeated = {}
    /\ answered = {}

-----------------------------------------------------------------------------
MGoTo(m, label) == mpc' = [mpc EXCEPT ![m] = label]

\* The process ends; its memory is lost.
Exit(m) ==
    /\ MGoTo(m, "down")
    /\ mwo' = [mwo EXCEPT ![m] = 0]
    /\ mreq' = [mreq EXCEPT ![m] = 0]
    /\ mids' = [mids EXCEPT ![m] = <<>>]
    /\ mstep' = [mstep EXCEPT ![m] = 0]

-----------------------------------------------------------------------------
(* cleanup_work_orders                                                     *)

\* Fault: the clean-up takes the scheduled work orders.
CleanupScheduled(m, next) ==
    LET ids == woScheduled[WorkerOf[m]]
    IN  /\ mpc[m] = "clean_read"
        /\ IF ids = <<>>
           THEN MGoTo(m, next) /\ UNCHANGED <<mids, mstep>>
           ELSE /\ MGoTo(m, "clean")
                /\ mids' = [mids EXCEPT ![m] = ids]
                /\ mstep' = [mstep EXCEPT ![m] = 1]
        /\ UNCHANGED <<storeVars, mwo, mreq, mcrashes, runVars>>

CleanupRead(m, next) ==
    LET ids == woProcessed[WorkerOf[m]]
    IN  /\ mpc[m] = "clean_read"
        /\ IF ids = <<>>
           THEN MGoTo(m, next) /\ UNCHANGED <<mids, mstep>>
           ELSE /\ MGoTo(m, "clean")
                /\ mids' = [mids EXCEPT ![m] = ids]
                /\ mstep' = [mstep EXCEPT ![m] = 1]
        /\ UNCHANGED <<storeVars, mwo, mreq, mcrashes, runVars>>

CleanupRemove(m) ==
    /\ mpc[m] = "clean"
    /\ RemoveRecord(CleanupOrder[mstep[m]], Head(mids[m]))
    /\ IF mstep[m] < 4
       THEN mstep' = [mstep EXCEPT ![m] = @ + 1] /\ UNCHANGED <<mpc, mids>>
       ELSE /\ mids' = [mids EXCEPT ![m] = Tail(@)]
            /\ IF Tail(mids[m]) = <<>>
               THEN MGoTo(m, "clean_unlist") /\ mstep' = [mstep EXCEPT ![m] = 0]
               ELSE mstep' = [mstep EXCEPT ![m] = 1] /\ UNCHANGED mpc
    /\ UNCHANGED <<queueVars, registryVars, mwo, mreq, mcrashes, runVars>>

CleanupUnlist(m, next) ==
    /\ mpc[m] = "clean_unlist"
    /\ woProcessed' = [woProcessed EXCEPT ![WorkerOf[m]] = <<>>]
    /\ MGoTo(m, next)
    /\ UNCHANGED <<orderVars, woScheduled, woProcessing, registryVars,
                   managerLocals, mcrashes, runVars>>

-----------------------------------------------------------------------------
(* _process_work_orders and _process_work_order_by_id                      *)

\* csv_pop; an empty queue leaves the manager polling.
Pop(m) ==
    LET queue == woScheduled[WorkerOf[m]]
    IN  /\ mpc[m] = "poll"
        /\ queue # <<>>
        /\ woScheduled' = CsvPop(woScheduled, WorkerOf[m])
        /\ mwo' = [mwo EXCEPT ![m] = Head(queue)]
        /\ MGoTo(m, "read")
        /\ UNCHANGED <<orderVars, woProcessing, woProcessed, registryVars,
                       mreq, mids, mstep, mcrashes, runVars>>

\* Fault: the test for a missing request is inverted.
ReadRequestInverted(m) ==
    /\ mpc[m] = "read"
    /\ mreq' = [mreq EXCEPT ![m] = woRequests[mwo[m]]]
    /\ MGoTo(m, IF woRequests[mwo[m]] # 0 THEN "clear" ELSE "mark")
    /\ UNCHANGED <<storeVars, mwo, mids, mstep, mcrashes, runVars>>

\* A request that is gone is skipped.  (One that is there is JSON: the
\* listener parsed it, so _validate_request accepts it.)
ReadRequest(m) ==
    /\ mpc[m] = "read"
    /\ mreq' = [mreq EXCEPT ![m] = woRequests[mwo[m]]]
    /\ MGoTo(m, IF woRequests[mwo[m]] = 0 THEN "clear" ELSE "mark")
    /\ UNCHANGED <<storeVars, mwo, mids, mstep, mcrashes, runVars>>

MarkProcessing(m) ==
    /\ mpc[m] = "mark"
    /\ woProcessing' = [woProcessing EXCEPT ![m] = mwo[m]]
    /\ MGoTo(m, "execute")
    /\ UNCHANGED <<orderVars, woScheduled, woProcessed, registryVars,
                   managerLocals, mcrashes, runVars>>

\* The enclave returns a result or an error; both are a response.
Execute(m) ==
    LET submission == <<mwo[m], mreq[m]>>
    IN  /\ mpc[m] = "execute"
        /\ MGoTo(m, "receipt")
        /\ executed' = executed \cup {submission}
        /\ repeated' = IF submission \in executed
                       THEN repeated \cup {submission} ELSE repeated
        /\ UNCHANGED <<storeVars, managerLocals, mcrashes, answered>>

\* An exception from the enclave call: the handler in _execute_work_order uses
\* the response it has not got, raises in turn, and the polling loop exits.
EnclaveRaises(m) ==
    /\ mpc[m] = "execute"
    /\ mwo[m] \in RaisingIds
    /\ Exit(m)
    /\ UNCHANGED <<storeVars, mcrashes, runVars>>

\* update_receipt: nothing to do without a receipt.  With one, building the
\* update assigns into a variable that does not exist, and the process exits.
UpdateReceipt(m) ==
    /\ mpc[m] = "receipt"
    /\ IF mwo[m] \in woReceipts
       THEN Exit(m)
       ELSE MGoTo(m, "persist") /\ UNCHANGED managerLocals
    /\ UNCHANGED <<storeVars, mcrashes, runVars>>

PersistResponse(m) ==
    /\ mpc[m] = "persist"
    /\ woResponses' = [woResponses EXCEPT ![mwo[m]] = mreq[m]]
    /\ answered' = answered \cup {<<mwo[m], mreq[m]>>}
    /\ MGoTo(m, "append")
    /\ UNCHANGED <<woTimestamps, woRequests, woReceipts, queueVars, registryVars,
                   managerLocals, mcrashes, executed, repeated>>

\* Fault: a work order is not listed as processed.
AppendNothing(m) ==
    /\ mpc[m] = "append"
    /\ MGoTo(m, "clear")
    /\ UNCHANGED <<storeVars, managerLocals, mcrashes, runVars>>

AppendProcessed(m) ==
    /\ mpc[m] = "append"
    /\ woProcessed' = CsvAppend(woProcessed, WorkerOf[m], mwo[m])
    /\ MGoTo(m, "clear")
    /\ UNCHANGED <<orderVars, woScheduled, woProcessing, registryVars,
                   managerLocals, mcrashes, runVars>>

ClearProcessing(m) ==
    /\ mpc[m] = "clear"
    /\ woProcessing' = [woProcessing EXCEPT ![m] = 0]
    /\ mwo' = [mwo EXCEPT ![m] = 0]
    /\ mreq' = [mreq EXCEPT ![m] = 0]
    /\ MGoTo(m, "poll")
    /\ UNCHANGED <<orderVars, woScheduled, woProcessed, registryVars,
                   mids, mstep, mcrashes, runVars>>

-----------------------------------------------------------------------------
ManagerCrash(m) ==
    /\ mpc[m] # "down"
    /\ mcrashes < MaxManagerCrashes
    /\ mcrashes' = mcrashes + 1
    /\ Exit(m)
    /\ UNCHANGED <<storeVars, runVars>>

\* A new process signs up its enclave and boots.
ManagerRestart(m) ==
    /\ mpc[m] = "down"
    /\ MGoTo(m, "boot")
    /\ UNCHANGED <<storeVars, managerLocals, mcrashes, runVars>>

\* The run-time flow of a manager.
ManagerStep(m) ==
    \/ CleanupRemove(m)
    \/ Pop(m) \/ ReadRequest(m) \/ MarkProcessing(m) \/ Execute(m) \/ EnclaveRaises(m)
    \/ UpdateReceipt(m) \/ PersistResponse(m) \/ AppendProcessed(m)
    \/ ClearProcessing(m) \/ ManagerRestart(m)

-----------------------------------------------------------------------------
\* What the locals of a manager hold where they are used.
ManagerFormed(m) ==
    /\ mpc[m] \in {"read", "mark", "execute", "receipt", "persist", "append", "clear"} =>
           mwo[m] \in WoIds
    /\ mpc[m] = "clean" => mids[m] # <<>> /\ mstep[m] \in 1..4
=============================================================================
