------------------------------ MODULE WorkerPool ------------------------------
(***************************************************************************)
(* The worker pool deployment: one key management enclave manager (KME)    *)
(* that owns the worker's key pair and registers work order processing     *)
(* enclaves (WPEs), the WPEs that take orders from the pool's queue, and   *)
(* the listener and store of the other modules.                            *)
(*                                                                         *)
(* A WPE talks to the KME by HTTP: to get a unique verification key, to    *)
(* register, and once per work order to have it pre-processed.  The KME    *)
(* serves one request at a time.  A WPE identity is the hash of a key its  *)
(* enclave makes at start, so a WPE that is started again is another       *)
(* member of Managers.  Unique verification keys are named by the WPE they *)
(* were issued to.                                                         *)
(***************************************************************************)
EXTENDS WorkOrderListener, EnclaveManager, FiniteSetsExt

CONSTANTS
    Kme,           \* the KME's enclave manager
    Pool,          \* the worker id the pool serves
    Mismatched     \* WPEs whose MRENCLAVE is not the one the KME expects

WPEs == Managers \ {Kme}

ASSUME PoolAssumption ==
    /\ Kme \in Managers
    /\ Pool \in Workers
    /\ Mismatched \subseteq WPEs
    /\ \A m \in Managers : WorkerOf[m] = Pool

VARIABLES
    kmeKey,      \* the KME's key pair in use, 0 before its enclave is set up
    sealed,      \* the key pair in the sealed data file, 0 if there is none
    workerKey,   \* the public key in the workers table, 0 if not published
    sigKeys,     \* sig_key_map: unique keys issued and not yet redeemed
    wpeKeys,     \* wpe_enc_key_map: the WPEs registered
    wpeView,     \* the worker record each WPE has read
    kmeStarts    \* how often the KME was started

kmeVars == <<kmeKey, sealed, workerKey, sigKeys, wpeKeys, wpeView, kmeStarts>>
poolVars == <<storeVars, listenerVars, managerVars, kmeVars>>

PoolInit ==
    /\ StoreInit /\ ListenerInit /\ ManagerInit
    /\ kmeKey = 0 /\ sealed = 0 /\ workerKey = 0 /\ kmeStarts = 0
    /\ sigKeys = {} /\ wpeKeys = {}
    /\ wpeView = [m \in WPEs |-> 0]

-----------------------------------------------------------------------------
(* The KME: enclave set-up, boot flow, and the requests of the WPEs        *)

\* The enclave takes its keys from the sealed data of an earlier start, if the
\* file is there, and makes new ones otherwise.
KmeInitEnclave ==
    /\ mpc[Kme] = "boot"
    /\ kmeStarts' = kmeStarts + 1
    /\ kmeKey' = IF sealed # 0 THEN sealed ELSE kmeStarts + 1
    /\ MGoTo(Kme, "signup")
    /\ UNCHANGED <<storeVars, managerLocals, mcrashes, runVars,
                   sealed, workerKey, sigKeys, wpeKeys, wpeView>>

\* Fault: the sealed data is not written back.
KmeSignupUnsealed ==
    /\ mpc[Kme] = "signup"
    /\ MGoTo(Kme, "clean_read")
    /\ UNCHANGED <<storeVars, managerLocals, mcrashes, runVars, kmeVars>>

\* The signup data is created and its sealed part written to the file.
KmeSignup ==
    /\ mpc[Kme] = "signup"
    /\ sealed' = kmeKey
    /\ MGoTo(Kme, "clean_read")
    /\ UNCHANGED <<storeVars, managerLocals, mcrashes, runVars,
                   kmeKey, workerKey, sigKeys, wpeKeys, wpeView, kmeStarts>>

\* cleanup_pool: every WPE is to register afresh.
KmeClearPool ==
    /\ mpc[Kme] = "clear_pool"
    /\ workerPool' = [workerPool EXCEPT ![Pool] = <<>>]
    /\ MGoTo(Kme, "add_worker")
    /\ UNCHANGED <<orderVars, queueVars, workers, managerLocals, mcrashes,
                   runVars, kmeVars>>

\* create_json_worker and add_new_worker: the worker and its public keys are
\* published; then the KME listener starts to serve.
KmeAddWorker ==
    /\ mpc[Kme] = "add_worker"
    /\ workers' = workers \cup {Pool}
    /\ workerKey' = kmeKey
    /\ MGoTo(Kme, "serve")
    /\ UNCHANGED <<orderVars, queueVars, workerPool, managerLocals, mcrashes, runVars,
                   kmeKey, sealed, sigKeys, wpeKeys, wpeView, kmeStarts>>

KmeBoot ==
    \/ KmeInitEnclave \/ KmeSignup
    \/ (CleanupRead(Kme, "clear_pool") \/ CleanupRemove(Kme)
            \/ CleanupUnlist(Kme, "clear_pool")) /\ UNCHANGED kmeVars
    \/ KmeClearPool \/ KmeAddWorker

\* The KME dies with its maps; the sealed data survives if its volume does.
KmeCrash ==
    /\ mpc[Kme] # "boot"
    /\ ManagerCrash(Kme)
    /\ sealed' \in {0, sealed}
    /\ sigKeys' = {} /\ wpeKeys' = {}
    /\ UNCHANGED <<kmeKey, workerKey, wpeView, kmeStarts>>

KmeRestart ==
    /\ ManagerRestart(Kme)
    /\ UNCHANGED kmeVars

\* The KME listener is started after the boot flow.
KmeListening == mpc[Kme] = "serve"

\* A request can be decrypted, and the signature of its answer verified, if the
\* WPE knows the KME's present keys.
KmeServes(m) == KmeListening /\ wpeView[m] = kmeKey

\* GetUniqueVerificationKey: a key is made and kept for the registration.
IssueUniqueKey(m) == sigKeys' = sigKeys \cup {m}

\* Register, the checks: the unique key was issued and not yet redeemed, and
\* the measurement is the expected one.
Admissible(m) == m \in sigKeys /\ m \notin Mismatched

\* Fault: the unique key may be redeemed again.
RedeemKeepsKey(m) ==
    /\ wpeKeys' = wpeKeys \cup {m}
    /\ UNCHANGED sigKeys

\* Register, the update: the WPE is added and the key erased.
RedeemUniqueKey(m) ==
    /\ wpeKeys' = wpeKeys \cup {m}
    /\ sigKeys' = sigKeys \ {m}

\* PreProcessWorkOrder gives the keys of an order to registered WPEs only.
Preprocesses(m) == KmeServes(m) /\ m \in wpeKeys

-----------------------------------------------------------------------------
(* A WPE: signup, registration, and work orders                            *)

\* get_worker_by_id tries again until the worker is in the table.
WorkerPublished == Pool \in workers

WpeReadWorker(m) ==
    /\ mpc[m] = "boot"
    /\ WorkerPublished
    /\ wpeView' = [wpeView EXCEPT ![m] = workerKey]
    /\ MGoTo(m, "get_uid")
    /\ UNCHANGED <<storeVars, managerLocals, mcrashes, runVars,
                   kmeKey, sealed, workerKey, sigKeys, wpeKeys, kmeStarts>>

WpeGetUniqueId(m) ==
    /\ mpc[m] = "get_uid"
    /\ KmeServes(m)
    /\ IssueUniqueKey(m)
    /\ MGoTo(m, "wpe_signup")
    /\ UNCHANGED <<storeVars, managerLocals, mcrashes, runVars,
                   kmeKey, sealed, workerKey, wpeKeys, wpeView, kmeStarts>>

\* The signature of the unique key verifies, and the enclave is signed up with
\* the key in its report data; this changes nothing outside the WPE.
WpeSignup(m) ==
    /\ mpc[m] = "wpe_signup"
    /\ MGoTo(m, "register")
    /\ UNCHANGED <<storeVars, managerLocals, mcrashes, runVars, kmeVars>>

WpeRegister(m) ==
    /\ mpc[m] = "register"
    /\ KmeServes(m)
    /\ Admissible(m)
    /\ RedeemUniqueKey(m)
    /\ MGoTo(m, "join")
    /\ UNCHANGED <<storeVars, managerLocals, mcrashes, runVars,
                   kmeKey, sealed, workerKey, wpeView, kmeStarts>>

\* Fault: a WPE is added only to a pool that is there.
WpeJoinExisting(m) ==
    /\ mpc[m] = "join"
    /\ workerPool[Pool] # <<>>
    /\ workerPool' = CsvAppend(workerPool, Pool, m)
    /\ MGoTo(m, "poll")
    /\ UNCHANGED <<orderVars, queueVars, workers, managerLocals, mcrashes, runVars,
                   kmeVars>>

WpeJoinPool(m) ==
    /\ mpc[m] = "join"
    /\ workerPool' = CsvAppend(workerPool, Pool, m)
    /\ MGoTo(m, "poll")
    /\ UNCHANGED <<orderVars, queueVars, workers, managerLocals, mcrashes, runVars,
                   kmeVars>>

\* The KME pre-processes the order, then the WPE's enclave runs it.
WpeExecute(m) ==
    /\ Preprocesses(m)
    /\ Execute(m)
    /\ UNCHANGED kmeVars

\* The KME has other keys than the WPE knows and cannot decrypt its request:
\* the error it answers with becomes the response of the work order.
WpeKeysStale(m) ==
    /\ mpc[m] = "execute"
    /\ KmeListening /\ ~KmeServes(m)
    /\ MGoTo(m, "receipt")
    /\ UNCHANGED <<storeVars, managerLocals, mcrashes, runVars, kmeVars>>

\* A request gets no answer the WPE can use: the connection attempts are used
\* up while the KME does not listen, or the answer does not verify.
Unanswered(m) == ~KmeServes(m)

\* The signup, the registration or the pre-processing fails.  Each way the
\* process exits, the last one because the handler of the failed
\* pre-processing uses a module it has not imported and raises in turn.
WpeRefused(m) ==
    /\ \/ mpc[m] \in {"get_uid", "register"} /\ Unanswered(m)
       \/ mpc[m] = "register" /\ ~Admissible(m)
       \/ mpc[m] = "execute" /\ ~KmeListening
       \/ mpc[m] = "execute" /\ KmeServes(m) /\ ~Preprocesses(m)
    /\ Exit(m)
    /\ UNCHANGED <<storeVars, mcrashes, runVars, kmeVars>>

\* The order is pre-processed, and running it raises: the same handler ends the
\* process.
WpeRaises(m) ==
    /\ Preprocesses(m)
    /\ EnclaveRaises(m)
    /\ UNCHANGED kmeVars

WpeStep(m) ==
    \/ WpeReadWorker(m) \/ WpeGetUniqueId(m) \/ WpeSignup(m) \/ WpeRegister(m)
    \/ WpeJoinPool(m) \/ WpeExecute(m) \/ WpeRaises(m) \/ WpeKeysStale(m) \/ WpeRefused(m)
    \/ (Pop(m) \/ ReadRequest(m) \/ MarkProcessing(m) \/ UpdateReceipt(m)
            \/ PersistResponse(m) \/ AppendProcessed(m) \/ ClearProcessing(m))
       /\ UNCHANGED kmeVars

-----------------------------------------------------------------------------
PoolListenerStep(l) == ListenerStep(l) /\ UNCHANGED <<managerVars, kmeVars>>

KmeStep == (KmeBoot \/ KmeRestart) /\ UNCHANGED listenerVars

\* Clients submit.  Their questions for results, which SingletonSystem has,
\* change no table and tell the pool nothing.
Submission(l) ==
    /\ \E i \in WoIds, w \in Workers : SubmitReceive(l, i, w)
    /\ UNCHANGED <<managerVars, kmeVars>>

PoolNext ==
    \/ \E l \in Listeners : PoolListenerStep(l) \/ Submission(l)
    \/ KmeStep
    \/ KmeCrash /\ UNCHANGED listenerVars
    \/ \E m \in WPEs :
           /\ WpeStep(m) \/ (mpc[m] # "boot" /\ ManagerCrash(m) /\ UNCHANGED kmeVars)
           /\ UNCHANGED listenerVars

PoolSpec ==
    /\ PoolInit /\ [][PoolNext]_poolVars
    /\ \A l \in Listeners : WF_poolVars(PoolListenerStep(l))
    /\ WF_poolVars(KmeStep)
    /\ \A m \in WPEs : WF_poolVars(WpeStep(m) /\ UNCHANGED listenerVars)

-----------------------------------------------------------------------------
(* Properties                                                              *)

Queued(i) == i \in ToSet(woScheduled[Pool])

Dead == {m \in Managers : mpc[m] = "down"}

\* Orders are lost only with the process that held them: an accepted order
\* that is neither answered, queued nor held went down with a WPE, and each
\* WPE that dies takes at most the one order it held.
OneOrderLostPerDeath ==
    LET lost == {s \in accepted : /\ s \notin answered
                                  /\ ~Queued(s[1])
                                  /\ \A m \in Managers : mwo[m] # s[1]}
    IN  Cardinality(lost) <= Cardinality(Dead \cap WPEs)

\* A unique key is redeemed once: none that is still accepted for registration
\* belongs to a WPE the KME already gives work order keys to.
UniqueKeyRedeemedOnce == sigKeys \cap wpeKeys = {}

\* As long as the KME has not been restarted, an order whose response is stored
\* is listed as processed or about to be, so the listener can purge it.
AnsweredOrderPurgeable ==
    kmeStarts <= 1 =>
        \A i \in WoIds :
            woResponses[i] # 0 =>
                \/ i \in ToSet(woProcessed[Pool])
                \/ \E m \in WPEs : mwo[m] = i
                \/ \E m \in WPEs : mpc[m] = "down"
                \/ \E l \in Listeners : lvictim[l] = i

\* The keys clients read from the workers table are those of the KME whenever
\* it serves, and the ones it would restore from its sealed data.
PublishedKeyInUse ==
    mpc[Kme] = "serve" => workerKey = kmeKey /\ sealed = kmeKey

\* The pool catches up: again and again every accepted order is answered,
\* unless some process dies or the KME was restarted.
PoolAnswers == []<>(accepted \subseteq answered \/ Dead # {} \/ kmeStarts > 1)
=============================================================================
