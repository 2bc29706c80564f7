--------------------------- MODULE WorkerPoolProofs ---------------------------
(***************************************************************************)
(* Proofs about the worker pool, for any number of WPEs, listeners, orders *)
(* and crashes: the keys of the KME, the registration of the WPEs, and the *)
(* orders whose response is stored.                                        *)
(***************************************************************************)
EXTENDS WorkerPool, ComponentProofs

(***************************************************************************)
(* The KME's keys and maps, and what the WPEs have to do with them         *)
(***************************************************************************)

\* Where the KME and the WPEs may be, beyond what every manager does.
PoolPCs == ManagerPCs \cup {"signup", "clear_pool", "add_worker", "serve",
                            "get_uid", "wpe_signup", "register"}

\* The KME has made its signup data and has not died since.
KmeSealed ==
    mpc[Kme] \in {"clean_read", "clean", "clean_unlist", "clear_pool", "add_worker", "serve"}

\* The inductive invariant: the sealed data file is the one of the running KME
\* from signup on, its key is published when it serves, and a WPE that has not
\* asked for its unique key yet is not registered.
KeyInv ==
    /\ mpc \in [Managers -> PoolPCs]
    /\ KmeSealed => sealed = kmeKey
    /\ mpc[Kme] = "serve" => workerKey = kmeKey
    /\ wpeKeys \subseteq WPEs /\ sigKeys \subseteq WPEs
    /\ \A m \in WPEs : mpc[m] \in {"boot", "get_uid"} => m \notin wpeKeys
    /\ sigKeys \cap wpeKeys = {}

(***************************************************************************)
(* A WPE moves alone, leaves the keys of the KME, and goes back neither to *)
(* its start nor to its request for a unique key.                          *)
(***************************************************************************)
LEMMA WpeMoves ==
    ASSUME NEW m \in WPEs, mpc \in [Managers -> PoolPCs],
           WpeStep(m) \/ (ManagerCrash(m) /\ UNCHANGED kmeVars)
    PROVE  /\ mpc' \in [Managers -> PoolPCs]
           /\ \A n \in Managers \ {m} : mpc'[n] = mpc[n]
           /\ mpc'[m] \in {"boot", "get_uid"} => mpc[m] \in {"boot", "get_uid"}
           /\ UNCHANGED <<kmeKey, sealed, workerKey, kmeStarts>>
           /\ \/ UNCHANGED <<sigKeys, wpeKeys>>
              \/ /\ mpc[m] = "get_uid" /\ mpc'[m] = "wpe_signup"
                 /\ sigKeys' = sigKeys \cup {m} /\ wpeKeys' = wpeKeys
              \/ /\ mpc'[m] = "join"
                 /\ sigKeys' = sigKeys \ {m} /\ wpeKeys' = wpeKeys \cup {m}
<1>0. m \in Managers
    BY DEF WPEs
<1>1. CASE WpeReadWorker(m)
    BY <1>0, <1>1 DEF WpeReadWorker, MGoTo, PoolPCs, ManagerPCs
<1>2. CASE WpeGetUniqueId(m)
    BY <1>0, <1>2 DEF WpeGetUniqueId, IssueUniqueKey, MGoTo, PoolPCs, ManagerPCs
<1>3. CASE WpeSignup(m)
    BY <1>0, <1>3 DEF WpeSignup, MGoTo, PoolPCs, ManagerPCs, kmeVars
<1>4. CASE WpeRegister(m)
    BY <1>0, <1>4 DEF WpeRegister, RedeemUniqueKey, MGoTo, PoolPCs, ManagerPCs
<1>5. CASE WpeJoinPool(m)
    BY <1>0, <1>5 DEF WpeJoinPool, MGoTo, PoolPCs, ManagerPCs, kmeVars
<1>6. CASE WpeExecute(m)
    BY <1>0, <1>6 DEF WpeExecute, Execute, MGoTo, PoolPCs, ManagerPCs, kmeVars
<1>7. CASE WpeKeysStale(m)
    BY <1>0, <1>7 DEF WpeKeysStale, MGoTo, PoolPCs, ManagerPCs, kmeVars
<1>8. CASE WpeRefused(m) \/ WpeRaises(m)
    BY <1>0, <1>8 DEF WpeRefused, WpeRaises, EnclaveRaises, Exit, MGoTo, PoolPCs, ManagerPCs, kmeVars
<1>9. CASE (Pop(m) \/ ReadRequest(m) \/ MarkProcessing(m)) /\ UNCHANGED kmeVars
    BY <1>0, <1>9 DEF Pop, ReadRequest, MarkProcessing, MGoTo, PoolPCs, ManagerPCs, kmeVars
<1>10. CASE (UpdateReceipt(m) \/ PersistResponse(m)) /\ UNCHANGED kmeVars
    BY <1>0, <1>10 DEF UpdateReceipt, PersistResponse, Exit, MGoTo, PoolPCs, ManagerPCs, kmeVars
<1>11. CASE (AppendProcessed(m) \/ ClearProcessing(m)) /\ UNCHANGED kmeVars
    BY <1>0, <1>11 DEF AppendProcessed, ClearProcessing, MGoTo, PoolPCs, ManagerPCs, kmeVars
<1>12. CASE ManagerCrash(m) /\ UNCHANGED kmeVars
    BY <1>0, <1>12 DEF ManagerCrash, Exit, MGoTo, PoolPCs, ManagerPCs, kmeVars
<1> QED BY <1>1, <1>2, <1>3, <1>4, <1>5, <1>6, <1>7, <1>8, <1>9, <1>10, <1>11, <1>12
        DEF WpeStep

(***************************************************************************)
(* Every step of the KME keeps the keys in order: its boot flow leaves the *)
(* maps alone, and its death empties them with the key it had in use.      *)
(***************************************************************************)
LEMMA KmeKeys ==
    ASSUME KeyInv, KmeBoot \/ KmeRestart \/ KmeCrash
    PROVE  KeyInv'
<1>0. /\ Kme \in Managers /\ Kme \notin WPEs /\ WPEs \subseteq Managers
      /\ mpc \in [Managers -> PoolPCs]
    BY PoolAssumption DEF WPEs, KeyInv
<1>1. CASE KmeInitEnclave
    BY <1>0, <1>1 DEF KmeInitEnclave, KeyInv, KmeSealed, MGoTo, PoolPCs, ManagerPCs
<1>2. CASE KmeSignup
    BY <1>0, <1>2 DEF KmeSignup, KeyInv, KmeSealed, MGoTo, PoolPCs, ManagerPCs
<1>3. CASE CleanupRead(Kme, "clear_pool") /\ UNCHANGED kmeVars
    BY <1>0, <1>3 DEF CleanupRead, KeyInv, KmeSealed, MGoTo, PoolPCs, ManagerPCs, kmeVars
<1>4. CASE CleanupRemove(Kme) /\ UNCHANGED kmeVars
    BY <1>0, <1>4 DEF CleanupRemove, KeyInv, KmeSealed, MGoTo, PoolPCs, ManagerPCs, kmeVars
<1>5. CASE CleanupUnlist(Kme, "clear_pool") /\ UNCHANGED kmeVars
    BY <1>0, <1>5 DEF CleanupUnlist, KeyInv, KmeSealed, MGoTo, PoolPCs, ManagerPCs, kmeVars
<1>6. CASE KmeClearPool
    BY <1>0, <1>6 DEF KmeClearPool, KeyInv, KmeSealed, MGoTo, PoolPCs, ManagerPCs, kmeVars
<1>7. CASE KmeAddWorker
    BY <1>0, <1>7 DEF KmeAddWorker, KeyInv, KmeSealed, MGoTo, PoolPCs, ManagerPCs
<1>8. CASE KmeRestart
    BY <1>0, <1>8 DEF KmeRestart, ManagerRestart, KeyInv, KmeSealed, MGoTo, PoolPCs, ManagerPCs, kmeVars
<1>9. CASE KmeCrash
    BY <1>0, <1>9 DEF KmeCrash, ManagerCrash, Exit, KeyInv, KmeSealed, MGoTo, PoolPCs, ManagerPCs
<1> QED BY <1>1, <1>2, <1>3, <1>4, <1>5, <1>6, <1>7, <1>8, <1>9 DEF KmeBoot

(***************************************************************************)
(* Before the KME has signed up there are no keys to disagree.             *)
(***************************************************************************)
LEMMA InitKeys == PoolInit => KeyInv
<1> SUFFICES ASSUME PoolInit PROVE KeyInv
    OBVIOUS
<1> QED BY PoolAssumption DEF PoolInit, ManagerInit, KeyInv, KmeSealed, WPEs, PoolPCs, ManagerPCs

(***************************************************************************)
(* KeyInv is inductive.                                                    *)
(***************************************************************************)
LEMMA NextKeys == KeyInv /\ [PoolNext]_poolVars => KeyInv'
<1> SUFFICES ASSUME KeyInv, [PoolNext]_poolVars PROVE KeyInv'
    OBVIOUS
<1>1. ASSUME UNCHANGED <<mpc, kmeVars>> PROVE KeyInv'
    BY <1>1 DEF KeyInv, KmeSealed, kmeVars
<1>2. CASE UNCHANGED poolVars
    BY <1>1, <1>2 DEF poolVars, managerVars
<1>3. CASE \E l \in Listeners : PoolListenerStep(l) \/ Submission(l)
    BY <1>1, <1>3 DEF PoolListenerStep, Submission, managerVars
<1>4. CASE KmeStep \/ KmeCrash
    BY <1>4, KmeKeys DEF KmeStep
<1>5. ASSUME NEW m \in WPEs, WpeStep(m) \/ (ManagerCrash(m) /\ UNCHANGED kmeVars)
      PROVE  KeyInv'
    <2>1. /\ Kme \in Managers /\ Kme # m /\ m \in Managers /\ WPEs \subseteq Managers
          /\ mpc \in [Managers -> PoolPCs]
        BY PoolAssumption DEF WPEs, KeyInv
    <2>2. mpc'[Kme] = mpc[Kme] /\ UNCHANGED <<kmeKey, sealed, workerKey>>
        BY <1>5, <2>1, WpeMoves
    <2>3. (KmeSealed => sealed = kmeKey)' /\ (mpc[Kme] = "serve" => workerKey = kmeKey)'
        BY <2>2 DEF KeyInv, KmeSealed
    <2>4. mpc' \in [Managers -> PoolPCs] /\ \A n \in Managers \ {m} : mpc'[n] = mpc[n]
        BY <1>5, <2>1, WpeMoves
    <2>5. CASE UNCHANGED <<sigKeys, wpeKeys>>
        <3>1. mpc'[m] \in {"boot", "get_uid"} => mpc[m] \in {"boot", "get_uid"}
            BY <1>5, <2>1, WpeMoves
        <3> QED BY <2>1, <2>3, <2>4, <2>5, <3>1 DEF KeyInv
    <2>6. CASE /\ mpc[m] = "get_uid" /\ mpc'[m] = "wpe_signup"
               /\ sigKeys' = sigKeys \cup {m} /\ wpeKeys' = wpeKeys
        BY <2>1, <2>3, <2>4, <2>6 DEF KeyInv
    <2>7. CASE /\ mpc'[m] = "join"
               /\ sigKeys' = sigKeys \ {m} /\ wpeKeys' = wpeKeys \cup {m}
        BY <2>1, <2>3, <2>4, <2>7 DEF KeyInv
    <2> QED BY <1>5, <2>1, <2>5, <2>6, <2>7, WpeMoves
<1> QED BY <1>2, <1>3, <1>4, <1>5 DEF PoolNext

(***************************************************************************)
(* The key pair clients read from the workers table is the one the KME has *)
(* in use whenever it serves, and the one it would restore, however often  *)
(* the KME and the WPEs die and whether the sealed data survives.          *)
(***************************************************************************)
THEOREM KmePublishesItsKey == PoolSpec => []PublishedKeyInUse
<1>1. KeyInv => PublishedKeyInUse
    BY DEF KeyInv, KmeSealed, PublishedKeyInUse
<1> QED BY <1>1, InitKeys, NextKeys, PTL DEF PoolSpec

(***************************************************************************)
(* No unique verification key the KME still accepts belongs to a WPE it    *)
(* has registered: a registration uses its key up.                         *)
(***************************************************************************)
THEOREM RegistrationUsesKeyUp == PoolSpec => []UniqueKeyRedeemedOnce
<1>1. KeyInv => UniqueKeyRedeemedOnce
    BY DEF KeyInv, UniqueKeyRedeemedOnce
<1> QED BY <1>1, InitKeys, NextKeys, PTL DEF PoolSpec

(***************************************************************************)
(* The state of the pool is well formed                                    *)
(***************************************************************************)

PoolTypeInv ==
    /\ StoreTypeOK /\ ListenerTypeOK /\ ManagerTypesWith(PoolPCs)
    /\ \A l \in Listeners : ListenerFormed(l)
    /\ \A m \in Managers : ManagerFormed(m)

(***************************************************************************)
(* The steps a WPE or the KME shares with every manager keep the state     *)
(* well formed.                                                            *)
(***************************************************************************)
LEMMA SharedTypes ==
    ASSUME PoolTypeInv, NEW m \in Managers,
           \/ CleanupRead(m, "clear_pool") \/ CleanupUnlist(m, "clear_pool")
           \/ ManagerStep(m) \/ ManagerCrash(m)
    PROVE  /\ StoreTypeOK' /\ ManagerTypesWith(PoolPCs)'
           /\ \A k \in Managers : ManagerFormed(k)'
           /\ woTimestamps' \subseteq woTimestamps
<1>1. ManagerPCs \subseteq PoolPCs /\ "clear_pool" \in PoolPCs
    BY DEF PoolPCs
<1> QED BY <1>1, ProcessingTypes DEF PoolTypeInv

(***************************************************************************)
(* A step that only moves a manager, or that ends it, keeps its state well *)
(* formed.                                                                 *)
(***************************************************************************)
LEMMA MoveTypes ==
    ASSUME PoolTypeInv, NEW m \in Managers, UNCHANGED <<mcrashes, runVars>>,
           \/ Exit(m)
           \/ \E label \in {"signup", "clean_read", "add_worker", "serve", "get_uid",
                            "wpe_signup", "register", "join", "poll"} :
                  MGoTo(m, label) /\ UNCHANGED managerLocals
           \/ /\ mpc[m] = "execute" /\ MGoTo(m, "receipt") /\ UNCHANGED managerLocals
    PROVE  ManagerTypesWith(PoolPCs)' /\ \A k \in Managers : ManagerFormed(k)'
<1> USE DEF ManagerTypesWith, PoolPCs, ManagerPCs, ManagerFormed, MGoTo, managerLocals, runVars
<1>0. ManagerTypesWith(PoolPCs) /\ \A k \in Managers : ManagerFormed(k)
    BY DEF PoolTypeInv
<1>1. CASE Exit(m)
    BY <1>0, <1>1 DEF Exit
<1>2. ASSUME NEW label \in {"signup", "clean_read", "add_worker", "serve", "get_uid",
                            "wpe_signup", "register", "join", "poll"},
             MGoTo(m, label), UNCHANGED managerLocals
      PROVE  ManagerTypesWith(PoolPCs)' /\ \A k \in Managers : ManagerFormed(k)'
    <2>1. mpc' \in [Managers -> PoolPCs]
        BY <1>0, <1>2
    <2>2. \A k \in Managers : mpc'[k] = mpc[k] \/ mpc'[k] = label
        BY <1>0, <1>2
    <2> QED BY <1>0, <1>2, <2>1, <2>2
<1>3. CASE mpc[m] = "execute" /\ MGoTo(m, "receipt") /\ UNCHANGED managerLocals
    BY <1>0, <1>3
<1> QED BY <1>1, <1>2, <1>3

(***************************************************************************)
(* Every step of a WPE keeps the store and the managers well formed.       *)
(***************************************************************************)
LEMMA WpeTypes ==
    ASSUME PoolTypeInv, NEW m \in WPEs, WpeStep(m) \/ ManagerCrash(m)
    PROVE  /\ StoreTypeOK' /\ ManagerTypesWith(PoolPCs)'
           /\ \A k \in Managers : ManagerFormed(k)'
<1>0. m \in Managers /\ StoreTypeOK /\ ManagerTypesWith(PoolPCs)
    BY DEF WPEs, PoolTypeInv
<1>1. ASSUME UNCHANGED storeVars PROVE StoreTypeOK'
    BY <1>0, <1>1 DEF StoreTypeOK, storeVars, orderVars, queueVars, registryVars
<1>2. CASE WpeReadWorker(m)
    BY <1>0, <1>1, <1>2, MoveTypes DEF WpeReadWorker
<1>3. CASE WpeGetUniqueId(m)
    BY <1>0, <1>1, <1>3, MoveTypes DEF WpeGetUniqueId
<1>4. CASE WpeSignup(m)
    BY <1>0, <1>1, <1>4, MoveTypes DEF WpeSignup
<1>5. CASE WpeRegister(m)
    BY <1>0, <1>1, <1>5, MoveTypes DEF WpeRegister
<1>6. CASE WpeJoinPool(m)
    <2>1. workerPool' \in [Workers -> Seq(Managers)]
        BY <1>0, <1>6, PoolAssumption DEF WpeJoinPool, CsvAppend, StoreTypeOK
    <2>2. StoreTypeOK'
        BY <1>0, <1>6, <2>1 DEF WpeJoinPool, StoreTypeOK, orderVars, queueVars
    <2> QED BY <1>0, <1>6, <2>2, MoveTypes DEF WpeJoinPool
<1>7. CASE WpeKeysStale(m)
    BY <1>0, <1>1, <1>7, MoveTypes DEF WpeKeysStale
<1>8. CASE WpeRefused(m)
    BY <1>0, <1>1, <1>8, MoveTypes DEF WpeRefused
<1>9. CASE ManagerStep(m) \/ ManagerCrash(m)
    BY <1>0, <1>9, SharedTypes
<1> QED BY <1>2, <1>3, <1>4, <1>5, <1>6, <1>7, <1>8, <1>9
        DEF WpeStep, WpeExecute, WpeRaises, ManagerStep

(***************************************************************************)
(* Every step of the KME keeps the store and the managers well formed.     *)
(***************************************************************************)
LEMMA KmeTypes ==
    ASSUME PoolTypeInv, KmeBoot \/ KmeRestart \/ KmeCrash
    PROVE  /\ StoreTypeOK' /\ ManagerTypesWith(PoolPCs)'
           /\ \A k \in Managers : ManagerFormed(k)'
<1>0. Kme \in Managers /\ Pool \in Workers /\ StoreTypeOK /\ ManagerTypesWith(PoolPCs)
    BY PoolAssumption DEF PoolTypeInv
<1>1. ASSUME UNCHANGED storeVars PROVE StoreTypeOK'
    BY <1>0, <1>1 DEF StoreTypeOK, storeVars, orderVars, queueVars, registryVars
<1>2. CASE KmeInitEnclave
    BY <1>0, <1>1, <1>2, MoveTypes DEF KmeInitEnclave
<1>3. CASE KmeSignup
    BY <1>0, <1>1, <1>3, MoveTypes DEF KmeSignup
<1>4. CASE KmeClearPool
    <2>1. StoreTypeOK'
        BY <1>0, <1>4 DEF KmeClearPool, StoreTypeOK, orderVars, queueVars
    <2> QED BY <1>0, <1>4, <2>1, MoveTypes DEF KmeClearPool
<1>5. CASE KmeAddWorker
    <2>1. StoreTypeOK'
        BY <1>0, <1>5 DEF KmeAddWorker, StoreTypeOK, orderVars, queueVars
    <2> QED BY <1>0, <1>5, <2>1, MoveTypes DEF KmeAddWorker
<1>6. CASE \/ CleanupRead(Kme, "clear_pool") \/ CleanupUnlist(Kme, "clear_pool")
           \/ ManagerStep(Kme) \/ ManagerCrash(Kme)
    BY <1>0, <1>6, SharedTypes
<1> QED BY <1>2, <1>3, <1>4, <1>5, <1>6 DEF KmeBoot, KmeRestart, KmeCrash, ManagerStep

(***************************************************************************)
(* The state of the pool stays well formed.                                *)
(***************************************************************************)
LEMMA InitPoolTypes == PoolInit => PoolTypeInv
<1> SUFFICES ASSUME PoolInit PROVE PoolTypeInv
    OBVIOUS
<1>1. StoreTypeOK
    BY DEF PoolInit, StoreInit, StoreTypeOK
<1>2. ListenerTypeOK
    BY ListenerAssumption DEF PoolInit, ListenerInit, ListenerTypeOK, ListenerPCs, Replies, NoRequest
<1>3. ManagerTypesWith(PoolPCs)
    BY ManagerAssumption DEF PoolInit, ManagerInit, ManagerTypesWith, PoolPCs, ManagerPCs
<1>4. \A l \in Listeners : ListenerFormed(l)
    BY DEF PoolInit, ListenerInit, ListenerFormed
<1>5. \A m \in Managers : ManagerFormed(m)
    BY DEF PoolInit, ManagerInit, ManagerFormed
<1> QED BY <1>1, <1>2, <1>3, <1>4, <1>5 DEF PoolTypeInv

(***************************************************************************)
(* Every step of the pool keeps the types.                                 *)
(***************************************************************************)
LEMMA NextPoolTypes == PoolTypeInv /\ [PoolNext]_poolVars => PoolTypeInv'
<1> SUFFICES ASSUME PoolTypeInv, [PoolNext]_poolVars PROVE PoolTypeInv'
    OBVIOUS
<1>1. ASSUME UNCHANGED managerVars
      PROVE  ManagerTypesWith(PoolPCs)' /\ \A m \in Managers : ManagerFormed(m)'
    BY <1>1 DEF PoolTypeInv, ManagerTypesWith, ManagerFormed, managerVars, managerLocals, runVars
<1>2. ASSUME UNCHANGED listenerVars
      PROVE  ListenerTypeOK' /\ \A l \in Listeners : ListenerFormed(l)'
    BY <1>2 DEF PoolTypeInv, ListenerTypeOK, ListenerFormed, listenerVars, scanVars, memVars,
                clientVars
<1>3. ASSUME NEW l \in Listeners, PoolListenerStep(l) \/ Submission(l)
      PROVE  PoolTypeInv'
    <2>1. (ListenerStep(l) \/ ClientRequest(l)) /\ UNCHANGED managerVars
        BY <1>3 DEF PoolListenerStep, Submission, ClientRequest
    <2>2. StoreTypeOK' /\ ListenerTypeOK' /\ \A k \in Listeners : ListenerFormed(k)'
        BY <2>1, ListenerStoreTypes, ListenerStepTypes DEF PoolTypeInv
    <2> QED BY <1>1, <2>1, <2>2 DEF PoolTypeInv
<1>4. CASE (KmeStep \/ KmeCrash) /\ UNCHANGED listenerVars
    BY <1>2, <1>4, KmeTypes DEF PoolTypeInv, KmeStep
<1>5. ASSUME NEW m \in WPEs, WpeStep(m) \/ ManagerCrash(m), UNCHANGED listenerVars
      PROVE  PoolTypeInv'
    BY <1>2, <1>5, WpeTypes DEF PoolTypeInv
<1>6. CASE UNCHANGED poolVars
    <2>1. StoreTypeOK'
        BY <1>6 DEF PoolTypeInv, StoreTypeOK, poolVars, storeVars, orderVars, queueVars,
                    registryVars
    <2> QED BY <1>1, <1>2, <1>6, <2>1 DEF PoolTypeInv, poolVars
<1> QED BY <1>3, <1>4, <1>5, <1>6 DEF PoolNext, KmeStep

(***************************************************************************)
(* Orders whose response is stored                                         *)
(***************************************************************************)

\* The KME is in its first start and has not published the worker yet.
FirstBoot ==
    \/ kmeStarts = 0
    \/ kmeStarts = 1 /\ mpc[Kme] \in {"signup", "clean_read", "clear_pool", "add_worker"}

\* A listener is about to remove the response of its victim.
Erasing(l, i) == lpc[l] = "purge_remove" /\ lvictim[l] = i /\ lstep[l] \in {1, 2}

\* The order is listed as processed, about to be, or has been unlisted by a
\* listener that goes on to remove its response.
Listed(i) ==
    \/ i \in ToSet(woProcessed[Pool])
    \/ \E m \in WPEs : mwo[m] = i /\ mpc[m] = "append"
    \/ \E m \in WPEs : mpc[m] = "down"
    \/ \E l \in Listeners : Erasing(l, i)

\* The inductive invariant: before the worker is published no WPE has begun, so
\* the clean-up of the first start finds nothing to remove.
ListedInv ==
    /\ kmeStarts \in Nat
    /\ kmeStarts = 0 => mpc[Kme] = "boot"
    /\ FirstBoot => /\ Pool \notin workers
                    /\ woProcessed[Pool] = <<>>
                    /\ \A m \in WPEs : mpc[m] = "boot"
    /\ kmeStarts <= 1 =>
           /\ mpc[Kme] \notin {"clean", "clean_unlist"}
           /\ \A i \in WoIds : woResponses[i] # 0 => Listed(i)

(***************************************************************************)
(* What a step of a listener does to responses and to the list of          *)
(* processed orders: it adds none, and it goes on to remove the response   *)
(* of an order it has unlisted.                                            *)
(***************************************************************************)
LEMMA ListenerErases ==
    ASSUME PoolTypeInv, NEW l \in Listeners, ListenerStep(l) \/ ClientRequest(l)
    PROVE  /\ workers' = workers
           /\ \A i \in WoIds : woResponses'[i] # 0 => woResponses[i] # 0
           /\ \A k \in Listeners \ {l} :
                  lpc'[k] = lpc[k] /\ lvictim'[k] = lvictim[k] /\ lstep'[k] = lstep[k]
           /\ woProcessed' = woProcessed \/ PurgeUnlist(l)
           /\ \A i \in WoIds : Erasing(l, i) /\ woResponses'[i] # 0 => Erasing(l, i)'
<1> USE DEF storeVars, orderVars, queueVars, registryVars, scanVars, GoTo, EndScan, Answer
<1>0. /\ StoreTypeOK /\ ListenerFormed(l)
      /\ lpc \in [Listeners -> ListenerPCs] /\ lvictim \in [Listeners -> WoIds \cup {0}]
      /\ lstep \in [Listeners -> 0..4] /\ woResponses \in [WoIds -> Nat]
    BY DEF PoolTypeInv, ListenerTypeOK, StoreTypeOK
<1>1. CASE BootLookup(l) \/ BootLookupPool(l) \/ BootRead(l) \/ BootKeep(l)
    BY <1>0, <1>1 DEF BootLookup, BootLookupPool, BootRead, BootKeep, Erasing
<1>2. CASE BootDiscard(l) \/ BootDone(l)
    BY <1>0, <1>2 DEF BootDiscard, BootDone, Erasing
<1>3. CASE BootReap(l)
    <2>1. lvictim[l] \in WoIds /\ \A i \in WoIds : woResponses'[i] # 0 => woResponses[i] # 0
        BY <1>0, <1>3 DEF BootReap, ListenerFormed, RemoveRecord
    <2> QED BY <1>0, <1>3, <2>1 DEF BootReap, Erasing
<1>4. CASE PurgeLookupPool(l) \/ PurgeRead(l)
    BY <1>0, <1>4 DEF PurgeLookupPool, PurgeRead, Erasing
<1>5. CASE PurgeSelect(l)
    BY <1>0, <1>5 DEF PurgeSelect, Erasing
<1>6. CASE PurgeUnlist(l)
    BY <1>0, <1>6 DEF PurgeUnlist, Erasing
<1>7. CASE PurgeRemove(l)
    <2>1. lvictim[l] \in WoIds /\ lstep[l] \in 1..4
        BY <1>0, <1>7 DEF PurgeRemove, ListenerFormed
    <2>2. \A i \in WoIds : woResponses'[i] # 0 => woResponses[i] # 0
        BY <1>0, <1>7, <2>1 DEF PurgeRemove, RemoveRecord
    <2>3. lstep[l] = 2 => woResponses'[lvictim[l]] = 0
        BY <1>0, <1>7, <2>1 DEF PurgeRemove, RemoveRecord, PurgeOrder
    <2> QED BY <1>0, <1>7, <2>1, <2>2, <2>3 DEF PurgeRemove, Erasing
<1>8. CASE PurgeFinish(l)
    <2>1. lvictim[l] \in WoIds /\ \A i \in WoIds : woResponses'[i] # 0 => woResponses[i] # 0
        BY <1>0, <1>8 DEF PurgeFinish, ListenerFormed, RemoveRecord
    <2> QED BY <1>0, <1>8, <2>1 DEF PurgeFinish, Erasing
<1>9. CASE SubmitCheck(l) \/ SubmitTimestamp(l) \/ SubmitRequest(l) \/ SubmitSchedule(l)
    BY <1>0, <1>9 DEF SubmitCheck, SubmitTimestamp, SubmitRequest, SubmitSchedule, Erasing
<1>10. CASE GetResultTimestamp(l) \/ ReceiptStore(l) \/ Reply(l)
    BY <1>0, <1>10 DEF GetResultTimestamp, ReceiptStore, Reply, Erasing
<1>11. ASSUME NEW i \in WoIds, NEW w \in Workers, SubmitReceive(l, i, w)
       PROVE  /\ UNCHANGED <<workers, woResponses, woProcessed, lvictim, lstep>>
              /\ lpc[l] # "purge_remove" /\ \A k \in Listeners \ {l} : lpc'[k] = lpc[k]
    BY <1>0, <1>11 DEF SubmitReceive
<1>12. ASSUME NEW i \in WoIds, GetResult(l, i) \/ ReceiptCreate(l, i)
       PROVE  /\ UNCHANGED <<workers, woResponses, woProcessed, lvictim, lstep>>
              /\ lpc[l] # "purge_remove" /\ \A k \in Listeners \ {l} : lpc'[k] = lpc[k]
    BY <1>0, <1>12 DEF GetResult, ReceiptCreate
<1>13. CASE ClientRequest(l)
    <2>1. /\ UNCHANGED <<workers, woResponses, woProcessed, lvictim, lstep>>
          /\ lpc[l] # "purge_remove" /\ \A k \in Listeners \ {l} : lpc'[k] = lpc[k]
        BY <1>11, <1>12, <1>13 DEF ClientRequest
    <2> QED BY <2>1 DEF Erasing
<1> QED BY <1>1, <1>2, <1>3, <1>4, <1>5, <1>6, <1>7, <1>8, <1>9, <1>10, <1>13 DEF ListenerStep

(***************************************************************************)
(* Steps of the listeners keep ListedInv.                                  *)
(***************************************************************************)
LEMMA ListedByListener ==
    ASSUME PoolTypeInv, ListedInv, NEW l \in Listeners, ListenerStep(l) \/ ClientRequest(l),
           UNCHANGED <<managerVars, kmeVars>>
    PROVE  ListedInv'
<1>0. /\ UNCHANGED <<mpc, mwo, kmeStarts>> /\ Pool \in Workers
      /\ woProcessed \in [Workers -> Seq(WoIds)]
      /\ lpc \in [Listeners -> ListenerPCs] /\ lstep \in [Listeners -> 0..4]
    BY PoolAssumption DEF managerVars, managerLocals, kmeVars, PoolTypeInv, StoreTypeOK, ListenerTypeOK
<1>1. /\ workers' = workers
      /\ \A i \in WoIds : woResponses'[i] # 0 => woResponses[i] # 0
      /\ woProcessed' = woProcessed \/ PurgeUnlist(l)
    BY ListenerErases
<1>2. \A k \in Listeners \ {l}, i \in WoIds : Erasing(k, i) => Erasing(k, i)'
    BY ListenerErases DEF Erasing
<1>3. \A i \in WoIds : Erasing(l, i) /\ woResponses'[i] # 0 => Erasing(l, i)'
    BY ListenerErases
<1>4. \A i \in ToSet(woProcessed[Pool]) : i \in ToSet(woProcessed'[Pool]) \/ Erasing(l, i)'
    <2>1. CASE woProcessed' = woProcessed
        BY <2>1
    <2>2. CASE PurgeUnlist(l)
        <3>1. PICK w \in Workers : woProcessed' = CsvSearchDelete(woProcessed, w, lvictim[l])
            BY <2>2 DEF PurgeUnlist
        <3>2. ToSet(woProcessed[w]) \ {lvictim[l]} \subseteq ToSet(RemoveFirst(woProcessed[w], lvictim[l]))
            BY <1>0, RemoveFirstProperties
        <3>3. ToSet(woProcessed[Pool]) \ {lvictim[l]} \subseteq ToSet(woProcessed'[Pool])
            BY <1>0, <3>1, <3>2 DEF CsvSearchDelete
        <3>4. \A i : i = lvictim[l] => Erasing(l, i)'
            BY <1>0, <2>2 DEF PurgeUnlist, Erasing, GoTo
        <3> QED BY <3>3, <3>4
    <2> QED BY <1>1, <2>1, <2>2
<1>5. woProcessed[Pool] = <<>> => woProcessed'[Pool] = <<>>
    <2>1. CASE PurgeUnlist(l)
        <3>1. PICK w \in Workers : woProcessed' = CsvSearchDelete(woProcessed, w, lvictim[l])
            BY <2>1 DEF PurgeUnlist
        <3>2. /\ RemoveFirst(woProcessed[w], lvictim[l]) \in Seq(WoIds)
              /\ ToSet(RemoveFirst(woProcessed[w], lvictim[l])) \subseteq ToSet(woProcessed[w])
            BY <1>0, RemoveFirstProperties
        <3>3. /\ woProcessed'[Pool] \in Seq(WoIds)
              /\ ToSet(woProcessed'[Pool]) \subseteq ToSet(woProcessed[Pool])
            BY <1>0, <3>1, <3>2 DEF CsvSearchDelete
        <3>4. woProcessed[Pool] = <<>> => ToSet(woProcessed'[Pool]) = {}
            <4>1. ToSet(<<>>) = {}
                BY DEF ToSet
            <4> QED BY <3>3, <4>1
        <3>5. woProcessed'[Pool] # <<>> => Head(woProcessed'[Pool]) \in ToSet(woProcessed'[Pool])
            BY <3>3, PopProperties
        <3> QED BY <3>4, <3>5
    <2> QED BY <1>1, <2>1
<1>6. \A i \in WoIds : woResponses'[i] # 0 /\ Listed(i) => Listed(i)'
    BY <1>0, <1>2, <1>3, <1>4 DEF Listed
<1>7. FirstBoot' <=> FirstBoot
    BY <1>0 DEF FirstBoot
<1> QED BY <1>0, <1>1, <1>5, <1>6, <1>7 DEF ListedInv

(***************************************************************************)
(* Steps of the WPEs keep ListedInv: a stored response is listed next, and *)
(* no WPE begins before the worker is published.                           *)
(***************************************************************************)
LEMMA ListedByWpe ==
    ASSUME PoolTypeInv, ListedInv, NEW m \in WPEs,
           WpeStep(m) \/ (mpc[m] # "boot" /\ ManagerCrash(m) /\ UNCHANGED kmeVars),
           UNCHANGED listenerVars
    PROVE  ListedInv'
<1>0. /\ m \in Managers /\ m # Kme /\ Kme \in Managers /\ WPEs \subseteq Managers
      /\ Pool \in Workers /\ WorkerOf[m] = Pool
      /\ UNCHANGED <<lpc, lvictim, lstep>>
      /\ mpc \in [Managers -> PoolPCs] /\ mwo \in [Managers -> WoIds \cup {0}]
      /\ woProcessed \in [Workers -> Seq(WoIds)] /\ woResponses \in [WoIds -> Nat]
    BY PoolAssumption DEF WPEs, PoolTypeInv, StoreTypeOK, ManagerTypesWith, listenerVars, scanVars
<1> USE DEF storeVars, orderVars, queueVars, registryVars, managerLocals, kmeVars, MGoTo
<1>1. UNCHANGED <<kmeStarts, workers>> /\ mpc'[Kme] = mpc[Kme]
      /\ \A n \in Managers \ {m} : mpc'[n] = mpc[n]
    <2>1. UNCHANGED workers
        BY DEF WpeStep, WpeReadWorker, WpeGetUniqueId, WpeSignup, WpeRegister, WpeJoinPool,
               WpeExecute, Execute, WpeRaises, EnclaveRaises, WpeKeysStale, WpeRefused, Pop,
               ReadRequest, MarkProcessing, UpdateReceipt, PersistResponse, AppendProcessed,
               ClearProcessing, ManagerCrash
    <2> QED BY <1>0, <2>1, WpeMoves
<1>2. ~ FirstBoot
    <2>1. mpc[m] = "boot" => WpeReadWorker(m)
        BY <1>0 DEF WpeStep, WpeGetUniqueId, WpeSignup, WpeRegister, WpeJoinPool,
               WpeExecute, Execute, WpeRaises, EnclaveRaises, WpeKeysStale, WpeRefused, Pop,
               ReadRequest, MarkProcessing, UpdateReceipt, PersistResponse, AppendProcessed,
               ClearProcessing, ManagerCrash
    <2> QED BY <2>1 DEF ListedInv, WpeReadWorker, WorkerPublished
<1>3. ~ FirstBoot'
    BY <1>1, <1>2 DEF FirstBoot
<1>4. ASSUME UNCHANGED <<woResponses, woProcessed>>, mpc[m] # "append", mpc[m] # "down",
             UNCHANGED mwo \/ \A n \in Managers \ {m} : mwo'[n] = mwo[n]
      PROVE  \A i \in WoIds : woResponses[i] # 0 /\ Listed(i) => Listed(i)'
    BY <1>0, <1>1, <1>4 DEF Listed, Erasing
<1>5. ASSUME NEW i \in WoIds, woResponses'[i] # 0, woResponses[i] # 0 => Listed(i)
      PROVE  Listed(i)'
    <2>1. CASE WpeReadWorker(m)
        BY <1>0, <1>4, <1>5, <2>1 DEF WpeReadWorker
    <2>2. CASE WpeGetUniqueId(m)
        BY <1>0, <1>4, <1>5, <2>2 DEF WpeGetUniqueId
    <2>3. CASE WpeSignup(m) \/ WpeRegister(m) \/ WpeJoinPool(m)
        BY <1>0, <1>4, <1>5, <2>3 DEF WpeSignup, WpeRegister, WpeJoinPool
    <2>4. CASE WpeExecute(m) \/ WpeKeysStale(m)
        BY <1>0, <1>4, <1>5, <2>4 DEF WpeExecute, Execute, WpeKeysStale
    <2>5. CASE WpeRefused(m) \/ WpeRaises(m) \/ ManagerCrash(m)
        <3>1. mpc'[m] = "down"
            BY <1>0, <2>5 DEF WpeRefused, WpeRaises, EnclaveRaises, ManagerCrash, Exit
        <3> QED BY <3>1 DEF Listed
    <2>6. CASE Pop(m) \/ ReadRequest(m) \/ MarkProcessing(m)
        BY <1>0, <1>4, <1>5, <2>6 DEF Pop, ReadRequest, MarkProcessing
    <2>7. CASE UpdateReceipt(m)
        <3>1. CASE mpc'[m] = "down"
            BY <3>1 DEF Listed
        <3>2. CASE mpc'[m] # "down"
            BY <1>0, <1>4, <1>5, <2>7, <3>2 DEF UpdateReceipt, Exit
        <3> QED BY <3>1, <3>2
    <2>8. CASE PersistResponse(m)
        <3>1. /\ mpc[m] = "persist" /\ mpc'[m] = "append" /\ UNCHANGED <<mwo, woProcessed>>
              /\ i # mwo[m] => woResponses'[i] = woResponses[i]
            BY <1>0, <2>8 DEF PersistResponse
        <3>2. CASE i = mwo[m]
            BY <3>1, <3>2 DEF Listed
        <3>3. CASE i # mwo[m]
            BY <1>0, <1>1, <1>5, <3>1, <3>3 DEF Listed, Erasing
        <3> QED BY <3>2, <3>3
    <2>9. CASE AppendProcessed(m)
        <3>1. /\ mpc[m] = "append" /\ UNCHANGED <<mwo, woResponses>> /\ mwo[m] \in WoIds
              /\ woProcessed' = CsvAppend(woProcessed, Pool, mwo[m])
            BY <1>0, <2>9 DEF AppendProcessed, PoolTypeInv, ManagerFormed
        <3>2. ToSet(Append(woProcessed[Pool], mwo[m])) = ToSet(woProcessed[Pool]) \cup {mwo[m]}
            BY <1>0, <3>1, AppendToSet
        <3>3. ToSet(woProcessed'[Pool]) = ToSet(woProcessed[Pool]) \cup {mwo[m]}
            BY <1>0, <3>1, <3>2 DEF CsvAppend
        <3> QED BY <1>0, <1>1, <1>5, <3>1, <3>3 DEF Listed, Erasing
    <2>10. CASE ClearProcessing(m)
        BY <1>0, <1>4, <1>5, <2>10 DEF ClearProcessing
    <2> QED BY <2>1, <2>2, <2>3, <2>4, <2>5, <2>6, <2>7, <2>8, <2>9, <2>10 DEF WpeStep
<1> QED BY <1>1, <1>3, <1>5 DEF ListedInv

(***************************************************************************)
(* Steps of the KME keep ListedInv: the clean-up of its first start finds  *)
(* no processed order.                                                     *)
(***************************************************************************)
LEMMA ListedByKme ==
    ASSUME PoolTypeInv, ListedInv, KmeBoot \/ KmeRestart \/ KmeCrash, UNCHANGED listenerVars
    PROVE  ListedInv'
<1>0. /\ Kme \in Managers /\ Kme \notin WPEs /\ WPEs \subseteq Managers
      /\ Pool \in Workers /\ WorkerOf[Kme] = Pool /\ kmeStarts \in Nat
      /\ UNCHANGED <<lpc, lvictim, lstep>>
      /\ mpc \in [Managers -> PoolPCs] /\ mwo \in [Managers -> WoIds \cup {0}]
    BY PoolAssumption DEF WPEs, PoolTypeInv, ManagerTypesWith, listenerVars, scanVars, ListedInv
<1> USE DEF storeVars, orderVars, queueVars, registryVars, managerLocals, kmeVars, MGoTo
<1>1. ASSUME UNCHANGED <<woProcessed, woResponses>>,
             \A m \in WPEs : mpc'[m] = mpc[m] /\ mwo'[m] = mwo[m]
      PROVE  \A i \in WoIds : Listed(i) => Listed(i)'
    BY <1>0, <1>1 DEF Listed, Erasing
<1>2. CASE KmeInitEnclave
    <2>1. UNCHANGED <<woProcessed, woResponses, workers, mwo>> /\ \A m \in WPEs : mpc'[m] = mpc[m]
        BY <1>0, <1>2 DEF KmeInitEnclave
    <2>2. mpc'[Kme] = "signup" /\ kmeStarts' = kmeStarts + 1
        BY <1>0, <1>2 DEF KmeInitEnclave
    <2>3. FirstBoot' => FirstBoot
        BY <1>0, <2>2 DEF FirstBoot
    <2> QED BY <1>0, <1>1, <2>1, <2>2, <2>3 DEF ListedInv
<1>3. CASE KmeSignup
    BY <1>0, <1>1, <1>3 DEF KmeSignup, ListedInv, FirstBoot
<1>4. CASE CleanupRead(Kme, "clear_pool") /\ UNCHANGED kmeVars
    <2>1. UNCHANGED <<woProcessed, woResponses, workers, mwo, kmeStarts>>
          /\ mpc[Kme] = "clean_read" /\ \A m \in WPEs : mpc'[m] = mpc[m]
        BY <1>0, <1>4 DEF CleanupRead
    <2>2. mpc'[Kme] = IF woProcessed[Pool] = <<>> THEN "clear_pool" ELSE "clean"
        BY <1>0, <1>4 DEF CleanupRead
    <2> QED BY <1>0, <1>1, <2>1, <2>2 DEF ListedInv, FirstBoot
<1>5. CASE CleanupRemove(Kme) /\ UNCHANGED kmeVars
    <2>1. mpc[Kme] = "clean" /\ UNCHANGED kmeStarts
        BY <1>5 DEF CleanupRemove
    <2>2. ~ (kmeStarts <= 1)
        BY <2>1 DEF ListedInv
    <2> QED BY <1>0, <2>1, <2>2 DEF ListedInv, FirstBoot
<1>6. CASE CleanupUnlist(Kme, "clear_pool") /\ UNCHANGED kmeVars
    <2>1. mpc[Kme] = "clean_unlist" /\ UNCHANGED kmeStarts
        BY <1>6 DEF CleanupUnlist
    <2>2. ~ (kmeStarts <= 1)
        BY <2>1 DEF ListedInv
    <2> QED BY <1>0, <2>1, <2>2 DEF ListedInv, FirstBoot
<1>7. CASE KmeClearPool
    BY <1>0, <1>1, <1>7 DEF KmeClearPool, ListedInv, FirstBoot
<1>8. CASE KmeAddWorker
    <2>1. UNCHANGED <<woProcessed, woResponses, mwo, kmeStarts>>
          /\ \A m \in WPEs : mpc'[m] = mpc[m]
        BY <1>0, <1>8 DEF KmeAddWorker
    <2>2. mpc[Kme] = "add_worker" /\ mpc'[Kme] = "serve" /\ kmeStarts # 0
        BY <1>0, <1>8 DEF KmeAddWorker, ListedInv
    <2> QED BY <1>0, <1>1, <2>1, <2>2 DEF ListedInv, FirstBoot
<1>9. CASE KmeRestart
    <2>1. UNCHANGED <<woProcessed, woResponses, mwo, kmeStarts>>
          /\ \A m \in WPEs : mpc'[m] = mpc[m]
        BY <1>0, <1>9 DEF KmeRestart, ManagerRestart
    <2>2. mpc[Kme] = "down" /\ mpc'[Kme] = "boot" /\ kmeStarts # 0
        BY <1>0, <1>9 DEF KmeRestart, ManagerRestart, ListedInv
    <2> QED BY <1>0, <1>1, <2>1, <2>2 DEF ListedInv, FirstBoot
<1>10. CASE KmeCrash
    <2>1. UNCHANGED <<woProcessed, woResponses, kmeStarts>>
          /\ \A m \in WPEs : mpc'[m] = mpc[m] /\ mwo'[m] = mwo[m]
        BY <1>0, <1>10 DEF KmeCrash, ManagerCrash, Exit
    <2>2. mpc'[Kme] = "down" /\ kmeStarts # 0
        BY <1>0, <1>10 DEF KmeCrash, ManagerCrash, Exit, ListedInv
    <2> QED BY <1>0, <1>1, <2>1, <2>2 DEF ListedInv, FirstBoot
<1> QED BY <1>2, <1>3, <1>4, <1>5, <1>6, <1>7, <1>8, <1>9, <1>10 DEF KmeBoot

(***************************************************************************)
(* With any number of listeners, WPEs, orders and reused ids: as long as   *)
(* the KME has been started once, the response of no order is left behind  *)
(* where the purge, which follows the list of processed orders, cannot     *)
(* reach it, unless a WPE died.                                            *)
(***************************************************************************)
THEOREM AnsweredStayPurgeable == PoolSpec => []AnsweredOrderPurgeable
<1>1. PoolInit => PoolTypeInv /\ ListedInv
    <2>1. PoolInit => ListedInv
        BY PoolAssumption DEF PoolInit, StoreInit, ManagerInit, ListedInv, FirstBoot, WPEs
    <2> QED BY <2>1, InitPoolTypes
<1>2. PoolTypeInv /\ ListedInv /\ [PoolNext]_poolVars => (PoolTypeInv /\ ListedInv)'
    <2> SUFFICES ASSUME PoolTypeInv, ListedInv, [PoolNext]_poolVars PROVE ListedInv'
        BY NextPoolTypes
    <2>1. ASSUME NEW l \in Listeners, PoolListenerStep(l) \/ Submission(l)
          PROVE  ListedInv'
        BY <2>1, ListedByListener DEF PoolListenerStep, Submission, ClientRequest
    <2>2. CASE (KmeStep \/ KmeCrash) /\ UNCHANGED listenerVars
        BY <2>2, ListedByKme DEF KmeStep
    <2>3. CASE UNCHANGED poolVars
        BY <2>3 DEF ListedInv, FirstBoot, Listed, Erasing, poolVars, storeVars, orderVars, queueVars,
                    registryVars, listenerVars, scanVars, managerVars, managerLocals, kmeVars
    <2> QED BY <2>1, <2>2, <2>3, ListedByWpe DEF PoolNext, KmeStep
<1>3. ListedInv => AnsweredOrderPurgeable
    BY DEF ListedInv, Listed, Erasing, AnsweredOrderPurgeable
<1> QED BY <1>1, <1>2, <1>3, PTL DEF PoolSpec

(***************************************************************************)
(* Orders and the WPEs that die                                            *)
(***************************************************************************)

BootPCs == {"boot", "boot_pool", "boot_read", "boot_next", "boot_reap"}

Answered(i) == <<i, 1>> \in answered

\* The listener has put the order into the queue and accepted it, or will.
Entrusted(i) ==
    \/ <<i, 1>> \in accepted
    \/ \E l \in Listeners : lpc[l] = "reply" /\ lreply[l] = "SUBMITTED" /\ lreq[l].id = i

LostIds == {i \in WoIds : /\ Entrusted(i) /\ ~ Answered(i) /\ ~ Queued(i)
                          /\ \A m \in Managers : mwo[m] # i}

Fallen == {m \in WPEs : mpc[m] = "down"}

\* Only ids that have been answered are purged, and none at boot, when the
\* store is still empty.
PurgesAnswered(l) ==
    /\ lpc[l] = "boot" => woTimestamps = {}
    /\ lpc[l] \in BootPCs => lids[l] = {} /\ lpc[l] # "boot_reap"
    /\ lpc[l] = "purge_read" =>
           \A n \in 1..Len(lscan[l]) : lscan[l][n][1] = "wo-worker-processed"
    /\ lpc[l] \notin BootPCs => \A i \in FoundIds(l) : Answered(i)
    /\ lpc[l] \in {"purge_unlist", "purge_remove"} => Answered(lvictim[l])

\* A submission is the first of its id and goes to the pool.
SubmitsToPool(l) ==
    /\ lpc[l] \in {"purge_pool", "purge_read", "purge_select", "purge_unlist", "purge_remove",
                   "check", "set_timestamp", "set_request", "schedule"}
           => lreq[l].num = 1 /\ lreq[l].worker = Pool
    /\ lpc[l] = "schedule" => woRequests[lreq[l].id] = 1 \/ Answered(lreq[l].id)
    /\ lpc[l] = "reply" /\ lreply[l] = "SUBMITTED" => lreq[l].num = 1

\* The request of an order that waits or is held is there until it is answered.
RequestKept(i) ==
    /\ Queued(i) \/ (\E m \in WPEs : mwo[m] = i) => woRequests[i] = 1 \/ Answered(i)
    /\ woRequests[i] \in {0, 1}

\* A WPE holds an order only while it processes it.
HoldsOrder(m) ==
    /\ mpc[m] \notin {"read", "mark", "execute", "receipt", "persist", "append", "clear"}
           => mwo[m] = 0
    /\ mpc[m] \in {"mark", "execute", "receipt", "persist"} => mreq[m] = 1
    /\ mpc[m] \in {"append", "clear"} => Answered(mwo[m])

\* What makes an order stay somewhere until it is answered.
KeepInv ==
    /\ \A s \in accepted : s[2] = 1
    /\ workers \subseteq {Pool}
    /\ \A l \in Listeners : PurgesAnswered(l) /\ SubmitsToPool(l)
    /\ \A w \in Workers : \A i \in ToSet(woProcessed[w]) : Answered(i)
    /\ \A i \in ToSet(mids[Kme]) : Answered(i)
    /\ mwo[Kme] = 0
    /\ \A i \in WoIds : RequestKept(i)
    /\ \A m \in WPEs : HoldsOrder(m)

(***************************************************************************)
(* A purge looks for processed orders, and finds orders that are listed as *)
(* such when it reads.                                                     *)
(***************************************************************************)
LEMMA PurgeFinds ==
    ASSUME PoolTypeInv, NEW l \in Listeners, PurgesAnswered(l),
           \A w \in Workers : \A i \in ToSet(woProcessed[w]) : Answered(i),
           PurgeLookupPool(l) \/ PurgeRead(l)
    PROVE  /\ lpc'[l] \in {"purge_read", "purge_select"}
           /\ \A n \in 1..Len(lscan'[l]) : lscan'[l][n][1] = "wo-worker-processed"
           /\ \A i \in FoundIds(l)' : Answered(i)
<1>0. StoreTypeOK /\ ListenerTypeOK /\ ListenerFormed(l)
    BY DEF PoolTypeInv
<1>1. CASE PurgeLookupPool(l)
    <2>1. /\ lpc[l] = "purge_pool" /\ lpc'[l] \in {"purge_select", "purge_read"}
          /\ UNCHANGED lfound
        BY <1>0, <1>1 DEF PurgeLookupPool, ListenerTypeOK, GoTo
    <2>2. PICK ws \in SetToSeqs(CsvKeys(workerPool)) :
              lscan' = [lscan EXCEPT ![l] = [k \in 1..Len(ws) |-> <<"wo-worker-processed", ws[k]>>]]
        BY <1>1 DEF PurgeLookupPool, LookupPool
    <2>3. lscan'[l] = [k \in 1..Len(ws) |-> <<"wo-worker-processed", ws[k]>>]
        BY <1>0, <2>2 DEF ListenerTypeOK
    <2>4. Len(ws) \in Nat
        <3>1. CsvKeys(workerPool) \subseteq Workers
            BY <1>0 DEF CsvKeys, StoreTypeOK
        <3>2. Cardinality(CsvKeys(workerPool)) \in Nat
            BY <3>1, ListenerAssumption, FS_Subset, FS_CardinalityType
        <3>3. ws \in [1..Cardinality(CsvKeys(workerPool)) -> CsvKeys(workerPool)]
            BY <2>2 DEF SetToSeqs
        <3> QED BY <3>2, <3>3
    <2>5. \A n \in 1..Len(lscan'[l]) : lscan'[l][n][1] = "wo-worker-processed"
        BY <2>3, <2>4
    <2>6. FoundIds(l)' = FoundIds(l) /\ lpc[l] \notin BootPCs
        BY <2>1 DEF FoundIds, BootPCs
    <2> QED BY <2>1, <2>5, <2>6 DEF PurgesAnswered
<1>2. CASE PurgeRead(l)
    <2> DEFINE item == Head(lscan[l])
    <2>1. /\ lpc[l] = "purge_read" /\ lpc'[l] \in {"purge_select", "purge_read"}
          /\ lfound'[l] = Override(lfound[l], ReadIds(item))
          /\ lscan'[l] = Tail(lscan[l])
        BY <1>0, <1>2 DEF PurgeRead, ListenerTypeOK, GoTo
    <2>2. lscan[l] \in Seq(ScanItems) /\ lscan[l] # <<>>
        BY <1>0, <2>1 DEF ListenerTypeOK, ListenerFormed
    <2>3. /\ item \in ScanItems /\ item = lscan[l][1]
          /\ Len(lscan[l]) \in Nat \ {0} /\ Len(lscan'[l]) = Len(lscan[l]) - 1
          /\ \A n \in 1..Len(lscan'[l]) : lscan'[l][n] = lscan[l][n + 1]
        BY <2>1, <2>2
    <2>4. item[1] = "wo-worker-processed"
        BY <2>1, <2>3 DEF PurgesAnswered
    <2>5. \A n \in 1..Len(lscan'[l]) : lscan'[l][n][1] = "wo-worker-processed"
        BY <2>1, <2>3 DEF PurgesAnswered
    <2>6. item[2] \in Workers
        BY <2>3, <2>4 DEF ScanItems
    <2>7. ReadIds(item) = ToSet(woProcessed[item[2]]) \X {item[2]}
        BY <2>4 DEF ReadIds
    <2> HIDE DEF item
    <2>8. ASSUME NEW i \in FoundIds(l)' PROVE Answered(i)
        <3>1. PICK f \in lfound'[l] : i = f[1]
            BY DEF FoundIds
        <3>2. CASE f \in ReadIds(item)
            BY <2>6, <2>7, <3>1, <3>2
        <3>3. CASE f \in lfound[l]
            <4>1. i \in FoundIds(l) /\ lpc[l] \notin BootPCs
                BY <2>1, <3>1, <3>3 DEF FoundIds, BootPCs
            <4> QED BY <4>1 DEF PurgesAnswered
        <3> QED BY <2>1, <3>1, <3>2, <3>3 DEF Override
    <2> QED BY <2>1, <2>5, <2>8
<1> QED BY <1>1, <1>2

(***************************************************************************)
(* A step of the only listener keeps KeepInv and loses no order if it      *)
(* keeps its own part of the invariant, removes requests of answered       *)
(* orders only, unlists only processed orders, and leaves the queue.       *)
(***************************************************************************)
LEMMA KeepFrame ==
    ASSUME PoolTypeInv, KeepInv, NEW l, Listeners = {l}, UNCHANGED managerVars,
           UNCHANGED <<accepted, workers, woScheduled>>,
           \A w \in Workers : ToSet(woProcessed'[w]) \subseteq ToSet(woProcessed[w]),
           \A i \in WoIds : \/ woRequests'[i] = woRequests[i]
                            \/ woRequests'[i] = 0 /\ Answered(i),
           PurgesAnswered(l)', SubmitsToPool(l)',
           lpc'[l] = "reply" => lreply'[l] # "SUBMITTED"
    PROVE  KeepInv' /\ LostIds' \subseteq LostIds
<1>0. UNCHANGED <<mpc, mwo, mreq, mids, answered>>
    BY DEF managerVars, managerLocals, runVars
<1>1. \A i : Answered(i)' <=> Answered(i)
    BY <1>0 DEF Answered
<1>2. \A i : Queued(i)' <=> Queued(i)
    BY DEF Queued
<1>3. \A i \in WoIds : RequestKept(i)'
    <2> SUFFICES ASSUME NEW i \in WoIds PROVE RequestKept(i)'
        OBVIOUS
    <2>1. RequestKept(i)
        BY DEF KeepInv
    <2> QED BY <1>0, <1>1, <1>2, <2>1 DEF RequestKept
<1>4. \A m \in WPEs : HoldsOrder(m)'
    BY <1>0, <1>1 DEF KeepInv, HoldsOrder
<1>5. KeepInv'
    BY <1>0, <1>1, <1>3, <1>4 DEF KeepInv
<1>6. \A i : Entrusted(i)' => Entrusted(i)
    BY DEF Entrusted
<1>7. LostIds' \subseteq LostIds
    BY <1>0, <1>1, <1>2, <1>6 DEF LostIds
<1> QED BY <1>5, <1>7

(***************************************************************************)
(* Every step of the only listener keeps KeepInv and loses no order.       *)
(***************************************************************************)
LEMMA KeepByListener ==
    ASSUME PoolTypeInv, KeepInv, NEW l, Listeners = {l}, MaxSubmits <= 1,
           \/ ListenerStep(l)
           \/ \E i \in WoIds, w \in Workers : SubmitReceive(l, i, w),
           UNCHANGED managerVars
    PROVE  KeepInv' /\ LostIds' \subseteq LostIds
<1> USE DEF storeVars, orderVars, queueVars, registryVars, scanVars, clientVars, GoTo, EndScan,
            Answer
<1>0. /\ l \in Listeners /\ StoreTypeOK /\ ListenerTypeOK /\ ListenerFormed(l)
      /\ lpc \in [Listeners -> ListenerPCs] /\ lreply \in [Listeners -> Replies]
      /\ lreq \in [Listeners -> [id : WoIds \cup {0}, worker : Workers, num : Nat]]
      /\ lids \in [Listeners -> SUBSET WoIds] /\ lfound \in [Listeners -> SUBSET (WoIds \X Workers)]
      /\ lvictim \in [Listeners -> WoIds \cup {0}]
      /\ woRequests \in [WoIds -> Nat] /\ woScheduled \in [Workers -> Seq(WoIds)]
      /\ PurgesAnswered(l) /\ SubmitsToPool(l) /\ Pool \in Workers
      /\ \A w \in Workers : \A i \in ToSet(woProcessed[w]) : Answered(i)
    BY PoolAssumption DEF PoolTypeInv, ListenerTypeOK, StoreTypeOK, KeepInv
<1>a. answered' = answered /\ UNCHANGED <<mwo, mids, mreq, mpc>> /\ \A i : Answered(i)' <=> Answered(i)
    BY DEF managerVars, managerLocals, runVars, Answered
<1>1. CASE BootLookup(l)
    <2>1. PurgesAnswered(l)' /\ SubmitsToPool(l)'
        BY <1>0, <1>1 DEF BootLookup, PurgesAnswered, SubmitsToPool, BootPCs
    <2>2. lpc'[l] # "reply" /\ UNCHANGED <<accepted, workers, woScheduled, woProcessed, woRequests>>
        BY <1>0, <1>1 DEF BootLookup
    <2> QED BY <2>1, <2>2, KeepFrame
<1>2. CASE BootLookupPool(l) \/ BootRead(l)
    <2>1. /\ lpc[l] \in BootPCs /\ lpc'[l] \in {"boot_read", "boot_next"} /\ lids' = lids
          /\ UNCHANGED <<accepted, workers, woScheduled, woProcessed, woRequests>>
        BY <1>0, <1>2 DEF BootLookupPool, BootRead, BootPCs
    <2>2. PurgesAnswered(l)' /\ SubmitsToPool(l)'
        BY <1>0, <2>1 DEF PurgesAnswered, SubmitsToPool, BootPCs
    <2> QED BY <2>1, <2>2, KeepFrame
<1>3. CASE BootKeep(l) \/ BootDiscard(l) \/ BootReap(l)
    BY <1>0, <1>3 DEF BootKeep, BootDiscard, BootReap, PurgesAnswered, BootPCs
<1>4. CASE BootDone(l)
    <2>1. /\ lpc'[l] = "idle" /\ lfound'[l] = {}
          /\ UNCHANGED <<accepted, workers, woScheduled, woProcessed, woRequests>>
        BY <1>0, <1>4 DEF BootDone
    <2>2. PurgesAnswered(l)' /\ SubmitsToPool(l)'
        BY <2>1 DEF PurgesAnswered, SubmitsToPool, BootPCs, FoundIds
    <2> QED BY <2>1, <2>2, KeepFrame
<1>5. CASE PurgeLookupPool(l) \/ PurgeRead(l)
    <2>1. /\ lpc[l] \in {"purge_pool", "purge_read"} /\ lreq' = lreq
          /\ UNCHANGED <<accepted, workers, woScheduled, woProcessed, woRequests>>
        BY <1>0, <1>5 DEF PurgeLookupPool, PurgeRead
    <2>2. /\ lpc'[l] \in {"purge_read", "purge_select"}
          /\ \A n \in 1..Len(lscan'[l]) : lscan'[l][n][1] = "wo-worker-processed"
          /\ \A i \in FoundIds(l)' : Answered(i)
        BY <1>0, <1>5, PurgeFinds
    <2>3. PurgesAnswered(l)' /\ SubmitsToPool(l)'
        BY <1>0, <1>a, <2>1, <2>2 DEF PurgesAnswered, SubmitsToPool, BootPCs
    <2> QED BY <2>1, <2>2, <2>3, KeepFrame
<1>6. CASE PurgeSelect(l)
    <2>1. /\ lpc[l] = "purge_select" /\ lreq' = lreq
          /\ UNCHANGED <<accepted, workers, woScheduled, woProcessed, woRequests, woTimestamps>>
        BY <1>6 DEF PurgeSelect
    <2>2. CASE PurgeCandidates(l) = {}
        <3>1. lpc'[l] = "reply" /\ lreply'[l] = "BUSY" /\ lfound'[l] = {}
            BY <1>0, <1>6, <2>2 DEF PurgeSelect
        <3>2. PurgesAnswered(l)' /\ SubmitsToPool(l)'
            BY <3>1 DEF PurgesAnswered, SubmitsToPool, BootPCs, FoundIds
        <3> QED BY <2>1, <3>1, <3>2, KeepFrame
    <2>3. CASE PurgeCandidates(l) # {}
        <3>1. /\ lpc'[l] = "purge_unlist" /\ lvictim'[l] = FirstKey(PurgeCandidates(l))
              /\ lfound' = lfound
            BY <1>0, <1>6, <2>3 DEF PurgeSelect
        <3>2. PurgeCandidates(l) \in SUBSET WoIds
            BY <1>0 DEF PurgeCandidates, StoreTypeOK
        <3>3. FirstKey(PurgeCandidates(l)) \in FoundIds(l)
            BY <2>3, <3>2, FirstKeyMember DEF PurgeCandidates
        <3>4. \A i \in FoundIds(l) : Answered(i)
            BY <1>0, <2>1 DEF PurgesAnswered, BootPCs
        <3>5. \A i \in FoundIds(l)' : Answered(i)'
            BY <1>a, <3>1, <3>4 DEF FoundIds
        <3>6. Answered(lvictim[l])'
            BY <1>a, <3>1, <3>3, <3>4 DEF Answered
        <3>7. PurgesAnswered(l)' /\ SubmitsToPool(l)'
            BY <1>0, <2>1, <3>1, <3>5, <3>6 DEF PurgesAnswered, SubmitsToPool, BootPCs
        <3> QED BY <2>1, <3>1, <3>7, KeepFrame
    <2> QED BY <2>2, <2>3
<1>7. CASE PurgeUnlist(l)
    <2>1. /\ lpc[l] = "purge_unlist" /\ lpc'[l] = "purge_remove"
          /\ UNCHANGED <<lreq, lfound, lvictim>>
          /\ UNCHANGED <<accepted, workers, woScheduled, woRequests, woTimestamps>>
        BY <1>0, <1>7 DEF PurgeUnlist
    <2>2. PICK v \in Workers : woProcessed' = CsvSearchDelete(woProcessed, v, lvictim[l])
        BY <1>7 DEF PurgeUnlist
    <2>3. woProcessed \in [Workers -> Seq(WoIds)]
        BY <1>0 DEF StoreTypeOK
    <2>4. ToSet(RemoveFirst(woProcessed[v], lvictim[l])) \subseteq ToSet(woProcessed[v])
        BY <2>3, RemoveFirstProperties
    <2>5. \A w \in Workers : ToSet(woProcessed'[w]) \subseteq ToSet(woProcessed[w])
        BY <2>2, <2>3, <2>4 DEF CsvSearchDelete
    <2>6. PurgesAnswered(l)' /\ SubmitsToPool(l)'
        BY <1>0, <1>a, <2>1 DEF PurgesAnswered, SubmitsToPool, BootPCs, FoundIds, Answered
    <2> QED BY <2>1, <2>5, <2>6, KeepFrame
<1>8. CASE PurgeRemove(l) \/ PurgeFinish(l)
    <2>1. /\ lpc[l] = "purge_remove" /\ lvictim[l] \in WoIds
          /\ UNCHANGED <<lreq, accepted, workers, woScheduled, woProcessed>>
          /\ \A i \in WoIds : woRequests'[i] = woRequests[i] \/ (woRequests'[i] = 0 /\ i = lvictim[l])
        BY <1>0, <1>8 DEF PurgeRemove, PurgeFinish, RemoveRecord, ListenerFormed
    <2>2. Answered(lvictim[l]) /\ \A i \in FoundIds(l) : Answered(i)
        BY <1>0, <2>1 DEF PurgesAnswered, BootPCs
    <2>3. CASE PurgeRemove(l)
        <3>1. lpc' = lpc /\ UNCHANGED <<lfound, lvictim>>
            BY <2>3 DEF PurgeRemove
        <3>2. PurgesAnswered(l)' /\ SubmitsToPool(l)'
            BY <1>0, <1>a, <2>1, <2>2, <3>1 DEF PurgesAnswered, SubmitsToPool, BootPCs, FoundIds, Answered
        <3> QED BY <2>1, <2>2, <3>1, <3>2, KeepFrame
    <2>4. CASE PurgeFinish(l)
        <3>1. lfound'[l] = {} /\ \/ lpc'[l] = "check" 
                                 \/ lpc'[l] = "reply" /\ lreply'[l] \in {"BUSY", "ERROR"}
            BY <1>0, <2>4 DEF PurgeFinish
        <3>2. PurgesAnswered(l)' /\ SubmitsToPool(l)'
            BY <1>0, <2>1, <3>1 DEF PurgesAnswered, SubmitsToPool, BootPCs, FoundIds
        <3> QED BY <2>1, <2>2, <3>1, <3>2, KeepFrame
    <2> QED BY <1>8, <2>3, <2>4
<1>9. CASE SubmitCheck(l) \/ SubmitTimestamp(l)
    <2>1. /\ lpc[l] \in {"check", "set_timestamp"}
          /\ UNCHANGED <<lreq, lfound, accepted, workers, woScheduled, woProcessed, woRequests>>
          /\ \/ lpc'[l] \in {"set_timestamp", "set_request"}
             \/ lpc'[l] = "reply" /\ lreply'[l] = "EXISTS"
        BY <1>0, <1>9 DEF SubmitCheck, SubmitTimestamp
    <2>2. PurgesAnswered(l)' /\ SubmitsToPool(l)'
        BY <1>0, <1>a, <2>1 DEF PurgesAnswered, SubmitsToPool, BootPCs, FoundIds
    <2> QED BY <2>1, <2>2, KeepFrame
<1>10. CASE SubmitRequest(l)
    <2>1. /\ lpc[l] = "set_request" /\ lpc'[l] = "schedule" /\ lreq[l].id \in WoIds
          /\ lreq[l].num = 1
          /\ UNCHANGED <<lreq, lfound, accepted, workers, woScheduled, woProcessed>>
          /\ woRequests' = [woRequests EXCEPT ![lreq[l].id] = 1]
        BY <1>0, <1>10 DEF SubmitRequest, ListenerFormed, SubmitsToPool
    <2>2. PurgesAnswered(l)' /\ SubmitsToPool(l)'
        BY <1>0, <1>a, <2>1 DEF PurgesAnswered, SubmitsToPool, BootPCs, FoundIds
    <2>3. \A i \in WoIds : RequestKept(i)'
        <3> SUFFICES ASSUME NEW i \in WoIds PROVE RequestKept(i)'
            OBVIOUS
        <3>1. RequestKept(i) /\ (Queued(i)' <=> Queued(i))
            BY <2>1 DEF KeepInv, Queued
        <3>2. woRequests'[i] = 1 \/ woRequests'[i] = woRequests[i]
            BY <1>0, <2>1
        <3> QED BY <1>a, <3>1, <3>2 DEF RequestKept
    <2>4. \A m \in WPEs : HoldsOrder(m)'
        BY <1>a DEF KeepInv, HoldsOrder
    <2>5. KeepInv'
        BY <1>a, <2>1, <2>2, <2>3, <2>4 DEF KeepInv
    <2>6. LostIds' \subseteq LostIds
        BY <1>a, <2>1 DEF LostIds, Entrusted, Queued
    <2> QED BY <2>5, <2>6
<1>11. CASE SubmitSchedule(l)
    <2>1. /\ lpc[l] = "schedule" /\ lpc'[l] = "reply" /\ lreply'[l] = "SUBMITTED"
          /\ lreq[l].id \in WoIds /\ lreq[l].num = 1 /\ lreq[l].worker = Pool
          /\ UNCHANGED <<lreq, lfound, accepted, workers, woRequests, woProcessed>>
          /\ woScheduled' = CsvAppend(woScheduled, Pool, lreq[l].id)
        BY <1>0, <1>11 DEF SubmitSchedule, ListenerFormed, SubmitsToPool
    <2>2. PurgesAnswered(l)' /\ SubmitsToPool(l)'
        BY <1>0, <1>a, <2>1 DEF PurgesAnswered, SubmitsToPool, BootPCs, FoundIds
    <2>3. woScheduled'[Pool] = Append(woScheduled[Pool], lreq[l].id)
        BY <1>0, <2>1 DEF CsvAppend
    <2>4. ToSet(woScheduled'[Pool]) = ToSet(woScheduled[Pool]) \cup {lreq[l].id}
        BY <1>0, <2>1, <2>3, AppendToSet
    <2>5. \A i : Queued(i)' <=> Queued(i) \/ i = lreq[l].id
        BY <2>4 DEF Queued
    <2>6. woRequests[lreq[l].id] = 1 \/ Answered(lreq[l].id)
        BY <1>0, <2>1 DEF SubmitsToPool
    <2>7. \A i \in WoIds : RequestKept(i)'
        <3> SUFFICES ASSUME NEW i \in WoIds PROVE RequestKept(i)'
            OBVIOUS
        <3>1. RequestKept(i)
            BY DEF KeepInv
        <3> QED BY <1>a, <2>1, <2>5, <2>6, <3>1 DEF RequestKept
    <2>8. \A m \in WPEs : HoldsOrder(m)'
        BY <1>a DEF KeepInv, HoldsOrder
    <2>9. KeepInv'
        BY <1>a, <2>1, <2>2, <2>7, <2>8 DEF KeepInv
    <2>10. \A i : Entrusted(i)' => Entrusted(i) \/ i = lreq[l].id
        BY <2>1 DEF Entrusted
    <2>11. LostIds' \subseteq LostIds
        BY <1>a, <2>5, <2>10 DEF LostIds
    <2> QED BY <2>9, <2>11
<1>12. CASE GetResultTimestamp(l) \/ ReceiptStore(l)
    <2>1. /\ lpc[l] \in {"get_timestamp", "store_receipt"}
          /\ UNCHANGED <<lreq, lfound, accepted, workers, woScheduled, woProcessed, woRequests>>
          /\ lpc'[l] = "reply" /\ lreply'[l] \in {"PENDING", "INVALID", "EXISTS", "SUCCESS"}
        BY <1>0, <1>12 DEF GetResultTimestamp, ReceiptStore
    <2>2. PurgesAnswered(l)' /\ SubmitsToPool(l)'
        BY <1>0, <1>a, <2>1 DEF PurgesAnswered, SubmitsToPool, BootPCs, FoundIds
    <2> QED BY <2>1, <2>2, KeepFrame
<1>13. CASE Reply(l)
    <2>1. /\ lpc[l] = "reply" /\ lpc'[l] = "idle"
          /\ UNCHANGED <<lfound, workers, woScheduled, woProcessed, woRequests>>
          /\ accepted' = IF lreply[l] = "SUBMITTED"
                         THEN accepted \cup {<<lreq[l].id, lreq[l].num>>} ELSE accepted
        BY <1>0, <1>13 DEF Reply
    <2>2. PurgesAnswered(l)' /\ SubmitsToPool(l)'
        BY <1>0, <1>a, <2>1 DEF PurgesAnswered, SubmitsToPool, BootPCs, FoundIds
    <2>3. CASE lreply[l] = "SUBMITTED"
        <3>1. accepted' = accepted \cup {<<lreq[l].id, 1>>}
            BY <1>0, <2>1, <2>3 DEF SubmitsToPool
        <3>2. \A i \in WoIds : RequestKept(i)'
            BY <1>a, <2>1 DEF KeepInv, RequestKept, Queued
        <3>3. \A m \in WPEs : HoldsOrder(m)'
            BY <1>a DEF KeepInv, HoldsOrder
        <3>4. KeepInv'
            BY <1>a, <2>1, <2>2, <3>1, <3>2, <3>3 DEF KeepInv
        <3>5. \A i : Entrusted(i)' => Entrusted(i)
            BY <1>0, <2>1, <2>3, <3>1 DEF Entrusted
        <3>6. LostIds' \subseteq LostIds
            BY <1>a, <2>1, <3>5 DEF LostIds, Queued
        <3> QED BY <3>4, <3>6
    <2>4. CASE lreply[l] # "SUBMITTED"
        BY <2>1, <2>2, <2>4, KeepFrame
    <2> QED BY <2>3, <2>4
<1>14. ASSUME NEW i \in WoIds, NEW w \in Workers, SubmitReceive(l, i, w)
       PROVE  KeepInv' /\ LostIds' \subseteq LostIds
    <2>1. /\ lpc[l] = "idle" /\ submits[i] < MaxSubmits
          /\ lreq'[l] = [id |-> i, worker |-> w, num |-> submits[i] + 1]
          /\ UNCHANGED <<lfound, accepted, workers, woScheduled, woProcessed, woRequests>>
          /\ \/ lpc'[l] = "reply" /\ lreply'[l] = "NO_WORKER"
             \/ w \in workers /\ lpc'[l] \in {"purge_pool", "check"}
        BY <1>0, <1>14 DEF SubmitReceive
    <2>2. submits[i] = 0
        BY <1>0, <2>1, ListenerAssumption DEF ListenerTypeOK
    <2>3. w \in workers => w = Pool
        BY DEF KeepInv
    <2>4. PurgesAnswered(l)' /\ SubmitsToPool(l)'
        BY <1>0, <1>a, <2>1, <2>2, <2>3 DEF PurgesAnswered, SubmitsToPool, BootPCs, FoundIds
    <2> QED BY <2>1, <2>4, KeepFrame
<1> QED BY <1>1, <1>2, <1>3, <1>4, <1>5, <1>6, <1>7, <1>8, <1>9, <1>10, <1>11, <1>12, <1>13, <1>14
        DEF ListenerStep

(***************************************************************************)
(* The listeners' part of KeepInv survives a step of a manager that adds   *)
(* no timestamp and removes requests of answered orders only.              *)
(***************************************************************************)
LEMMA KeepListeners ==
    ASSUME KeepInv, PoolTypeInv, UNCHANGED listenerVars, answered \subseteq answered',
           woTimestamps' \subseteq woTimestamps,
           \A i \in WoIds : woRequests'[i] = woRequests[i] \/ Answered(i)
    PROVE  /\ \A s \in accepted' : s[2] = 1
           /\ \A l \in Listeners : PurgesAnswered(l)' /\ SubmitsToPool(l)'
           /\ \A i : Entrusted(i)' <=> Entrusted(i)
           /\ \A i : Answered(i) => Answered(i)'
<1>0. UNCHANGED <<lpc, lreq, lreply, lids, lscan, lfound, lvictim, accepted>>
    BY DEF listenerVars, scanVars, clientVars
<1>1. \A i : Answered(i) => Answered(i)'
    BY DEF Answered
<1>2. ASSUME NEW l \in Listeners PROVE PurgesAnswered(l)' /\ SubmitsToPool(l)'
    <2>1. PurgesAnswered(l) /\ SubmitsToPool(l)
        BY DEF KeepInv
    <2>2. PurgesAnswered(l)'
        BY <1>0, <1>1, <2>1 DEF PurgesAnswered, FoundIds, Answered
    <2>3. lpc[l] = "schedule" => lreq[l].id \in WoIds
        BY DEF PoolTypeInv, ListenerFormed
    <2>4. SubmitsToPool(l)'
        BY <1>0, <1>1, <2>1, <2>3 DEF SubmitsToPool, Answered
    <2> QED BY <2>2, <2>4
<1>3. \A i : Entrusted(i)' <=> Entrusted(i)
    BY <1>0 DEF Entrusted
<1>4. \A s \in accepted' : s[2] = 1
    BY <1>0 DEF KeepInv
<1> QED BY <1>1, <1>2, <1>3, <1>4

(***************************************************************************)
(* Every step of a WPE keeps KeepInv, and loses at most the order the WPE  *)
(* held, if it dies.                                                       *)
(***************************************************************************)
LEMMA KeepByWpe ==
    ASSUME PoolTypeInv, KeepInv, NEW m \in WPEs,
           WpeStep(m) \/ (ManagerCrash(m) /\ UNCHANGED kmeVars), UNCHANGED listenerVars
    PROVE  /\ KeepInv'
           /\ \/ LostIds' \subseteq LostIds /\ Fallen' = Fallen
              \/ /\ LostIds' \subseteq LostIds \cup {mwo[m]}
                 /\ m \notin Fallen /\ Fallen' = Fallen \cup {m}
<1> USE DEF storeVars, orderVars, queueVars, registryVars, managerLocals, runVars, MGoTo
<1>0. /\ m \in Managers /\ m # Kme /\ Kme \in Managers /\ WPEs \subseteq Managers
      /\ Pool \in Workers /\ WorkerOf[m] = Pool
      /\ mpc \in [Managers -> PoolPCs] /\ mwo \in [Managers -> WoIds \cup {0}]
      /\ mreq \in [Managers -> Nat] /\ mids \in [Managers -> Seq(WoIds)]
      /\ woScheduled \in [Workers -> Seq(WoIds)] /\ woProcessed \in [Workers -> Seq(WoIds)]
      /\ woRequests \in [WoIds -> Nat] /\ ManagerFormed(m) /\ HoldsOrder(m)
    BY PoolAssumption DEF WPEs, PoolTypeInv, StoreTypeOK, ManagerTypesWith, KeepInv
\* Steps that leave queue, requests and list alone, and do not give up an order.
<1>1. ASSUME UNCHANGED <<woTimestamps, woRequests, woScheduled, woProcessed, workers, mwo>>,
             answered \subseteq answered',
             \A n \in Managers \ {m} :
                 mpc'[n] = mpc[n] /\ mreq'[n] = mreq[n] /\ mids'[n] = mids[n],
             mpc[m] # "down", mpc'[m] # "down", HoldsOrder(m)'
      PROVE  KeepInv' /\ LostIds' \subseteq LostIds /\ Fallen' = Fallen
    <2>1. /\ \A s \in accepted' : s[2] = 1
          /\ \A l \in Listeners : PurgesAnswered(l)' /\ SubmitsToPool(l)'
          /\ \A i : Entrusted(i)' <=> Entrusted(i)
          /\ \A i : Answered(i) => Answered(i)'
        BY <1>1, KeepListeners
    <2>2. \A i \in WoIds : RequestKept(i)'
        BY <1>1, <2>1 DEF KeepInv, RequestKept, Queued
    <2>3. \A n \in WPEs : HoldsOrder(n)'
        BY <1>0, <1>1, <2>1 DEF KeepInv, HoldsOrder, Answered
    <2>4. KeepInv'
        BY <1>0, <1>1, <2>1, <2>2, <2>3 DEF KeepInv
    <2>5. LostIds' \subseteq LostIds
        BY <1>1, <2>1 DEF LostIds, Queued
    <2>6. Fallen' = Fallen
        BY <1>0, <1>1 DEF Fallen
    <2> QED BY <2>4, <2>5, <2>6
<1>2. ASSUME Exit(m), mpc[m] # "down", UNCHANGED <<storeVars, runVars>>
      PROVE  /\ KeepInv' /\ LostIds' \subseteq LostIds \cup {mwo[m]}
             /\ m \notin Fallen /\ Fallen' = Fallen \cup {m}
    <2>0. /\ mpc'[m] = "down" /\ mwo'[m] = 0 /\ answered' = answered
          /\ \A n \in Managers \ {m} : /\ mpc'[n] = mpc[n] /\ mwo'[n] = mwo[n]
                                       /\ mreq'[n] = mreq[n] /\ mids'[n] = mids[n]
          /\ UNCHANGED <<woTimestamps, woRequests, woScheduled, woProcessed, workers>>
        BY <1>0, <1>2 DEF Exit
    <2>1. /\ \A s \in accepted' : s[2] = 1
          /\ \A l \in Listeners : PurgesAnswered(l)' /\ SubmitsToPool(l)'
          /\ \A i : Entrusted(i)' <=> Entrusted(i)
          /\ \A i : Answered(i) => Answered(i)'
        BY <2>0, KeepListeners
    <2>2. \A i \in WoIds : RequestKept(i)'
        <3> SUFFICES ASSUME NEW i \in WoIds PROVE RequestKept(i)'
            OBVIOUS
        <3>1. RequestKept(i) /\ i # 0
            BY StoreAssumption DEF KeepInv
        <3>2. \A n \in WPEs : mwo'[n] = i => mwo[n] = i
            BY <1>0, <2>0, <3>1
        <3> QED BY <2>0, <2>1, <3>1, <3>2 DEF RequestKept, Queued
    <2>3. \A n \in WPEs : HoldsOrder(n)'
        BY <1>0, <2>0, <2>1 DEF KeepInv, HoldsOrder, Answered
    <2>4. KeepInv'
        BY <1>0, <2>0, <2>1, <2>2, <2>3 DEF KeepInv
    <2>5. LostIds' \subseteq LostIds \cup {mwo[m]}
        BY <2>0, <2>1 DEF LostIds, Queued, Answered
    <2>6. m \notin Fallen /\ Fallen' = Fallen \cup {m}
        BY <1>0, <1>2, <2>0 DEF Fallen
    <2> QED BY <2>4, <2>5, <2>6
<1>3. CASE WpeReadWorker(m)
    <2>1. HoldsOrder(m)'
        BY <1>0, <1>3 DEF WpeReadWorker, HoldsOrder
    <2> QED BY <1>0, <1>1, <1>3, <2>1 DEF WpeReadWorker
<1>4. CASE WpeGetUniqueId(m)
    <2>1. HoldsOrder(m)'
        BY <1>0, <1>4 DEF WpeGetUniqueId, HoldsOrder
    <2> QED BY <1>0, <1>1, <1>4, <2>1 DEF WpeGetUniqueId
<1>5. CASE WpeSignup(m) \/ WpeRegister(m)
    <2>1. HoldsOrder(m)'
        BY <1>0, <1>5 DEF WpeSignup, WpeRegister, HoldsOrder
    <2> QED BY <1>0, <1>1, <1>5, <2>1 DEF WpeSignup, WpeRegister
<1>6. CASE WpeJoinPool(m)
    <2>1. HoldsOrder(m)'
        BY <1>0, <1>6 DEF WpeJoinPool, HoldsOrder
    <2> QED BY <1>0, <1>1, <1>6, <2>1 DEF WpeJoinPool
<1>7. CASE WpeExecute(m) \/ WpeKeysStale(m)
    <2>1. HoldsOrder(m)'
        BY <1>0, <1>7 DEF WpeExecute, Execute, WpeKeysStale, HoldsOrder
    <2> QED BY <1>0, <1>1, <1>7, <2>1 DEF WpeExecute, Execute, WpeKeysStale
<1>8. CASE WpeRefused(m) \/ WpeRaises(m) \/ ManagerCrash(m)
    BY <1>2, <1>8 DEF WpeRefused, WpeRaises, EnclaveRaises, ManagerCrash
<1>9. CASE Pop(m)
    <2> DEFINE i == Head(woScheduled[Pool])
    <2>1. /\ mpc[m] = "poll" /\ mpc'[m] = "read" /\ mwo[m] = 0
          /\ woScheduled[Pool] # <<>> /\ woScheduled'[Pool] = Tail(woScheduled[Pool])
          /\ mwo' = [mwo EXCEPT ![m] = i]
          /\ UNCHANGED <<woTimestamps, woRequests, woProcessed, workers, answered, mreq, mids>>
          /\ \A n \in Managers \ {m} : mpc'[n] = mpc[n]
        BY <1>0, <1>9 DEF Pop, CsvPop, HoldsOrder
    <2>2. i \in WoIds /\ ToSet(woScheduled[Pool]) = ToSet(woScheduled'[Pool]) \cup {i}
        BY <1>0, <2>1, PopProperties
    <2> HIDE DEF i
    <2>3. /\ \A s \in accepted' : s[2] = 1
          /\ \A l \in Listeners : PurgesAnswered(l)' /\ SubmitsToPool(l)'
          /\ \A j : Entrusted(j)' <=> Entrusted(j)
          /\ \A j : Answered(j) => Answered(j)'
        BY <2>1, KeepListeners
    <2>4. \A j : Queued(j) <=> Queued(j)' \/ j = i
        BY <2>2 DEF Queued
    <2>5. mwo'[m] = i /\ \A n \in Managers \ {m} : mwo'[n] = mwo[n]
        BY <1>0, <2>1
    <2>6. \A j \in WoIds : RequestKept(j)'
        <3> SUFFICES ASSUME NEW j \in WoIds PROVE RequestKept(j)'
            OBVIOUS
        <3>1. RequestKept(j)
            BY DEF KeepInv
        <3>2. Queued(j)' \/ (\E n \in WPEs : mwo'[n] = j) => Queued(j) \/ \E n \in WPEs : mwo[n] = j
            BY <1>0, <2>4, <2>5
        <3> QED BY <2>1, <2>3, <3>1, <3>2 DEF RequestKept
    <2>7. \A n \in WPEs : HoldsOrder(n)'
        BY <1>0, <2>1, <2>3, <2>5 DEF KeepInv, HoldsOrder, Answered
    <2>8. KeepInv'
        BY <1>0, <2>1, <2>3, <2>5, <2>6, <2>7 DEF KeepInv
    <2>9. LostIds' \subseteq LostIds
        <3> SUFFICES ASSUME NEW j \in LostIds' PROVE j \in LostIds
            OBVIOUS
        <3>1. j \in WoIds /\ Entrusted(j) /\ ~ Answered(j) /\ ~ Queued(j)' /\ j # i
              /\ \A n \in Managers : mwo'[n] # j
            BY <1>0, <2>1, <2>3, <2>5 DEF LostIds
        <3>2. \A n \in Managers : mwo[n] # j
            BY <2>1, <2>5, <3>1, StoreAssumption
        <3> QED BY <2>4, <3>1, <3>2 DEF LostIds
    <2>10. Fallen' = Fallen
        BY <1>0, <2>1 DEF Fallen
    <2> QED BY <2>8, <2>9, <2>10
<1>10. CASE ReadRequest(m)
    <2>1. mwo[m] \in WoIds /\ (woRequests[mwo[m]] = 1 \/ Answered(mwo[m])) /\ woRequests[mwo[m]] \in {0, 1}
        BY <1>0, <1>10 DEF ReadRequest, ManagerFormed, KeepInv, RequestKept
    <2>2. HoldsOrder(m)'
        BY <1>0, <1>10, <2>1 DEF ReadRequest, HoldsOrder, Answered
    <2> QED BY <1>0, <1>1, <1>10, <2>2 DEF ReadRequest
<1>11. CASE MarkProcessing(m)
    <2>1. HoldsOrder(m)'
        BY <1>0, <1>11 DEF MarkProcessing, HoldsOrder
    <2> QED BY <1>0, <1>1, <1>11, <2>1 DEF MarkProcessing
<1>12. CASE UpdateReceipt(m)
    <2>1. CASE Exit(m)
        BY <1>2, <1>12, <2>1 DEF UpdateReceipt
    <2>2. CASE MGoTo(m, "persist") /\ UNCHANGED managerLocals
        <3>1. HoldsOrder(m)'
            BY <1>0, <1>12, <2>2 DEF UpdateReceipt, HoldsOrder
        <3> QED BY <1>0, <1>1, <1>12, <2>2, <3>1 DEF UpdateReceipt
    <2> QED BY <1>12, <2>1, <2>2 DEF UpdateReceipt
<1>13. CASE PersistResponse(m)
    <2>1. mpc[m] = "persist" /\ mreq[m] = 1 /\ mpc'[m] = "append" /\ mwo' = mwo
        BY <1>0, <1>13 DEF PersistResponse, HoldsOrder
    <2>2. answered' = answered \cup {<<mwo[m], 1>>}
        BY <1>13, <2>1 DEF PersistResponse
    <2>3. HoldsOrder(m)'
        BY <2>1, <2>2 DEF HoldsOrder, Answered
    <2> QED BY <1>0, <1>1, <1>13, <2>2, <2>3 DEF PersistResponse
<1>14. CASE AppendProcessed(m)
    <2>1. /\ mpc[m] = "append" /\ mpc'[m] = "clear" /\ mwo[m] \in WoIds /\ Answered(mwo[m])
          /\ woProcessed' = CsvAppend(woProcessed, Pool, mwo[m])
          /\ UNCHANGED <<woTimestamps, woRequests, woScheduled, workers, answered, mwo, mreq, mids>>
          /\ \A n \in Managers \ {m} : mpc'[n] = mpc[n]
        BY <1>0, <1>14 DEF AppendProcessed, ManagerFormed, HoldsOrder
    <2>2. /\ \A s \in accepted' : s[2] = 1
          /\ \A l \in Listeners : PurgesAnswered(l)' /\ SubmitsToPool(l)'
          /\ \A j : Entrusted(j)' <=> Entrusted(j)
          /\ \A j : Answered(j) => Answered(j)'
        BY <2>1, KeepListeners
    <2>3. ToSet(Append(woProcessed[Pool], mwo[m])) = ToSet(woProcessed[Pool]) \cup {mwo[m]}
        BY <1>0, <2>1, AppendToSet
    <2>4. \A w \in Workers : ToSet(woProcessed'[w]) \subseteq ToSet(woProcessed[w]) \cup {mwo[m]}
        BY <1>0, <2>1, <2>3 DEF CsvAppend
    <2>5. \A w \in Workers : \A j \in ToSet(woProcessed'[w]) : Answered(j)'
        BY <2>1, <2>2, <2>4 DEF KeepInv
    <2>6. \A j \in WoIds : RequestKept(j)'
        BY <2>1, <2>2 DEF KeepInv, RequestKept, Queued
    <2>7. \A n \in WPEs : HoldsOrder(n)'
        BY <1>0, <2>1, <2>2 DEF KeepInv, HoldsOrder, Answered
    <2>8. KeepInv'
        BY <1>0, <2>1, <2>2, <2>5, <2>6, <2>7 DEF KeepInv
    <2>9. LostIds' \subseteq LostIds
        BY <2>1, <2>2 DEF LostIds, Queued
    <2>10. Fallen' = Fallen
        BY <1>0, <2>1 DEF Fallen
    <2> QED BY <2>8, <2>9, <2>10
<1>15. CASE ClearProcessing(m)
    <2>1. /\ mpc[m] = "clear" /\ mpc'[m] = "poll" /\ Answered(mwo[m]) /\ mwo'[m] = 0
          /\ UNCHANGED <<woTimestamps, woRequests, woScheduled, woProcessed, workers, answered, mids>>
          /\ \A n \in Managers \ {m} : mpc'[n] = mpc[n] /\ mwo'[n] = mwo[n] /\ mreq'[n] = mreq[n]
        BY <1>0, <1>15 DEF ClearProcessing, HoldsOrder
    <2>2. /\ \A s \in accepted' : s[2] = 1
          /\ \A l \in Listeners : PurgesAnswered(l)' /\ SubmitsToPool(l)'
          /\ \A j : Entrusted(j)' <=> Entrusted(j)
          /\ \A j : Answered(j) => Answered(j)'
        BY <2>1, KeepListeners
    <2>3. \A j \in WoIds : RequestKept(j)'
        <3> SUFFICES ASSUME NEW j \in WoIds PROVE RequestKept(j)'
            OBVIOUS
        <3>1. RequestKept(j) /\ j # 0
            BY StoreAssumption DEF KeepInv
        <3>2. \A n \in WPEs : mwo'[n] = j => mwo[n] = j
            BY <1>0, <2>1, <3>1
        <3> QED BY <2>1, <2>2, <3>1, <3>2 DEF RequestKept, Queued
    <2>4. \A n \in WPEs : HoldsOrder(n)'
        BY <1>0, <2>1, <2>2 DEF KeepInv, HoldsOrder, Answered
    <2>5. KeepInv'
        BY <1>0, <2>1, <2>2, <2>3, <2>4 DEF KeepInv
    <2>6. LostIds' \subseteq LostIds
        <3> SUFFICES ASSUME NEW j \in LostIds' PROVE j \in LostIds
            OBVIOUS
        <3>1. j \in WoIds /\ Entrusted(j) /\ ~ Answered(j) /\ ~ Queued(j)
              /\ \A n \in Managers : mwo'[n] # j
            BY <2>1, <2>2 DEF LostIds, Queued
        <3> QED BY <2>1, <3>1 DEF LostIds
    <2>7. Fallen' = Fallen
        BY <1>0, <2>1 DEF Fallen
    <2> QED BY <2>5, <2>6, <2>7
<1> QED BY <1>3, <1>4, <1>5, <1>6, <1>7, <1>8, <1>9, <1>10, <1>11, <1>12, <1>13, <1>14, <1>15
        DEF WpeStep

(***************************************************************************)
(* Every step of the KME keeps KeepInv and loses no order: its clean-up    *)
(* removes what has been answered.                                         *)
(***************************************************************************)
LEMMA KeepByKme ==
    ASSUME PoolTypeInv, KeepInv, KmeBoot \/ KmeRestart \/ KmeCrash, UNCHANGED listenerVars
    PROVE  KeepInv' /\ LostIds' \subseteq LostIds /\ Fallen' = Fallen
<1> USE DEF storeVars, orderVars, queueVars, registryVars, managerLocals, runVars, kmeVars, MGoTo
<1>0. /\ Kme \in Managers /\ Kme \notin WPEs /\ WPEs \subseteq Managers
      /\ Pool \in Workers /\ WorkerOf[Kme] = Pool
      /\ mpc \in [Managers -> PoolPCs] /\ mwo \in [Managers -> WoIds \cup {0}]
      /\ mreq \in [Managers -> Nat] /\ mids \in [Managers -> Seq(WoIds)]
      /\ woProcessed \in [Workers -> Seq(WoIds)] /\ woRequests \in [WoIds -> Nat]
      /\ ManagerFormed(Kme) /\ mwo[Kme] = 0
    BY PoolAssumption DEF WPEs, PoolTypeInv, StoreTypeOK, ManagerTypesWith, KeepInv
<1>1. ASSUME UNCHANGED <<woScheduled, answered, mwo>>, woTimestamps' \subseteq woTimestamps,
             workers' \subseteq {Pool},
             \A w \in Workers : ToSet(woProcessed'[w]) \subseteq ToSet(woProcessed[w]),
             \A i \in WoIds : \/ woRequests'[i] = woRequests[i]
                              \/ woRequests'[i] = 0 /\ Answered(i),
             \A i \in ToSet(mids'[Kme]) : Answered(i),
             \A n \in Managers \ {Kme} : mpc'[n] = mpc[n] /\ mreq'[n] = mreq[n]
      PROVE  KeepInv' /\ LostIds' \subseteq LostIds /\ Fallen' = Fallen
    <2>1. /\ \A s \in accepted' : s[2] = 1
          /\ \A l \in Listeners : PurgesAnswered(l)' /\ SubmitsToPool(l)'
          /\ \A i : Entrusted(i)' <=> Entrusted(i)
          /\ \A i : Answered(i) => Answered(i)'
        BY <1>1, KeepListeners
    <2>2. \A i \in WoIds : RequestKept(i)'
        <3> SUFFICES ASSUME NEW i \in WoIds PROVE RequestKept(i)'
            OBVIOUS
        <3>1. RequestKept(i) /\ (Queued(i)' <=> Queued(i))
            BY <1>1 DEF KeepInv, Queued
        <3> QED BY <1>1, <2>1, <3>1 DEF RequestKept
    <2>3. \A n \in WPEs : HoldsOrder(n)'
        BY <1>0, <1>1, <2>1 DEF KeepInv, HoldsOrder, Answered
    <2>4. KeepInv'
        BY <1>0, <1>1, <2>1, <2>2, <2>3 DEF KeepInv
    <2>5. LostIds' \subseteq LostIds
        BY <1>1, <2>1 DEF LostIds, Queued
    <2>6. Fallen' = Fallen
        BY <1>0, <1>1 DEF Fallen
    <2> QED BY <2>4, <2>5, <2>6
<1>2. /\ workers \subseteq {Pool} /\ \A i \in ToSet(mids[Kme]) : Answered(i)
      /\ \A i \in ToSet(woProcessed[Pool]) : Answered(i)
    BY <1>0 DEF KeepInv
<1>3. ToSet(<<>>) = {}
    BY DEF ToSet
<1>4. CASE KmeInitEnclave
    BY <1>0, <1>1, <1>2, <1>4 DEF KmeInitEnclave
<1>5. CASE KmeSignup
    BY <1>0, <1>1, <1>2, <1>5 DEF KmeSignup
<1>6. CASE CleanupRead(Kme, "clear_pool")
    <2>1. mids'[Kme] = mids[Kme] \/ mids'[Kme] = woProcessed[Pool]
        BY <1>0, <1>6 DEF CleanupRead
    <2>2. \A i \in ToSet(mids'[Kme]) : Answered(i)
        BY <1>2, <2>1
    <2> QED BY <1>0, <1>1, <1>2, <1>6, <2>2 DEF CleanupRead
<1>7. CASE CleanupRemove(Kme)
    <2>1. mids[Kme] # <<>> /\ mpc[Kme] = "clean"
        BY <1>0, <1>7 DEF CleanupRemove, ManagerFormed
    <2>2. /\ Head(mids[Kme]) \in WoIds /\ Head(mids[Kme]) \in ToSet(mids[Kme])
          /\ ToSet(Tail(mids[Kme])) \subseteq ToSet(mids[Kme])
        BY <1>0, <2>1, PopProperties
    <2>3. mids'[Kme] = mids[Kme] \/ mids'[Kme] = Tail(mids[Kme])
        BY <1>0, <1>7 DEF CleanupRemove
    <2>4. \A i \in ToSet(mids'[Kme]) : Answered(i)
        BY <1>2, <2>2, <2>3
    <2>5. /\ woTimestamps' \subseteq woTimestamps
          /\ \A i \in WoIds : woRequests'[i] = woRequests[i] \/ (woRequests'[i] = 0 /\ Answered(i))
        BY <1>0, <1>2, <1>7, <2>2 DEF CleanupRemove, RemoveRecord
    <2>6. /\ UNCHANGED <<woScheduled, answered, mwo, mreq, workers, woProcessed>>
          /\ \A n \in Managers \ {Kme} : mpc'[n] = mpc[n]
        BY <1>0, <1>7 DEF CleanupRemove
    <2> QED BY <1>1, <1>2, <2>4, <2>5, <2>6
<1>8. CASE CleanupUnlist(Kme, "clear_pool")
    <2>1. \A w \in Workers : ToSet(woProcessed'[w]) \subseteq ToSet(woProcessed[w])
        BY <1>0, <1>3, <1>8 DEF CleanupUnlist
    <2> QED BY <1>0, <1>1, <1>2, <1>8, <2>1 DEF CleanupUnlist
<1>9. CASE KmeClearPool
    BY <1>0, <1>1, <1>2, <1>9 DEF KmeClearPool
<1>10. CASE KmeAddWorker
    BY <1>0, <1>1, <1>2, <1>10 DEF KmeAddWorker
<1>11. CASE KmeRestart
    BY <1>0, <1>1, <1>2, <1>11 DEF KmeRestart, ManagerRestart
<1>12. CASE KmeCrash
    <2>1. mwo' = mwo
        BY <1>0, <1>12 DEF KmeCrash, ManagerCrash, Exit
    <2>2. mids'[Kme] = <<>>
        BY <1>0, <1>12 DEF KmeCrash, ManagerCrash, Exit
    <2>3. \A n \in Managers \ {Kme} : mpc'[n] = mpc[n] /\ mreq'[n] = mreq[n]
        BY <1>0, <1>12 DEF KmeCrash, ManagerCrash, Exit
    <2> QED BY <1>1, <1>2, <1>3, <1>12, <2>1, <2>2, <2>3 DEF KmeCrash, ManagerCrash
<1> QED BY <1>4, <1>5, <1>6, <1>7, <1>8, <1>9, <1>10, <1>11, <1>12 DEF KmeBoot

(***************************************************************************)
(* As many orders are lost as WPEs have died.                              *)
(***************************************************************************)
LossInv ==
    /\ PoolTypeInv /\ KeepInv
    /\ IsFiniteSet(LostIds) /\ Cardinality(LostIds) <= Cardinality(Fallen)

(***************************************************************************)
(* Initially no order is accepted and no WPE has died.                     *)
(***************************************************************************)
LEMMA InitLoss ==
    ASSUME IsFiniteSet(Managers)
    PROVE  PoolInit => LossInv
<1> SUFFICES ASSUME PoolInit PROVE LossInv
    OBVIOUS
<1>0. ToSet(<<>>) = {} /\ Kme \in Managers /\ Pool \in Workers
    BY PoolAssumption DEF ToSet
<1>1. KeepInv
    <2>1. \A l \in Listeners : PurgesAnswered(l) /\ SubmitsToPool(l)
        BY DEF PoolInit, StoreInit, ListenerInit, PurgesAnswered, SubmitsToPool, BootPCs
    <2>2. \A i \in WoIds : RequestKept(i)
        BY <1>0, StoreAssumption DEF PoolInit, StoreInit, ManagerInit, RequestKept, Queued, WPEs
    <2>3. \A m \in WPEs : HoldsOrder(m)
        BY DEF PoolInit, ManagerInit, HoldsOrder, WPEs
    <2> QED BY <1>0, <2>1, <2>2, <2>3 DEF PoolInit, StoreInit, ListenerInit, ManagerInit, KeepInv
<1>2. LostIds = {}
    BY DEF PoolInit, ListenerInit, LostIds, Entrusted
<1>3. IsFiniteSet(Fallen) /\ Cardinality(Fallen) \in Nat
    BY FS_Subset, FS_CardinalityType DEF Fallen, WPEs
<1> QED BY <1>1, <1>2, <1>3, InitPoolTypes, FS_EmptySet DEF LossInv

(***************************************************************************)
(* A step loses an order only with the WPE that held it.                   *)
(***************************************************************************)
LEMMA NextLoss ==
    ASSUME NEW l, Listeners = {l}, MaxSubmits <= 1, IsFiniteSet(Managers)
    PROVE  LossInv /\ [PoolNext]_poolVars => LossInv'
<1> SUFFICES ASSUME LossInv, [PoolNext]_poolVars PROVE LossInv'
    OBVIOUS
<1>0. PoolTypeInv /\ KeepInv /\ PoolTypeInv'
    BY NextPoolTypes DEF LossInv
<1>1. /\ IsFiniteSet(Fallen) /\ Cardinality(Fallen) \in Nat
      /\ IsFiniteSet(LostIds) /\ Cardinality(LostIds) \in Nat
      /\ Cardinality(LostIds) <= Cardinality(Fallen)
    BY FS_Subset, FS_CardinalityType DEF LossInv, Fallen, WPEs
<1>2. ASSUME KeepInv', LostIds' \subseteq LostIds, Fallen' = Fallen
      PROVE  LossInv'
    <2>1. IsFiniteSet(LostIds') /\ Cardinality(LostIds') <= Cardinality(LostIds)
          /\ Cardinality(LostIds') \in Nat
        BY <1>1, <1>2, FS_Subset, FS_CardinalityType
    <2> QED BY <1>0, <1>1, <1>2, <2>1 DEF LossInv
<1>3. CASE PoolListenerStep(l) \/ Submission(l)
    <2>1. KeepInv' /\ LostIds' \subseteq LostIds
        BY <1>0, <1>3, KeepByListener DEF PoolListenerStep, Submission
    <2>2. Fallen' = Fallen
        BY <1>3 DEF PoolListenerStep, Submission, managerVars, Fallen
    <2> QED BY <1>2, <2>1, <2>2
<1>4. CASE (KmeStep \/ KmeCrash) /\ UNCHANGED listenerVars
    BY <1>0, <1>2, <1>4, KeepByKme DEF KmeStep
<1>5. ASSUME NEW m \in WPEs, WpeStep(m) \/ (ManagerCrash(m) /\ UNCHANGED kmeVars),
             UNCHANGED listenerVars
      PROVE  LossInv'
    <2>1. CASE KeepInv' /\ LostIds' \subseteq LostIds /\ Fallen' = Fallen
        BY <1>2, <2>1
    <2>2. CASE /\ KeepInv' /\ LostIds' \subseteq LostIds \cup {mwo[m]}
               /\ m \notin Fallen /\ Fallen' = Fallen \cup {m}
        <3>1. /\ IsFiniteSet(LostIds \cup {mwo[m]})
              /\ Cardinality(LostIds \cup {mwo[m]}) <= Cardinality(LostIds) + 1
              /\ Cardinality(LostIds \cup {mwo[m]}) \in Nat
            <4>1. /\ IsFiniteSet(LostIds \cup {mwo[m]})
                  /\ \/ Cardinality(LostIds \cup {mwo[m]}) = Cardinality(LostIds)
                     \/ Cardinality(LostIds \cup {mwo[m]}) = Cardinality(LostIds) + 1
                BY <1>1, FS_AddElement
            <4> QED BY <1>1, <4>1
        <3>2. /\ IsFiniteSet(LostIds') /\ Cardinality(LostIds') \in Nat
              /\ Cardinality(LostIds') <= Cardinality(LostIds \cup {mwo[m]})
            BY <2>2, <3>1, FS_Subset, FS_CardinalityType
        <3>3. Cardinality(Fallen') = Cardinality(Fallen) + 1
            BY <1>1, <2>2, FS_AddElement
        <3> QED BY <1>0, <1>1, <2>2, <3>1, <3>2, <3>3 DEF LossInv
    <2> QED BY <1>0, <1>5, <2>1, <2>2, KeepByWpe
<1>6. CASE UNCHANGED poolVars
    <2> USE DEF poolVars, storeVars, orderVars, queueVars, registryVars, listenerVars, scanVars,
                clientVars, managerVars, managerLocals, runVars
    <2>1. /\ \A i : Answered(i)' <=> Answered(i)
          /\ \A i : Queued(i)' <=> Queued(i)
          /\ \A i : Entrusted(i)' <=> Entrusted(i)
        BY <1>6 DEF Answered, Queued, Entrusted
    <2>2. \A k \in Listeners : PurgesAnswered(k)' /\ SubmitsToPool(k)'
        BY <1>0, <1>6 DEF KeepInv, PurgesAnswered, SubmitsToPool, FoundIds, Answered
    <2>3. \A i \in WoIds : RequestKept(i)'
        BY <1>0, <1>6, <2>1 DEF KeepInv, RequestKept
    <2>4. \A m \in WPEs : HoldsOrder(m)'
        BY <1>0, <1>6 DEF KeepInv, HoldsOrder, Answered
    <2>5. KeepInv'
        BY <1>0, <1>6, <2>1, <2>2, <2>3, <2>4 DEF KeepInv
    <2>6. LostIds' \subseteq LostIds /\ Fallen' = Fallen
        BY <1>6, <2>1 DEF LostIds, Fallen
    <2> QED BY <1>2, <2>5, <2>6
<1> QED BY <1>3, <1>4, <1>5, <1>6 DEF PoolNext, KmeStep

(***************************************************************************)
(* With one listener and ids that are not used again, any number of WPEs,  *)
(* orders and crashes of the KME: every order that was accepted and is     *)
(* neither answered, queued nor held went down with a WPE, at most one     *)
(* with each.                                                              *)
(***************************************************************************)
THEOREM OneOrderPerFallenWpe ==
    ASSUME NEW l, Listeners = {l}, MaxSubmits <= 1, IsFiniteSet(Managers)
    PROVE  PoolSpec => []OneOrderLostPerDeath
<1>1. LossInv => OneOrderLostPerDeath
    <2> SUFFICES ASSUME LossInv PROVE OneOrderLostPerDeath
        OBVIOUS
    <2> DEFINE lost == {s \in accepted : /\ s \notin answered
                                         /\ ~ Queued(s[1])
                                         /\ \A m \in Managers : mwo[m] # s[1]}
               f == [s \in lost |-> s[1]]
    <2>1. \A s \in lost : s = <<s[1], 1>> /\ s[1] \in LostIds
        <3> SUFFICES ASSUME NEW s \in lost PROVE s = <<s[1], 1>> /\ s[1] \in LostIds
            OBVIOUS
        <3>1. s \in WoIds \X Nat /\ s[2] = 1
            BY DEF LossInv, PoolTypeInv, ListenerTypeOK, KeepInv
        <3>2. s = <<s[1], 1>> /\ s[1] \in WoIds
            BY <3>1
        <3> QED BY <3>2 DEF LostIds, Entrusted, Answered
    <2>2. f \in Injection(lost, LostIds)
        BY <2>1 DEF Injection, IsInjective
    <2>3. Cardinality(lost) <= Cardinality(LostIds) /\ IsFiniteSet(lost)
        BY <2>2, FS_Injection DEF LossInv
    <2>4. Dead \cap WPEs = Fallen
        BY DEF Dead, Fallen, WPEs
    <2>5. IsFiniteSet(Fallen) /\ Cardinality(Fallen) \in Nat
        BY FS_Subset, FS_CardinalityType DEF Fallen, WPEs
    <2>6. Cardinality(lost) \in Nat /\ Cardinality(LostIds) \in Nat
        BY <2>3, FS_CardinalityType DEF LossInv
    <2>7. Cardinality(lost) <= Cardinality(Fallen)
        BY <2>3, <2>5, <2>6 DEF LossInv
    <2> QED BY <2>4, <2>7 DEF OneOrderLostPerDeath
<1> QED BY <1>1, InitLoss, NextLoss, PTL DEF PoolSpec
=============================================================================
