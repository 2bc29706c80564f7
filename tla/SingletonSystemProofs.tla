------------------------- MODULE SingletonSystemProofs -------------------------
(***************************************************************************)
(* Proofs about the Singleton deployment: type correctness, the capacity   *)
(* of the store with one listener, what happens to a work order, what the  *)
(* deployment promises a client whose submission was answered with         *)
(* PENDING, and the synchronous mode.                                      *)
(***************************************************************************)
EXTENDS SyncSystem, ComponentProofs

(***************************************************************************)
(* Every step of a manager keeps its state and the store well formed, and  *)
(* adds no timestamp.                                                      *)
(***************************************************************************)
LEMMA ManagerStepTypes ==
    ASSUME TypeInv, NEW m \in Managers, SingletonStep(m) \/ ManagerCrash(m)
    PROVE  /\ StoreTypeOK' /\ ManagerTypeOK'
           /\ \A k \in Managers : ManagerFormed(k)'
           /\ woTimestamps' \subseteq woTimestamps
<1> USE DEF storeVars, orderVars, queueVars, registryVars, managerLocals, runVars,
            MGoTo, ManagerPCs, ManagerFormed
<1>0. /\ StoreTypeOK /\ ManagerTypeOK /\ \A k \in Managers : ManagerFormed(k)
      /\ WorkerOf[m] \in Workers
    BY StoreAssumption DEF TypeInv, TypeOK
<1>1. CASE BootAddWorker(m)
    BY <1>0, <1>1 DEF BootAddWorker, StoreTypeOK, ManagerTypeOK
<1>2. CASE JoinPool(m)
    <2>1. workerPool' \in [Workers -> Seq(Managers)]
        BY <1>0, <1>2 DEF JoinPool, CsvAppend, StoreTypeOK
    <2>2. StoreTypeOK' /\ woTimestamps' \subseteq woTimestamps
        BY <1>0, <1>2, <2>1 DEF JoinPool, StoreTypeOK
    <2>3. ManagerTypeOK'
        BY <1>0, <1>2 DEF JoinPool, ManagerTypeOK
    <2>4. \A k \in Managers : ManagerFormed(k)'
        BY <1>0, <1>2 DEF JoinPool, ManagerTypeOK
    <2> QED BY <2>2, <2>3, <2>4
<1>3. CASE CleanupRead(m, "poll") \/ CleanupUnlist(m, "poll") \/ ManagerStep(m) \/ ManagerCrash(m)
    <2> HIDE DEF ManagerPCs, ManagerFormed
    <2>1. ManagerTypesWith(ManagerPCs) /\ "poll" \in ManagerPCs
        BY <1>0 DEF ManagerTypeOK, ManagerTypesWith, ManagerPCs
    <2>2. /\ StoreTypeOK' /\ ManagerTypesWith(ManagerPCs)'
          /\ \A k \in Managers : ManagerFormed(k)'
          /\ woTimestamps' \subseteq woTimestamps
        BY <1>0, <1>3, <2>1, ProcessingTypes
    <2> QED BY <2>2 DEF ManagerTypeOK, ManagerTypesWith
<1> QED BY <1>1, <1>2, <1>3 DEF SingletonStep

(***************************************************************************)
(* The initial state is well formed.                                       *)
(***************************************************************************)
LEMMA InitTypes == Init => TypeInv
<1> SUFFICES ASSUME Init PROVE TypeInv
    OBVIOUS
<1>1. StoreTypeOK
    BY DEF Init, StoreInit, StoreTypeOK
<1>2. ListenerTypeOK
    BY ListenerAssumption DEF Init, ListenerInit, ListenerTypeOK, ListenerPCs, Replies, NoRequest
<1>3. ManagerTypeOK
    BY ManagerAssumption DEF Init, ManagerInit, ManagerTypeOK, ManagerPCs
<1>4. \A l \in Listeners : ListenerFormed(l)
    BY DEF Init, ListenerInit, ListenerFormed
<1>5. \A m \in Managers : ManagerFormed(m)
    BY DEF Init, ManagerInit, ManagerFormed
<1> QED BY <1>1, <1>2, <1>3, <1>4, <1>5 DEF TypeInv, TypeOK

(***************************************************************************)
(* Every step of the system keeps the state well formed.                   *)
(***************************************************************************)
LEMMA NextTypes == TypeInv /\ [Next]_vars => TypeInv'
<1> SUFFICES ASSUME TypeInv, [Next]_vars PROVE TypeInv'
    OBVIOUS
<1>1. ASSUME NEW l \in Listeners,
             ListenerStep(l) \/ ClientRequest(l) \/ ListenerRestart(l),
             UNCHANGED managerVars
      PROVE  TypeInv'
    <2>1. ManagerTypeOK' /\ \A m \in Managers : ManagerFormed(m)'
        BY <1>1 DEF TypeInv, TypeOK, ManagerTypeOK, ManagerFormed, managerVars,
                    managerLocals, runVars
    <2>2. StoreTypeOK'
        BY <1>1, ListenerStoreTypes DEF TypeInv, TypeOK
    <2>3. ListenerTypeOK' /\ \A k \in Listeners : ListenerFormed(k)'
        BY <1>1, ListenerStepTypes DEF TypeInv, TypeOK
    <2> QED BY <2>1, <2>2, <2>3 DEF TypeInv, TypeOK
<1>2. ASSUME NEW m \in Managers, SingletonStep(m) \/ ManagerCrash(m),
             UNCHANGED listenerVars
      PROVE  TypeInv'
    <2>1. ListenerTypeOK' /\ \A l \in Listeners : ListenerFormed(l)'
        BY <1>2 DEF TypeInv, TypeOK, ListenerTypeOK, ListenerFormed, listenerVars,
                    scanVars, memVars, clientVars
    <2>2. StoreTypeOK' /\ ManagerTypeOK' /\ \A k \in Managers : ManagerFormed(k)'
        BY <1>2, ManagerStepTypes
    <2> QED BY <2>1, <2>2 DEF TypeInv, TypeOK
<1>3. CASE UNCHANGED vars
    BY <1>3 DEF TypeInv, TypeOK, StoreTypeOK, ListenerTypeOK, ManagerTypeOK,
                ListenerFormed, ManagerFormed, vars, storeVars, orderVars, queueVars,
                registryVars, listenerVars, scanVars, memVars, clientVars,
                managerVars, managerLocals, runVars
<1> QED BY <1>1, <1>2, <1>3 DEF Next

(***************************************************************************)
(* Every table, queue and local of the listeners and the managers keeps    *)
(* its type, for any number of ids, workers, listeners and restarts.       *)
(***************************************************************************)
THEOREM TypeCorrect == Spec => []TypeOK
<1>1. TypeInv => TypeOK
    BY DEF TypeInv
<1> QED BY InitTypes, NextTypes, <1>1, PTL DEF Spec

(***************************************************************************)
(* One listener accounts for the whole store in the initial state.         *)
(***************************************************************************)
LEMMA InitCapacity == Init => CapacityInv
<1> SUFFICES ASSUME Init PROVE CapacityInv
    OBVIOUS
<1>1. TypeInv
    BY InitTypes
<1>2. IsFiniteSet(woTimestamps) /\ Cardinality(woTimestamps) = 0
    BY FS_EmptySet DEF Init, StoreInit
<1>3. StoreWithinLimit
    BY <1>2, ListenerAssumption DEF StoreWithinLimit
<1>4. PurgeVictimListed
    BY DEF PurgeVictimListed, Purging, Init, ListenerInit
<1>5. ASSUME NEW l \in Listeners PROVE AccountsForStore(l)
    <2>1. lpc[l] = "boot" /\ woList[l] = <<>> /\ lids[l] = {}
        BY DEF Init, ListenerInit
    <2>2. IsFiniteSet(lids[l]) /\ Cardinality(lids[l]) = 0
        BY <2>1, FS_EmptySet
    <2> QED BY <2>1, <2>2, ListenerAssumption DEF AccountsForStore, Booting, Submitting
<1> QED BY <1>1, <1>2, <1>3, <1>4, <1>5 DEF CapacityInv

(***************************************************************************)
(* Fewer timestamps: the accounts of a listener stand.                     *)
(***************************************************************************)
LEMMA FewerTimestamps ==
    ASSUME CapacityInv, woTimestamps' \subseteq woTimestamps, TypeInv',
           UNCHANGED listenerVars
    PROVE  CapacityInv'
<1>1. /\ IsFiniteSet(woTimestamps')
      /\ Cardinality(woTimestamps') <= Cardinality(woTimestamps)
    BY FS_Subset DEF CapacityInv
<1>2. Cardinality(woTimestamps') \in Nat /\ Cardinality(woTimestamps) \in Nat
    BY <1>1, FS_CardinalityType DEF CapacityInv
<1>3. StoreWithinLimit'
    BY <1>1, <1>2, ListenerAssumption DEF CapacityInv, StoreWithinLimit
<1>4. UNCHANGED <<lpc, lreq, lids, lvictim, woList>>
    BY DEF listenerVars, scanVars, memVars
<1>5. PurgeVictimListed'
    BY <1>4 DEF CapacityInv, PurgeVictimListed, Purging
<1>6. ASSUME NEW l \in Listeners PROVE AccountsForStore(l)'
    BY <1>4 DEF CapacityInv, AccountsForStore, InHand, Booting, Submitting
<1> QED BY <1>1, <1>3, <1>5, <1>6 DEF CapacityInv

(***************************************************************************)
(* The steps that leave list, boot snapshot and timestamps alone keep the  *)
(* accounts, as long as they do not enter a phase that has an id in hand.  *)
(***************************************************************************)
LEMMA QuietAccounts ==
    ASSUME CapacityInv, NEW l \in Listeners,
           woTimestamps' \subseteq woTimestamps,
           woList'[l] = woList[l], lids'[l] = lids[l],
           lpc[l] # "boot" /\ lpc'[l] # "boot",
           Booting(l)' <=> Booting(l),
           InHand(l)' = InHand(l),
           Submitting(l)' => Submitting(l) \/ Len(woList[l]) + 1 <= MaxWorkOrderCount,
           lpc'[l] = "boot_reap" <=> lpc[l] = "boot_reap"
    PROVE  AccountsForStore(l)'
<1>1. AccountsForStore(l) /\ Len(woList[l]) \in Nat /\ Cardinality(lids[l]) \in Nat
    BY FS_CardinalityType, LenProperties
    DEF CapacityInv, AccountsForStore, TypeInv, TypeOK, ListenerTypeOK
<1>2. Submitting(l)' => Cardinality(lids[l]) = 0 /\ lpc[l] # "boot_reap"
    <2>1. Submitting(l)' => ~Booting(l)
        BY DEF Booting, Submitting
    <2>2. ~Booting(l) => lids[l] = {}
        BY <1>1 DEF AccountsForStore
    <2> QED BY <2>1, <2>2, FS_EmptySet DEF Booting
<1>3. Len(woList'[l]) + Cardinality(lids'[l])
          + (IF lpc'[l] = "boot_reap" \/ Submitting(l)' THEN 1 ELSE 0) <= MaxWorkOrderCount
    <2>1. CASE Submitting(l)'
        BY <1>1, <1>2, <2>1, ListenerAssumption DEF AccountsForStore
    <2>2. CASE ~Submitting(l)'
        BY <1>1, <2>2, ListenerAssumption DEF AccountsForStore
    <2> QED BY <2>1, <2>2
<1>4. woTimestamps' \subseteq ToSet(woList'[l]) \cup lids'[l] \cup InHand(l)'
    BY <1>1 DEF AccountsForStore
<1>5. (Booting(l)' \/ lids'[l] = {}) /\ IsFiniteSet(lids'[l])
    BY <1>1 DEF AccountsForStore
<1> QED BY <1>3, <1>4, <1>5 DEF AccountsForStore

(***************************************************************************)
(* A listener's own steps keep its accounts, except for the one that puts  *)
(* a new timestamp: every other step adds none.                            *)
(***************************************************************************)
LEMMA ListenerAccounts ==
    ASSUME CapacityInv, NEW l \in Listeners,
           ListenerStep(l) \/ ClientRequest(l) \/ ListenerRestart(l)
    PROVE  /\ AccountsForStore(l)'
           /\ SubmitTimestamp(l) \/ woTimestamps' \subseteq woTimestamps
           /\ Purging(l)' => lvictim'[l] \in ToSet(woList'[l])
<1> USE DEF GoTo, scanVars, memVars, storeVars, orderVars
<1>0. /\ StoreTypeOK /\ ListenerTypeOK /\ ListenerFormed(l) /\ AccountsForStore(l)
      /\ Purging(l) => lvictim[l] \in ToSet(woList[l])
      /\ lpc[l] \in ListenerPCs /\ woList[l] \in Seq(WoIds) /\ lids[l] \in SUBSET WoIds
    BY DEF CapacityInv, TypeInv, TypeOK, PurgeVictimListed, ListenerTypeOK
<1>a. Len(woList[l]) \in Nat /\ Cardinality(lids[l]) \in Nat /\ IsFiniteSet(lids[l])
    BY <1>0, FS_CardinalityType, LenProperties DEF AccountsForStore
<1>b. DOMAIN lpc = Listeners /\ DOMAIN lids = Listeners /\ DOMAIN woList = Listeners
          /\ DOMAIN lvictim = Listeners
    BY <1>0 DEF ListenerTypeOK
<1>c. Cardinality({}) = 0 /\ IsFiniteSet({})
    BY FS_EmptySet
<1>1. CASE BootLookup(l)
    <2>1. /\ lpc[l] = "boot" /\ lpc'[l] = "boot_pool" /\ lids'[l] = woTimestamps
          /\ woList'[l] = <<>> /\ woTimestamps' = woTimestamps
        BY <1>0, <1>1, <1>b DEF BootLookup, AccountsForStore
    <2>2. IsFiniteSet(woTimestamps) /\ Cardinality(woTimestamps) <= MaxWorkOrderCount
          /\ Cardinality(woTimestamps) \in Nat
        BY FS_CardinalityType DEF CapacityInv, StoreWithinLimit
    <2> QED BY <2>1, <2>2 DEF AccountsForStore, Booting, Submitting, InHand, Purging
<1>2. CASE BootLookupPool(l) \/ BootRead(l)
    <2>1. /\ lpc[l] \in {"boot_pool", "boot_read"} /\ lpc'[l] \in {"boot_next", "boot_read"}
          /\ UNCHANGED <<lids, woList, woTimestamps>>
        BY <1>2, <1>b DEF BootLookupPool, BootRead
    <2>2. AccountsForStore(l)'
        <3>1. /\ woTimestamps' \subseteq woTimestamps
              /\ woList'[l] = woList[l] /\ lids'[l] = lids[l]
              /\ lpc[l] # "boot" /\ lpc'[l] # "boot"
              /\ lpc'[l] = "boot_reap" <=> lpc[l] = "boot_reap"
            BY <2>1
        <3>2. (Booting(l)' <=> Booting(l)) /\ InHand(l)' = InHand(l)
            BY <2>1 DEF Booting, InHand
        <3>3. Submitting(l)' => Submitting(l) \/ Len(woList[l]) + 1 <= MaxWorkOrderCount
            BY <2>1 DEF Submitting
        <3> QED BY <3>1, <3>2, <3>3, QuietAccounts
    <2> QED BY <2>1, <2>2 DEF Purging
<1>3. CASE BootKeep(l)
    <2> DEFINE i == FirstKey(lids[l])
    <2>1. i \in lids[l] /\ i \in WoIds
        BY <1>0, <1>3, FirstKeyMember DEF BootKeep
    <2>2. /\ lpc[l] = "boot_next" /\ lpc'[l] = "boot_next"
          /\ lids'[l] = lids[l] \ {i} /\ woList'[l] = Append(woList[l], i)
          /\ woTimestamps' = woTimestamps
        BY <1>0, <1>3, <1>b DEF BootKeep
    <2> HIDE DEF i
    <2>3. /\ Len(woList'[l]) = Len(woList[l]) + 1
          /\ ToSet(woList'[l]) = ToSet(woList[l]) \cup {i}
        BY <1>0, <2>1, <2>2, AppendToSet
    <2>4. IsFiniteSet(lids'[l]) /\ Cardinality(lids'[l]) = Cardinality(lids[l]) - 1
        <3>1. /\ IsFiniteSet(lids[l] \ {i})
              /\ Cardinality(lids[l] \ {i}) = Cardinality(lids[l]) - 1
            BY <1>a, <2>1, FS_RemoveElement
        <3> QED BY <2>2, <3>1
    <2>5. woTimestamps' \subseteq ToSet(woList'[l]) \cup lids'[l]
        BY <1>0, <2>2, <2>3 DEF AccountsForStore, InHand
    <2>6. Len(woList'[l]) + Cardinality(lids'[l]) <= MaxWorkOrderCount
        BY <1>0, <1>a, <2>2, <2>3, <2>4, ListenerAssumption DEF AccountsForStore, Submitting
    <2>7. Len(woList'[l]) \in Nat /\ Cardinality(lids'[l]) \in Nat
        BY <1>a, <2>3, <2>4, FS_CardinalityType
    <2> QED BY <2>2, <2>4, <2>5, <2>6, <2>7
            DEF AccountsForStore, Booting, Submitting, InHand, Purging
<1>4. CASE BootDiscard(l)
    <2> DEFINE i == FirstKey(lids[l])
    <2>1. i \in lids[l]
        BY <1>0, <1>4, FirstKeyMember DEF BootDiscard
    <2>2. /\ lpc[l] = "boot_next" /\ lpc'[l] = "boot_reap"
          /\ lids'[l] = lids[l] \ {i} /\ woList'[l] = woList[l]
          /\ lvictim'[l] = i /\ woTimestamps' = woTimestamps
        BY <1>0, <1>4, <1>b DEF BootDiscard
    <2> HIDE DEF i
    <2>3. IsFiniteSet(lids'[l]) /\ Cardinality(lids'[l]) = Cardinality(lids[l]) - 1
        BY <1>a, <2>1, <2>2, FS_RemoveElement, SMTT(60)
    <2>4. woTimestamps' \subseteq ToSet(woList'[l]) \cup lids'[l] \cup InHand(l)'
        BY <1>0, <2>2 DEF AccountsForStore, InHand
    <2>5. Len(woList'[l]) + Cardinality(lids'[l]) + 1 <= MaxWorkOrderCount
        BY <1>0, <1>a, <2>2, <2>3, ListenerAssumption DEF AccountsForStore, Submitting
    <2> QED BY <2>2, <2>3, <2>4, <2>5 DEF AccountsForStore, Booting, Purging
<1>5. CASE BootReap(l)
    <2>1. /\ lpc[l] = "boot_reap" /\ lvictim[l] \in WoIds /\ lstep[l] \in 1..4
          /\ UNCHANGED <<lids, woList>>
        BY <1>0, <1>5 DEF BootReap, ListenerFormed
    <2>2. woTimestamps' \subseteq woTimestamps
        BY <1>0, <1>5, <2>1, RemoveRecordTypes DEF BootReap
    <2>3. CASE lstep[l] < 4
        <3>1. lpc' = lpc /\ lvictim' = lvictim
            BY <1>5, <2>3 DEF BootReap
        <3>2. AccountsForStore(l)'
            <4>1. /\ woTimestamps' \subseteq woTimestamps
                  /\ woList'[l] = woList[l] /\ lids'[l] = lids[l]
                  /\ lpc[l] # "boot" /\ lpc'[l] # "boot"
                  /\ lpc'[l] = "boot_reap" <=> lpc[l] = "boot_reap"
                BY <2>1, <2>2, <3>1
            <4>2. (Booting(l)' <=> Booting(l)) /\ InHand(l)' = InHand(l)
                BY <2>1, <2>2, <3>1 DEF Booting, InHand
            <4>3. Submitting(l)' => Submitting(l) \/ Len(woList[l]) + 1 <= MaxWorkOrderCount
                BY <2>1, <2>2, <3>1 DEF Submitting
            <4> QED BY <4>1, <4>2, <4>3, QuietAccounts
        <3> QED BY <2>1, <2>2, <3>1, <3>2 DEF Purging
    <2>4. CASE lstep[l] = 4
        <3>1. woTimestamps' = woTimestamps \ {lvictim[l]} /\ lpc'[l] = "boot_next"
            BY <1>5, <1>b, <2>4 DEF BootReap, RemoveRecord, BootReapOrder
        <3>2. woTimestamps' \subseteq ToSet(woList'[l]) \cup lids'[l]
            BY <1>0, <2>1, <3>1 DEF AccountsForStore, InHand
        <3>3. Len(woList'[l]) + Cardinality(lids'[l]) <= MaxWorkOrderCount
            BY <1>0, <1>a, <2>1, ListenerAssumption DEF AccountsForStore
        <3> QED BY <1>a, <2>1, <2>2, <3>1, <3>2, <3>3
                DEF AccountsForStore, Booting, Submitting, InHand, Purging
    <2> QED BY <2>1, <2>3, <2>4
<1>6. CASE BootDone(l)
    <2>1. /\ lpc[l] = "boot_next" /\ lpc'[l] = "idle" /\ lids[l] = {} /\ lids'[l] = {}
          /\ UNCHANGED <<woList, woTimestamps>>
        BY <1>6, <1>b DEF BootDone, EndScan
    <2> QED BY <1>0, <1>a, <1>c, <2>1
            DEF AccountsForStore, Booting, Submitting, InHand, Purging
<1>7. CASE PurgeLookupPool(l) \/ PurgeRead(l)
    <2>1. /\ lpc[l] \in {"purge_pool", "purge_read"}
          /\ lpc'[l] \in {"purge_select", "purge_read"}
          /\ UNCHANGED <<lids, woList, woTimestamps>>
        BY <1>7, <1>b DEF PurgeLookupPool, PurgeRead
    <2>2. AccountsForStore(l)'
        <3>1. /\ woTimestamps' \subseteq woTimestamps
              /\ woList'[l] = woList[l] /\ lids'[l] = lids[l]
              /\ lpc[l] # "boot" /\ lpc'[l] # "boot"
              /\ lpc'[l] = "boot_reap" <=> lpc[l] = "boot_reap"
            BY <2>1
        <3>2. (Booting(l)' <=> Booting(l)) /\ InHand(l)' = InHand(l)
            BY <2>1 DEF Booting, InHand
        <3>3. Submitting(l)' => Submitting(l) \/ Len(woList[l]) + 1 <= MaxWorkOrderCount
            BY <2>1 DEF Submitting
        <3> QED BY <3>1, <3>2, <3>3, QuietAccounts
    <2> QED BY <2>1, <2>2 DEF Purging
<1>8. CASE PurgeSelect(l)
    <2>1. lpc[l] = "purge_select" /\ lids[l] = {} /\ UNCHANGED <<woList, woTimestamps>>
        BY <1>0, <1>8 DEF PurgeSelect, AccountsForStore, Booting
    <2>2. lids'[l] = {} /\ lpc'[l] \in {"reply", "purge_unlist"}
        BY <1>8, <1>b, <2>1 DEF PurgeSelect, Answer, EndScan
    <2>3. AccountsForStore(l)'
        <3>1. /\ woTimestamps' \subseteq woTimestamps
              /\ woList'[l] = woList[l] /\ lids'[l] = lids[l]
              /\ lpc[l] # "boot" /\ lpc'[l] # "boot"
              /\ lpc'[l] = "boot_reap" <=> lpc[l] = "boot_reap"
            BY <2>1, <2>2
        <3>2. (Booting(l)' <=> Booting(l)) /\ InHand(l)' = InHand(l)
            BY <2>1, <2>2 DEF Booting, InHand
        <3>3. Submitting(l)' => Submitting(l) \/ Len(woList[l]) + 1 <= MaxWorkOrderCount
            BY <2>1, <2>2 DEF Submitting
        <3> QED BY <3>1, <3>2, <3>3, QuietAccounts
    <2>4. ASSUME lpc'[l] = "purge_unlist" PROVE lvictim'[l] \in ToSet(woList'[l])
        <3>1. PurgeCandidates(l) # {} /\ lvictim'[l] = FirstKey(PurgeCandidates(l))
            BY <1>8, <1>b, <2>4 DEF PurgeSelect, Answer
        <3>2. PurgeCandidates(l) \in SUBSET WoIds /\ PurgeCandidates(l) \subseteq woTimestamps
            BY <1>0 DEF PurgeCandidates, StoreTypeOK
        <3>3. lvictim'[l] \in woTimestamps
            BY <3>1, <3>2, FirstKeyMember
        <3> QED BY <1>0, <2>1, <3>3 DEF AccountsForStore, InHand
    <2> QED BY <2>1, <2>2, <2>3, <2>4 DEF Purging
<1>9. CASE PurgeUnlist(l) \/ PurgeRemove(l)
    <2>1. /\ lpc[l] \in {"purge_unlist", "purge_remove"} /\ lpc'[l] = "purge_remove"
          /\ lvictim[l] \in WoIds /\ UNCHANGED <<lids, woList, lvictim>>
        BY <1>0, <1>9, <1>b DEF PurgeUnlist, PurgeRemove, ListenerFormed
    <2>2. woTimestamps' \subseteq woTimestamps
        BY <1>0, <1>9, <2>1, RemoveRecordTypes DEF PurgeUnlist, PurgeRemove
    <2>3. AccountsForStore(l)'
        <3>1. /\ woTimestamps' \subseteq woTimestamps
              /\ woList'[l] = woList[l] /\ lids'[l] = lids[l]
              /\ lpc[l] # "boot" /\ lpc'[l] # "boot"
              /\ lpc'[l] = "boot_reap" <=> lpc[l] = "boot_reap"
            BY <2>1, <2>2
        <3>2. (Booting(l)' <=> Booting(l)) /\ InHand(l)' = InHand(l)
            BY <2>1, <2>2 DEF Booting, InHand
        <3>3. Submitting(l)' => Submitting(l) \/ Len(woList[l]) + 1 <= MaxWorkOrderCount
            BY <2>1, <2>2 DEF Submitting
        <3> QED BY <3>1, <3>2, <3>3, QuietAccounts
    <2> QED BY <1>0, <2>1, <2>2, <2>3 DEF Purging
<1>10. CASE PurgeFinish(l)
    <2> DEFINE v == lvictim[l]
    <2>1. lpc[l] = "purge_remove" /\ v \in ToSet(woList[l]) /\ lids[l] = {}
        BY <1>0, <1>10 DEF PurgeFinish, Purging, AccountsForStore, Booting
    <2>2. /\ woTimestamps' = woTimestamps \ {v}
          /\ woList'[l] = RemoveFirst(woList[l], v)
          /\ lids'[l] = {} /\ lpc'[l] \in {"reply", "check"}
          /\ lpc'[l] = "check" => ~Full(woCount[l] - 1)
        BY <1>10, <1>b, <2>1
        DEF PurgeFinish, RemoveRecord, PurgeOrder, EndScan, Answer
    <2> HIDE DEF v
    <2>3. /\ Len(woList'[l]) = Len(woList[l]) - 1
          /\ ToSet(woList[l]) \ {v} \subseteq ToSet(woList'[l])
        BY <1>0, <2>1, <2>2, RemoveFirstProperties
    <2>4. woTimestamps' \subseteq ToSet(woList'[l])
        BY <1>0, <2>1, <2>2, <2>3 DEF AccountsForStore, InHand
    <2>5. Len(woList'[l]) + 1 <= MaxWorkOrderCount
        BY <1>0, <1>a, <1>c, <2>1, <2>3, ListenerAssumption DEF AccountsForStore, Submitting
    <2>6. Len(woList'[l]) <= MaxWorkOrderCount /\ Len(woList'[l]) \in Int
        BY <1>a, <2>3, <2>5, ListenerAssumption
    <2> QED BY <1>c, <2>2, <2>4, <2>5, <2>6
            DEF AccountsForStore, Booting, Submitting, InHand, Purging
<1>11. CASE SubmitCheck(l)
    <2>1. /\ lpc[l] = "check" /\ lpc'[l] \in {"reply", "set_timestamp"}
          /\ UNCHANGED <<lids, woList, woTimestamps>>
        BY <1>11, <1>b DEF SubmitCheck, Answer
    <2>2. AccountsForStore(l)'
        <3>1. /\ woTimestamps' \subseteq woTimestamps
              /\ woList'[l] = woList[l] /\ lids'[l] = lids[l]
              /\ lpc[l] # "boot" /\ lpc'[l] # "boot"
              /\ lpc'[l] = "boot_reap" <=> lpc[l] = "boot_reap"
            BY <2>1
        <3>2. (Booting(l)' <=> Booting(l)) /\ InHand(l)' = InHand(l)
            BY <2>1 DEF Booting, InHand
        <3>3. Submitting(l)' => Submitting(l) \/ Len(woList[l]) + 1 <= MaxWorkOrderCount
            BY <2>1 DEF Submitting
        <3> QED BY <3>1, <3>2, <3>3, QuietAccounts
    <2> QED BY <2>1, <2>2 DEF Purging
<1>12. CASE SubmitTimestamp(l)
    <2>1. /\ lpc[l] = "set_timestamp" /\ lpc'[l] = "set_request"
          /\ woTimestamps' = woTimestamps \cup {lreq[l].id}
          /\ UNCHANGED <<lreq, lids, woList>>
        BY <1>12, <1>b DEF SubmitTimestamp
    <2>2. woTimestamps' \subseteq ToSet(woList'[l]) \cup lids'[l] \cup InHand(l)'
        BY <1>0, <2>1 DEF AccountsForStore, InHand
    <2> QED BY <1>0, <1>12, <2>1, <2>2 DEF AccountsForStore, Booting, Submitting, Purging
<1>13. CASE SubmitRequest(l)
    <2>1. /\ lpc[l] = "set_request" /\ lpc'[l] = "schedule"
          /\ UNCHANGED <<lreq, lids, woList, woTimestamps>>
        BY <1>13, <1>b DEF SubmitRequest
    <2>2. AccountsForStore(l)'
        <3>1. /\ woTimestamps' \subseteq woTimestamps
              /\ woList'[l] = woList[l] /\ lids'[l] = lids[l]
              /\ lpc[l] # "boot" /\ lpc'[l] # "boot"
              /\ lpc'[l] = "boot_reap" <=> lpc[l] = "boot_reap"
            BY <2>1
        <3>2. (Booting(l)' <=> Booting(l)) /\ InHand(l)' = InHand(l)
            BY <2>1 DEF Booting, InHand
        <3>3. Submitting(l)' => Submitting(l) \/ Len(woList[l]) + 1 <= MaxWorkOrderCount
            BY <2>1 DEF Submitting
        <3> QED BY <3>1, <3>2, <3>3, QuietAccounts
    <2> QED BY <2>1, <2>2 DEF Purging
<1>14. CASE SubmitSchedule(l)
    <2> DEFINE i == lreq[l].id
    <2>1. /\ lpc[l] = "schedule" /\ i \in WoIds /\ lids[l] = {}
          /\ UNCHANGED <<lids, woTimestamps>>
        BY <1>0, <1>14 DEF SubmitSchedule, ListenerFormed, AccountsForStore, Booting
    <2>2. lpc'[l] = "reply" /\ woList'[l] = Append(woList[l], i)
        BY <1>0, <1>14, <1>b DEF SubmitSchedule, Answer
    <2> HIDE DEF i
    <2>3. /\ Len(woList'[l]) = Len(woList[l]) + 1
          /\ ToSet(woList'[l]) = ToSet(woList[l]) \cup {i}
        BY <1>0, <2>1, <2>2, AppendToSet
    <2>4. woTimestamps' \subseteq ToSet(woList'[l])
        BY <1>0, <2>1, <2>3 DEF AccountsForStore, InHand, i
    <2>5. Len(woList'[l]) <= MaxWorkOrderCount /\ Len(woList'[l]) \in Nat
        BY <1>0, <1>a, <1>c, <2>1, <2>3, ListenerAssumption DEF AccountsForStore, Submitting
    <2>6. lids'[l] = {} /\ IsFiniteSet(lids'[l]) /\ Cardinality(lids'[l]) = 0
        BY <1>c, <2>1
    <2>7. ~Booting(l)' /\ ~Submitting(l)' /\ InHand(l)' = {} /\ ~Purging(l)'
        BY <2>2 DEF Booting, Submitting, InHand, Purging
    <2> QED BY <2>1, <2>2, <2>4, <2>5, <2>6, <2>7 DEF AccountsForStore
<1>15. CASE GetResultTimestamp(l) \/ ReceiptStore(l) \/ Reply(l)
    <2>1. /\ lpc[l] \in {"get_timestamp", "store_receipt", "reply"}
          /\ lpc'[l] \in {"reply", "idle"}
          /\ UNCHANGED <<lids, woList, woTimestamps>>
        BY <1>15, <1>b DEF GetResultTimestamp, ReceiptStore, Reply, Answer
    <2>2. AccountsForStore(l)'
        <3>1. /\ woTimestamps' \subseteq woTimestamps
              /\ woList'[l] = woList[l] /\ lids'[l] = lids[l]
              /\ lpc[l] # "boot" /\ lpc'[l] # "boot"
              /\ lpc'[l] = "boot_reap" <=> lpc[l] = "boot_reap"
            BY <2>1
        <3>2. (Booting(l)' <=> Booting(l)) /\ InHand(l)' = InHand(l)
            BY <2>1 DEF Booting, InHand
        <3>3. Submitting(l)' => Submitting(l) \/ Len(woList[l]) + 1 <= MaxWorkOrderCount
            BY <2>1 DEF Submitting
        <3> QED BY <3>1, <3>2, <3>3, QuietAccounts
    <2> QED BY <2>1, <2>2 DEF Purging
<1>16. CASE ClientRequest(l)
    <2>1. /\ lpc[l] = "idle"
          /\ lpc'[l] \in {"reply", "purge_pool", "check", "get_timestamp", "store_receipt"}
          /\ lpc'[l] = "check" => ~Full(woCount[l])
          /\ UNCHANGED <<lids, woList, woTimestamps>>
        BY <1>16, <1>b DEF ClientRequest, SubmitReceive, GetResult, ReceiptCreate, Answer
    <2>2. lpc'[l] = "check" => Len(woList[l]) + 1 <= MaxWorkOrderCount
        BY <1>0, <1>a, <2>1, ListenerAssumption DEF Full, ListenerFormed
    <2>3. AccountsForStore(l)'
        <3>1. /\ woTimestamps' \subseteq woTimestamps
              /\ woList'[l] = woList[l] /\ lids'[l] = lids[l]
              /\ lpc[l] # "boot" /\ lpc'[l] # "boot"
              /\ lpc'[l] = "boot_reap" <=> lpc[l] = "boot_reap"
            BY <2>1, <2>2
        <3>2. (Booting(l)' <=> Booting(l)) /\ InHand(l)' = InHand(l)
            BY <2>1, <2>2 DEF Booting, InHand
        <3>3. Submitting(l)' => Submitting(l) \/ Len(woList[l]) + 1 <= MaxWorkOrderCount
            BY <2>1, <2>2 DEF Submitting
        <3> QED BY <3>1, <3>2, <3>3, QuietAccounts
    <2> QED BY <2>1, <2>3 DEF Purging
<1>17. CASE ListenerRestart(l)
    <2>1. /\ lpc'[l] = "boot" /\ lids'[l] = {} /\ woList'[l] = <<>>
          /\ UNCHANGED woTimestamps
        BY <1>17, <1>b DEF ListenerRestart, EndScan
    <2> QED BY <1>c, <2>1, ListenerAssumption
            DEF AccountsForStore, Booting, Submitting, InHand, Purging
<1> QED
    BY <1>1, <1>2, <1>3, <1>4, <1>5, <1>6, <1>7, <1>8, <1>9, <1>10, <1>11, <1>12,
       <1>13, <1>14, <1>15, <1>16, <1>17
    DEF ListenerStep

(***************************************************************************)
(* The strengthened invariant is kept by every step of a deployment with   *)
(* one listener.                                                           *)
(***************************************************************************)
LEMMA NextCapacity ==
    ASSUME NEW l, Listeners = {l}, CapacityInv, [Next]_vars
    PROVE  CapacityInv'
<1>0. TypeInv /\ TypeInv' /\ l \in Listeners
    BY NextTypes DEF CapacityInv
<1>1. CASE /\ ListenerStep(l) \/ ClientRequest(l) \/ ListenerRestart(l)
           /\ UNCHANGED managerVars
    <2>1. /\ AccountsForStore(l)'
          /\ SubmitTimestamp(l) \/ woTimestamps' \subseteq woTimestamps
          /\ Purging(l)' => lvictim'[l] \in ToSet(woList'[l])
        BY <1>0, <1>1, ListenerAccounts
    <2>2. PurgeVictimListed'
        BY <2>1 DEF PurgeVictimListed
    <2>3. \A k \in Listeners : AccountsForStore(k)'
        BY <2>1
    <2>4. IsFiniteSet(woTimestamps') /\ Cardinality(woTimestamps') <= MaxWorkOrderCount
        <3>1. CASE woTimestamps' \subseteq woTimestamps
            <4>1. /\ IsFiniteSet(woTimestamps')
                  /\ Cardinality(woTimestamps') <= Cardinality(woTimestamps)
                BY <3>1, FS_Subset DEF CapacityInv
            <4>2. Cardinality(woTimestamps') \in Nat /\ Cardinality(woTimestamps) \in Nat
                BY <4>1, FS_CardinalityType DEF CapacityInv
            <4> QED BY <4>1, <4>2, ListenerAssumption DEF CapacityInv, StoreWithinLimit
        <3>2. CASE SubmitTimestamp(l)
            <4>1. /\ lpc'[l] = "set_request" /\ woList'[l] \in Seq(WoIds)
                  /\ lids'[l] \in SUBSET WoIds
                BY <1>0, <3>2 DEF SubmitTimestamp, GoTo, TypeInv, TypeOK, ListenerTypeOK
            <4>2. /\ woTimestamps' \subseteq ToSet(woList'[l]) \cup {lreq'[l].id}
                  /\ lids'[l] = {}
                BY <2>1, <4>1 DEF AccountsForStore, InHand, Booting
            <4>3. Len(woList'[l]) + 1 <= MaxWorkOrderCount /\ Len(woList'[l]) \in Nat
                <5>1. Cardinality(lids'[l]) = 0
                    BY <4>2, FS_EmptySet
                <5>2. Len(woList'[l]) \in Nat
                    BY <4>1, LenProperties
                <5>3. Len(woList'[l]) + Cardinality(lids'[l]) + 1 <= MaxWorkOrderCount
                    BY <2>1, <4>1 DEF AccountsForStore, Submitting
                <5> QED BY <5>1, <5>2, <5>3, ListenerAssumption
            <4>4. /\ IsFiniteSet(woTimestamps')
                  /\ Cardinality(woTimestamps') <= Len(woList'[l]) + 1
                BY <4>1, <4>2, CoveredBound
            <4>5. Cardinality(woTimestamps') \in Nat
                BY <4>4, FS_CardinalityType
            <4> QED BY <4>3, <4>4, <4>5, ListenerAssumption
        <3> QED BY <2>1, <3>1, <3>2
    <2> QED BY <1>0, <2>2, <2>3, <2>4 DEF CapacityInv, StoreWithinLimit
<1>2. ASSUME NEW m \in Managers, SingletonStep(m) \/ ManagerCrash(m),
             UNCHANGED listenerVars
      PROVE  CapacityInv'
    <2>1. woTimestamps' \subseteq woTimestamps
        BY <1>0, <1>2, ManagerStepTypes
    <2> QED BY <1>0, <1>2, <2>1, FewerTimestamps
<1>3. CASE UNCHANGED vars
    <2>1. woTimestamps' \subseteq woTimestamps /\ UNCHANGED listenerVars
        BY <1>3 DEF vars, storeVars, orderVars
    <2> QED BY <1>0, <2>1, FewerTimestamps
<1> QED BY <1>1, <1>2, <1>3 DEF Next

(***************************************************************************)
(* A deployment with one listener never holds context for more work orders *)
(* than max_work_order_count: for any limit, any set of ids (reused ones   *)
(* too), any workers, and any crashes and restarts of every process.       *)
(***************************************************************************)
THEOREM OneListenerKeepsLimit ==
    ASSUME NEW l, Listeners = {l}
    PROVE  Spec => []StoreWithinLimit
<1>1. CapacityInv => StoreWithinLimit
    BY DEF CapacityInv
<1>2. CapacityInv /\ [Next]_vars => CapacityInv'
    BY NextCapacity
<1> QED BY InitCapacity, <1>1, <1>2, PTL DEF Spec

(***************************************************************************)
(* With one listener a purge always finds its victim in workorder_list, so *)
(* list.remove never raises after the records are already gone.            *)
(***************************************************************************)
THEOREM OneListenerPurgesItsOwn ==
    ASSUME NEW l, Listeners = {l}
    PROVE  Spec => []PurgeVictimListed
<1>1. CapacityInv => PurgeVictimListed
    BY DEF CapacityInv
<1>2. CapacityInv /\ [Next]_vars => CapacityInv'
    BY NextCapacity
<1> QED BY InitCapacity, <1>1, <1>2, PTL DEF Spec

(***************************************************************************)
(* The accounts of the listener balance at every step: the store is in its *)
(* list, still to be treated by its boot flow or in its hands, and the     *)
(* three together fit.  This is what keeps the limit above.                *)
(***************************************************************************)
THEOREM OneListenerAccounts ==
    ASSUME NEW l, Listeners = {l}
    PROVE  Spec => []CapacityInv
<1>1. CapacityInv /\ [Next]_vars => CapacityInv'
    BY NextCapacity
<1> QED BY InitCapacity, <1>1, PTL DEF Spec

-----------------------------------------------------------------------------
(* One listener and managers that do not die                               *)

\* Managers that are never killed and whose enclave calls return; clients
\* create no receipts, the update of which ends a manager.
Deathless == MaxManagerCrashes = 0 /\ RaisingIds = {} /\ ReceiptIds = {}

\* No manager ends, so no clean-up ever finds an order.
Undisturbed ==
    /\ \A m \in Managers :
           /\ mpc[m] \notin {"down", "clean", "clean_unlist"} /\ mids[m] = <<>>
           /\ mpc[m] \in {"boot", "join", "clean_read"} => woProcessed[m] = <<>>
    /\ woReceipts = {} /\ \A l \in Listeners : lpc[l] # "store_receipt"

(***************************************************************************)
(* Deathless managers clean up once, when there is nothing to clean.       *)
(***************************************************************************)
LEMMA UndisturbedKept ==
    ASSUME TypeInv, Deathless, Undisturbed, [Next]_vars
    PROVE  Undisturbed'
<1>0. StoreTypeOK /\ ListenerTypeOK /\ ManagerTypeOK
    BY DEF TypeInv, TypeOK
<1>1. CASE UNCHANGED vars
    BY <1>1 DEF vars, storeVars, orderVars, queueVars, listenerVars, managerVars, managerLocals, Undisturbed
<1>2. ASSUME NEW l \in Listeners, ListenerStep(l) \/ ClientRequest(l) \/ ListenerRestart(l),
             UNCHANGED managerVars
      PROVE  Undisturbed'
    <2> USE DEF GoTo, storeVars, queueVars, orderVars, scanVars, Answer
    <2>1. /\ woReceipts' \subseteq woReceipts
          /\ \A w \in Workers : woProcessed[w] = <<>> => woProcessed'[w] = <<>>
          /\ \A k \in Listeners : lpc'[k] # "store_receipt"
        <3>1. CASE BootLookup(l) \/ BootLookupPool(l) \/ BootRead(l) \/ BootKeep(l)
                   \/ BootDiscard(l) \/ BootDone(l)
            BY <1>0, <3>1 DEF BootLookup, BootLookupPool, BootRead, BootKeep, BootDiscard,
                              BootDone, Undisturbed, ListenerTypeOK
        <3>2. CASE BootReap(l) \/ PurgeRemove(l)
            BY <1>0, <3>2 DEF BootReap, PurgeRemove, RemoveRecord, Undisturbed, ListenerTypeOK
        <3>3. CASE PurgeFinish(l)
            BY <1>0, <3>3 DEF PurgeFinish, RemoveRecord, Undisturbed, ListenerTypeOK
        <3>4. CASE PurgeLookupPool(l) \/ PurgeRead(l)
            BY <1>0, <3>4 DEF PurgeLookupPool, PurgeRead, Undisturbed, ListenerTypeOK
        <3>5. CASE PurgeSelect(l)
            BY <1>0, <3>5 DEF PurgeSelect, Undisturbed, ListenerTypeOK
        <3>6. CASE PurgeUnlist(l)
            <4>1. PICK w \in Workers : woProcessed' = CsvSearchDelete(woProcessed, w, lvictim[l])
                BY <3>6 DEF PurgeUnlist
            <4>2. ASSUME NEW v \in Workers, woProcessed[v] = <<>> PROVE woProcessed'[v] = <<>>
                <5>1. RemoveFirst(<<>>, lvictim[l]) = <<>>
                    BY DEF RemoveFirst
                <5> QED BY <1>0, <4>1, <4>2, <5>1 DEF CsvSearchDelete, StoreTypeOK
            <4> QED BY <1>0, <3>6, <4>2 DEF PurgeUnlist, Undisturbed, ListenerTypeOK
        <3>7. CASE SubmitCheck(l) \/ SubmitTimestamp(l) \/ SubmitRequest(l) \/ SubmitSchedule(l)
                   \/ GetResultTimestamp(l) \/ Reply(l) \/ ListenerRestart(l)
            BY <1>0, <3>7 DEF SubmitCheck, SubmitTimestamp, SubmitRequest, SubmitSchedule,
                   GetResultTimestamp, Reply, ListenerRestart, Undisturbed, ListenerTypeOK
        <3>8. CASE ReceiptStore(l)
            BY <3>8 DEF ReceiptStore, Undisturbed
        <3>9. ASSUME NEW i \in WoIds, NEW w \in Workers, SubmitReceive(l, i, w)
              PROVE  /\ UNCHANGED <<woReceipts, woProcessed>>
                     /\ \A k \in Listeners : lpc'[k] # "store_receipt"
            BY <1>0, <3>9 DEF SubmitReceive, Undisturbed, ListenerTypeOK
        <3>10. ASSUME NEW i \in WoIds, GetResult(l, i) \/ ReceiptCreate(l, i)
              PROVE  /\ UNCHANGED <<woReceipts, woProcessed>>
                     /\ \A k \in Listeners : lpc'[k] # "store_receipt"
            BY <1>0, <3>10 DEF GetResult, ReceiptCreate, Undisturbed, ListenerTypeOK, Deathless
        <3> QED BY <1>2, <3>1, <3>2, <3>3, <3>4, <3>5, <3>6, <3>7, <3>8, <3>9, <3>10
            DEF ListenerStep, ClientRequest
    <2> QED BY <1>2, <2>1, SingletonAssumption DEF Undisturbed, managerVars, managerLocals
<1>3. ASSUME NEW m \in Managers, SingletonStep(m) \/ ManagerCrash(m), UNCHANGED listenerVars
      PROVE  Undisturbed'
    <2> USE DEF MGoTo, storeVars, queueVars, orderVars, managerLocals
    <2>0. m \in Workers /\ WorkerOf[m] = m /\ lpc' = lpc
        BY <1>3, SingletonAssumption DEF listenerVars
    <2>1. CASE BootAddWorker(m) \/ JoinPool(m) \/ Pop(m) \/ ReadRequest(m) \/ MarkProcessing(m)
        BY <1>0, <2>0, <2>1 DEF BootAddWorker, JoinPool, Pop, ReadRequest, MarkProcessing,
               Undisturbed, ManagerTypeOK
    <2>2. CASE CleanupRead(m, "poll")
        BY <1>0, <2>0, <2>2 DEF CleanupRead, Undisturbed, ManagerTypeOK
    <2>3. CASE CleanupUnlist(m, "poll") \/ CleanupRemove(m) \/ ManagerRestart(m)
        BY <2>3 DEF CleanupUnlist, CleanupRemove, ManagerRestart, Undisturbed
    <2>4. CASE EnclaveRaises(m) \/ ManagerCrash(m)
        BY <1>0, <2>4 DEF EnclaveRaises, ManagerCrash, Deathless, ManagerTypeOK
    <2>5. CASE Execute(m) \/ UpdateReceipt(m) \/ PersistResponse(m) \/ ClearProcessing(m)
        BY <1>0, <2>0, <2>5 DEF Execute, UpdateReceipt, PersistResponse, ClearProcessing,
               Undisturbed, ManagerTypeOK
    <2>6. CASE AppendProcessed(m)
        BY <1>0, <2>0, <2>6, SingletonAssumption DEF AppendProcessed, CsvAppend,
               Undisturbed, ManagerTypeOK, StoreTypeOK
    <2> QED BY <1>3, <2>1, <2>2, <2>3, <2>4, <2>5, <2>6 DEF SingletonStep, ManagerStep
<1> QED BY <1>1, <1>2, <1>3 DEF Next


\* The listener is never restarted.
NeverRestarted == MaxListenerRestarts = 0

\* Room is being made for a submission.
InPurge(l) == lpc[l] \in {"purge_pool", "purge_read", "purge_select", "purge_unlist",
                          "purge_remove"}

\* A listener's accounts are exact: what it counts is the store, each order
\* once; and it turns a request away, or purges, only when its count is full.
ExactAccounts(l) ==
    /\ lpc[l] # "boot" => woTimestamps = ToSet(woList[l]) \cup lids[l] \cup InHand(l)
    /\ IsInjective(woList[l])
    /\ ToSet(woList[l]) \cap lids[l] = {}
    /\ InHand(l) \cap (ToSet(woList[l]) \cup lids[l]) = {}
    /\ lpc[l] = "set_timestamp" => lreq[l].id \notin woTimestamps
    /\ InPurge(l) \/ (lpc[l] = "reply" /\ lreply[l] = "BUSY") => Full(woCount[l])

ExactInv ==
    /\ CapacityInv /\ Undisturbed
    /\ \A l \in Listeners : ExactAccounts(l)

(***************************************************************************)
(* Steps that leave the list, the ids to treat and the id in hand alone.   *)
(***************************************************************************)
LEMMA QuietExact ==
    ASSUME NEW l \in Listeners, ExactAccounts(l),
           UNCHANGED woTimestamps,
           woList'[l] = woList[l], lids'[l] = lids[l], woCount'[l] = woCount[l],
           InHand(l)' = InHand(l), lpc[l] # "boot", lpc'[l] # "boot", lpc'[l] # "set_timestamp",
           InPurge(l)' \/ (lpc'[l] = "reply" /\ lreply'[l] = "BUSY") => Full(woCount[l])
    PROVE  ExactAccounts(l)'
BY DEF ExactAccounts, Full

(***************************************************************************)
(* The listener's own steps keep its accounts exact.                       *)
(***************************************************************************)
LEMMA ListenerExact ==
    ASSUME ExactInv, NEW l \in Listeners,
           ListenerStep(l) \/ ClientRequest(l) \/ ListenerRestart(l)
    PROVE  ExactAccounts(l)'
<1> USE DEF GoTo, scanVars, memVars, storeVars, orderVars, Answer
<1>0. /\ StoreTypeOK /\ ListenerTypeOK /\ ListenerFormed(l) /\ AccountsForStore(l) /\ ExactAccounts(l)
      /\ Purging(l) => lvictim[l] \in ToSet(woList[l])
      /\ lpc[l] \in ListenerPCs /\ woList[l] \in Seq(WoIds) /\ lids[l] \in SUBSET WoIds
      /\ lpc[l] # "store_receipt"
    BY DEF ExactInv, Undisturbed, CapacityInv, TypeInv, TypeOK, PurgeVictimListed, ListenerTypeOK
<1>1. CASE BootLookup(l)
    <2>1. /\ lpc[l] = "boot" /\ lpc'[l] = "boot_pool" /\ lids'[l] = woTimestamps
          /\ woList'[l] = <<>> /\ woList[l] = <<>> /\ woTimestamps' = woTimestamps
        BY <1>0, <1>1 DEF BootLookup, AccountsForStore, ListenerTypeOK
    <2>2. ToSet(<<>>) = {}
        BY DEF ToSet
    <2> QED BY <1>0, <2>1, <2>2 DEF ExactAccounts, InHand, InPurge
<1>2. CASE BootLookupPool(l) \/ BootRead(l)
    <2>1. /\ lpc[l] \in {"boot_pool", "boot_read"} /\ lpc'[l] \in {"boot_next", "boot_read"}
          /\ UNCHANGED <<lids, woList, woCount, woTimestamps>>
        BY <1>0, <1>2 DEF BootLookupPool, BootRead, ListenerTypeOK
    <2> QED BY <1>0, <2>1, QuietExact DEF InHand, InPurge
<1>3. CASE BootKeep(l)
    <2> DEFINE i == FirstKey(lids[l])
    <2>1. /\ i \in lids[l] /\ i \in WoIds /\ lpc[l] = "boot_next" /\ lpc'[l] = "boot_next"
          /\ lids'[l] = lids[l] \ {i} /\ woList'[l] = Append(woList[l], i)
          /\ woTimestamps' = woTimestamps
        BY <1>0, <1>3, FirstKeyMember DEF BootKeep, ListenerTypeOK
    <2> HIDE DEF i
    <2>2. i \notin ToSet(woList[l])
        BY <1>0, <2>1 DEF ExactAccounts
    <2>3. /\ ToSet(woList'[l]) = ToSet(woList[l]) \cup {i}
          /\ IsInjective(woList'[l])
        BY <1>0, <2>1, <2>2, AppendToSet, AppendDistinct DEF ExactAccounts
    <2> QED BY <1>0, <2>1, <2>2, <2>3 DEF ExactAccounts, InHand, InPurge
<1>4. CASE BootDiscard(l)
    <2> DEFINE i == FirstKey(lids[l])
    <2>1. /\ i \in lids[l] /\ lpc[l] = "boot_next" /\ lpc'[l] = "boot_reap"
          /\ lids'[l] = lids[l] \ {i} /\ lvictim'[l] = i
          /\ UNCHANGED <<woTimestamps, woList>>
        BY <1>0, <1>4, FirstKeyMember DEF BootDiscard, ListenerTypeOK
    <2> HIDE DEF i
    <2> QED BY <1>0, <2>1 DEF ExactAccounts, InHand, InPurge
<1>5. CASE BootReap(l)
    <2>1. /\ lpc[l] = "boot_reap" /\ lstep[l] \in 1..4 /\ UNCHANGED <<lids, woList, woCount>>
          /\ lstep[l] < 4 => /\ UNCHANGED <<lpc, lvictim>>
                             /\ woTimestamps' = woTimestamps
          /\ lstep[l] = 4 => /\ lpc'[l] = "boot_next"
                             /\ woTimestamps' = woTimestamps \ {lvictim[l]}
        BY <1>0, <1>5 DEF BootReap, RemoveRecord, BootReapOrder, ListenerFormed, ListenerTypeOK
    <2>2. CASE lstep[l] < 4
        BY <1>0, <2>1, <2>2, QuietExact DEF InHand, InPurge
    <2>3. CASE lstep[l] = 4
        BY <1>0, <2>1, <2>3 DEF ExactAccounts, InHand, InPurge
    <2> QED BY <2>1, <2>2, <2>3
<1>6. CASE BootDone(l)
    <2>1. /\ lpc[l] = "boot_next" /\ lpc'[l] = "idle" /\ lids[l] = {} /\ lids'[l] = {}
          /\ UNCHANGED <<woTimestamps, woList, woCount>>
        BY <1>0, <1>6 DEF BootDone, EndScan, ListenerTypeOK
    <2> QED BY <1>0, <2>1, QuietExact DEF InHand, InPurge
<1>7. CASE PurgeLookupPool(l) \/ PurgeRead(l) \/ PurgeUnlist(l)
    <2>1. /\ lpc[l] \in {"purge_pool", "purge_read", "purge_unlist"}
          /\ lpc'[l] \in {"purge_read", "purge_select", "purge_remove"}
          /\ UNCHANGED <<woTimestamps, woList, woCount, lids>>
        BY <1>0, <1>7 DEF PurgeLookupPool, PurgeRead, PurgeUnlist, ListenerTypeOK
    <2> QED BY <1>0, <2>1, QuietExact DEF InHand, InPurge, ExactAccounts
<1>8. CASE PurgeSelect(l)
    <2>1. /\ lpc[l] = "purge_select" /\ lpc'[l] \in {"reply", "purge_unlist"}
          /\ UNCHANGED <<woTimestamps, woList, woCount>> /\ lids'[l] \in {lids[l], {}}
        BY <1>0, <1>8 DEF PurgeSelect, EndScan, ListenerTypeOK
    <2>2. lids[l] = {}
        BY <1>0, <2>1 DEF AccountsForStore, Booting
    <2> QED BY <1>0, <2>1, <2>2, QuietExact DEF InHand, InPurge, ExactAccounts
<1>9. CASE PurgeRemove(l)
    <2>1. /\ lpc[l] = "purge_remove" /\ UNCHANGED <<lpc, lids, woList, woCount, woTimestamps>>
        BY <1>0, <1>9 DEF PurgeRemove, RemoveRecord, PurgeOrder, ListenerFormed, ListenerTypeOK
    <2> QED BY <1>0, <2>1, QuietExact DEF InHand, InPurge, ExactAccounts
<1>10. CASE PurgeFinish(l)
    <2> DEFINE i == lvictim[l]
    <2>1. /\ lpc[l] = "purge_remove" /\ lpc'[l] \in {"reply", "check"}
          /\ woTimestamps' = woTimestamps \ {i} /\ i \in ToSet(woList[l])
          /\ lids'[l] = {} /\ woList'[l] = RemoveFirst(woList[l], i)
          /\ lpc'[l] = "reply" => Full(woCount'[l])
        BY <1>0, <1>10 DEF PurgeFinish, RemoveRecord, PurgeOrder, ListenerFormed, ListenerTypeOK,
                           Purging, EndScan
    <2>2. lids[l] = {}
        BY <1>0, <2>1 DEF AccountsForStore, Booting
    <2> HIDE DEF i
    <2>3. /\ ToSet(woList'[l]) = ToSet(woList[l]) \ {i}
          /\ IsInjective(woList'[l])
        BY <1>0, <2>1, RemoveFirstProperties DEF ExactAccounts
    <2> QED BY <1>0, <2>1, <2>2, <2>3 DEF ExactAccounts, InHand, InPurge
<1>11. CASE SubmitCheck(l)
    <2>1. /\ lpc[l] = "check" /\ lpc'[l] \in {"reply", "set_timestamp"}
          /\ lpc'[l] = "reply" => lreply'[l] = "EXISTS"
          /\ lpc'[l] = "set_timestamp" => lreq[l].id \notin woTimestamps
          /\ UNCHANGED <<woTimestamps, woList, woCount, lids, lreq>>
        BY <1>0, <1>11 DEF SubmitCheck, ListenerTypeOK
    <2> QED BY <1>0, <2>1 DEF ExactAccounts, InHand, InPurge
<1>12. CASE SubmitTimestamp(l) \/ SubmitRequest(l)
    <2>1. \/ /\ lpc[l] = "set_timestamp" /\ lpc'[l] = "set_request"
             /\ woTimestamps' = woTimestamps \cup {lreq[l].id}
             /\ UNCHANGED <<woList, lids, lreq>>
          \/ /\ lpc[l] = "set_request" /\ lpc'[l] = "schedule"
             /\ UNCHANGED <<woTimestamps, woList, woCount, lids, lreq>>
        BY <1>0, <1>12 DEF SubmitTimestamp, SubmitRequest, ListenerTypeOK
    <2> QED BY <1>0, <2>1 DEF ExactAccounts, InHand, InPurge
<1>13. CASE SubmitSchedule(l)
    <2> DEFINE i == lreq[l].id
    <2>1. /\ lpc[l] = "schedule" /\ lpc'[l] = "reply" /\ lreply'[l] = "SUBMITTED" /\ i \in WoIds
          /\ woList'[l] = Append(woList[l], i)
          /\ UNCHANGED <<woTimestamps, lids>>
        BY <1>0, <1>13 DEF SubmitSchedule, ListenerFormed, ListenerTypeOK
    <2>2. InHand(l) = {i}
        BY <2>1 DEF InHand
    <2> HIDE DEF i
    <2>3. lids[l] = {} /\ i \notin ToSet(woList[l])
        BY <1>0, <2>1, <2>2 DEF AccountsForStore, Booting, ExactAccounts
    <2>4. /\ ToSet(woList'[l]) = ToSet(woList[l]) \cup {i}
          /\ IsInjective(woList'[l])
        BY <1>0, <2>1, <2>3, AppendToSet, AppendDistinct DEF ExactAccounts
    <2>5. InHand(l)' = {}
        BY <2>1 DEF InHand
    <2> QED BY <1>0, <2>1, <2>2, <2>3, <2>4, <2>5 DEF ExactAccounts, InPurge
<1>14. CASE GetResultTimestamp(l) \/ ReceiptStore(l) \/ Reply(l)
    <2>1. /\ lpc[l] \in {"get_timestamp", "store_receipt", "reply"} /\ lpc'[l] \in {"reply", "idle"}
          /\ lpc'[l] = "reply" => lreply'[l] # "BUSY"
          /\ UNCHANGED <<woTimestamps, woList, woCount, lids>>
        <3>1. CASE GetResultTimestamp(l) \/ ReceiptStore(l)
            BY <1>0, <3>1 DEF GetResultTimestamp, ReceiptStore, ListenerTypeOK
        <3>2. CASE Reply(l)
            BY <1>0, <3>2 DEF Reply, ListenerTypeOK
        <3> QED BY <1>14, <3>1, <3>2
    <2> QED BY <1>0, <2>1, QuietExact DEF InHand, InPurge
<1>15. ASSUME NEW i \in WoIds, GetResult(l, i) \/ ReceiptCreate(l, i)
       PROVE  ExactAccounts(l)'
    <2>1. /\ lpc[l] = "idle" /\ lpc'[l] \in {"reply", "get_timestamp", "store_receipt"}
          /\ lpc'[l] = "reply" => lreply'[l] # "BUSY"
          /\ UNCHANGED <<woTimestamps, woList, woCount, lids>>
        BY <1>0, <1>15 DEF GetResult, ReceiptCreate, ListenerTypeOK
    <2> QED BY <1>0, <2>1, QuietExact DEF InHand, InPurge
<1>16. ASSUME NEW i \in WoIds, NEW w \in Workers, SubmitReceive(l, i, w)
       PROVE  ExactAccounts(l)'
    <2>1. /\ lpc[l] = "idle" /\ lpc'[l] \in {"reply", "purge_pool", "check"}
          /\ lpc'[l] = "reply" => lreply'[l] # "BUSY"
          /\ lpc'[l] = "purge_pool" => Full(woCount[l])
          /\ UNCHANGED <<woTimestamps, woList, woCount, lids>>
        BY <1>0, <1>16 DEF SubmitReceive, ListenerTypeOK
    <2> QED BY <1>0, <2>1, QuietExact DEF InHand, InPurge
<1>17. CASE ListenerRestart(l)
    <2>1. lpc'[l] = "boot" /\ woList'[l] = <<>> /\ lids'[l] = {}
        BY <1>0, <1>17 DEF ListenerRestart, EndScan, ListenerTypeOK
    <2>2. IsInjective(<<>>) /\ ToSet(<<>>) = {}
        BY DEF IsInjective, ToSet
    <2> QED BY <2>1, <2>2 DEF ExactAccounts, InHand, InPurge
<1> QED BY <1>1, <1>2, <1>3, <1>4, <1>5, <1>6, <1>7, <1>8, <1>9, <1>10, <1>11, <1>12, <1>13,
           <1>14, <1>15, <1>16, <1>17 DEF ListenerStep, ClientRequest

(***************************************************************************)
(* Managers that do not die remove no order behind the listener's back.    *)
(***************************************************************************)
LEMMA NextExact ==
    ASSUME NEW l, Listeners = {l}, Deathless
    PROVE  ExactInv /\ [Next]_vars => ExactInv'
<1> SUFFICES ASSUME ExactInv, [Next]_vars PROVE ExactInv'
    OBVIOUS
<1>1. CapacityInv' /\ Undisturbed'
    BY NextCapacity, UndisturbedKept DEF ExactInv, CapacityInv
<1>2. CASE ListenerStep(l) \/ ClientRequest(l) \/ ListenerRestart(l)
    BY <1>1, <1>2, ListenerExact DEF ExactInv
<1>3. ASSUME UNCHANGED woTimestamps, UNCHANGED listenerVars PROVE ExactInv'
    BY <1>1, <1>3 DEF ExactInv, ExactAccounts, listenerVars, scanVars, memVars, InHand, InPurge
<1>4. ASSUME NEW m \in Managers, SingletonStep(m) \/ ManagerCrash(m), UNCHANGED listenerVars
      PROVE  UNCHANGED woTimestamps
    <2> USE DEF storeVars, orderVars
    <2>1. ~CleanupRemove(m)
        BY DEF CleanupRemove, ExactInv, Undisturbed
    <2>2. CASE BootAddWorker(m) \/ JoinPool(m) \/ CleanupRead(m, "poll") \/ CleanupUnlist(m, "poll")
               \/ Pop(m) \/ ReadRequest(m) \/ MarkProcessing(m) \/ ManagerCrash(m)
        BY <2>2 DEF BootAddWorker, JoinPool, CleanupRead, CleanupUnlist, Pop, ReadRequest,
                    MarkProcessing, ManagerCrash
    <2>3. CASE Execute(m) \/ EnclaveRaises(m) \/ UpdateReceipt(m) \/ PersistResponse(m)
               \/ AppendProcessed(m) \/ ClearProcessing(m) \/ ManagerRestart(m)
        BY <2>3 DEF Execute, EnclaveRaises, UpdateReceipt, PersistResponse, AppendProcessed,
                    ClearProcessing, ManagerRestart
    <2> QED BY <1>4, <2>1, <2>2, <2>3 DEF SingletonStep, ManagerStep
<1>5. CASE UNCHANGED vars
    BY <1>3, <1>5 DEF vars, storeVars, orderVars
<1> QED BY <1>2, <1>3, <1>4, <1>5 DEF Next

(***************************************************************************)
(* The empty system.                                                       *)
(***************************************************************************)
LEMMA InitExact == Init => ExactInv
<1> SUFFICES ASSUME Init PROVE ExactInv
    OBVIOUS
<1>1. /\ CapacityInv /\ IsInjective(<<>>) /\ ToSet(<<>>) = {}
      /\ \A l \in Listeners : lpc[l] = "boot" /\ woList[l] = <<>> /\ lids[l] = {}
    BY InitCapacity DEF Init, ListenerInit, IsInjective, ToSet
<1>2. Undisturbed
    BY SingletonAssumption DEF Init, ListenerInit, ManagerInit, StoreInit, Undisturbed
<1> QED BY <1>1, <1>2 DEF ExactInv, ExactAccounts, InHand, InPurge

(***************************************************************************)
(* With one listener and managers that do not die, the listener's count at *)
(* rest is the number of orders in the store, after any reuse of ids and   *)
(* any restart of the listener: no capacity leaks.                         *)
(***************************************************************************)
THEOREM OneListenerCountsStore ==
    ASSUME NEW l, Listeners = {l}, Deathless
    PROVE  Spec => []CountMatchesStore
<1>1. ExactInv => CountMatchesStore
    <2> SUFFICES ASSUME ExactInv, lpc[l] = "idle"
                 PROVE  woCount[l] = Cardinality(woTimestamps)
        BY DEF CountMatchesStore
    <2>0. /\ l \in Listeners /\ ExactAccounts(l) /\ ListenerFormed(l) /\ ListenerTypeOK
          /\ lids[l] = {} /\ InHand(l) = {}
        BY DEF ExactInv, CapacityInv, AccountsForStore, Booting, TypeInv, TypeOK, InHand
    <2>1. /\ woList[l] \in Seq(WoIds) /\ IsInjective(woList[l]) /\ woCount[l] = Len(woList[l])
          /\ woTimestamps = ToSet(woList[l])
        BY <2>0 DEF ExactAccounts, ListenerTypeOK, ListenerFormed
    <2> QED BY <2>1, DistinctLength
<1>2. ExactInv /\ [Next]_vars => ExactInv'
    BY NextExact
<1> QED BY <1>1, <1>2, InitExact, PTL DEF Spec

(***************************************************************************)
(* With one listener and managers that do not die, a client is told BUSY   *)
(* only when the store really holds max_work_order_count orders.           *)
(***************************************************************************)
THEOREM OneListenerBusyWhenFull ==
    ASSUME NEW l, Listeners = {l}, Deathless
    PROVE  Spec => []BusyOnlyWhenFull
<1>1. ExactInv => BusyOnlyWhenFull
    <2> SUFFICES ASSUME ExactInv, lpc[l] = "reply", lreply[l] = "BUSY"
                 PROVE  Cardinality(woTimestamps) >= MaxWorkOrderCount
        BY DEF BusyOnlyWhenFull
    <2>0. /\ l \in Listeners /\ ExactAccounts(l) /\ ListenerFormed(l) /\ ListenerTypeOK
          /\ lids[l] = {} /\ InHand(l) = {}
        BY DEF ExactInv, CapacityInv, AccountsForStore, Booting, TypeInv, TypeOK, InHand
    <2>1. /\ woList[l] \in Seq(WoIds) /\ IsInjective(woList[l]) /\ woCount[l] = Len(woList[l])
          /\ woTimestamps = ToSet(woList[l]) /\ Full(woCount[l])
        BY <2>0 DEF ExactAccounts, ListenerTypeOK, ListenerFormed
    <2>2. Cardinality(woTimestamps) = Len(woList[l]) /\ Len(woList[l]) \in Nat
        BY <2>1, DistinctLength, LenProperties
    <2> QED BY <2>1, <2>2, ListenerAssumption DEF Full
<1>2. ExactInv /\ [Next]_vars => ExactInv'
    BY NextExact
<1> QED BY <1>1, <1>2, InitExact, PTL DEF Spec


-----------------------------------------------------------------------------
(* Several listeners behind a load balancer                                *)

\* What a listener counts, or is about to count, against its limit.
Own(l) ==
    ToSet(woList[l]) \cup (IF lpc[l] \in {"set_request", "schedule"} THEN {lreq[l].id} ELSE {})

Share(owner, l) == {i \in woTimestamps : owner[i] = l}

\* Every order in the store has one listener that answers for it, and no
\* listener answers for more than its limit.
Shares(owner) ==
    /\ owner \in [woTimestamps -> Listeners]
    /\ \A l \in Listeners : /\ Share(owner, l) \subseteq Own(l)
                            /\ Cardinality(Share(owner, l)) <= MaxWorkOrderCount

SharedInv ==
    /\ TypeInv
    /\ \E owner : Shares(owner)
    /\ \A l \in Listeners : Submitting(l) => Len(woList[l]) + 1 <= MaxWorkOrderCount

(***************************************************************************)
(* What a listener owns is finite.                                         *)
(***************************************************************************)
LEMMA OwnFinite ==
    ASSUME TypeInv, NEW l \in Listeners, NEW T \in SUBSET Own(l)
    PROVE  IsFiniteSet(T)
<1>1. woList[l] \in Seq(WoIds)
    BY DEF TypeInv, TypeOK, ListenerTypeOK
<1>2. T \subseteq ToSet(woList[l]) \cup {lreq[l].id}
    BY DEF Own
<1> QED BY <1>1, <1>2, CoveredBound

(***************************************************************************)
(* Steps that add no order, and take none that is still in the store from  *)
(* what a listener owns.                                                   *)
(***************************************************************************)
LEMMA SharesKept ==
    ASSUME SharedInv, TypeInv', woTimestamps' \subseteq woTimestamps,
           \A l \in Listeners : Own(l) \cap woTimestamps' \subseteq Own(l)'
    PROVE  (\E owner : Shares(owner))'
<1>1. PICK owner : Shares(owner)
    BY DEF SharedInv
<1> DEFINE rest == [i \in woTimestamps' |-> owner[i]]
<1>2. rest \in [woTimestamps' -> Listeners]
    BY <1>1 DEF Shares
<1>3. ASSUME NEW l \in Listeners
      PROVE  /\ {i \in woTimestamps' : rest[i] = l} \subseteq Own(l)'
             /\ Cardinality({i \in woTimestamps' : rest[i] = l}) <= MaxWorkOrderCount
    <2>1. {i \in woTimestamps' : rest[i] = l} \subseteq Share(owner, l)
        BY DEF Share
    <2>2. Share(owner, l) \subseteq Own(l) /\ Cardinality(Share(owner, l)) <= MaxWorkOrderCount
        BY <1>1 DEF Shares
    <2>3. IsFiniteSet(Share(owner, l))
        BY <2>2, OwnFinite DEF SharedInv
    <2>4. /\ Cardinality({i \in woTimestamps' : rest[i] = l}) <= Cardinality(Share(owner, l))
          /\ IsFiniteSet({i \in woTimestamps' : rest[i] = l})
        BY <2>1, <2>3, FS_Subset
    <2>5. /\ Cardinality({i \in woTimestamps' : rest[i] = l}) \in Nat
          /\ Cardinality(Share(owner, l)) \in Nat
        BY <2>3, <2>4, FS_CardinalityType
    <2> QED BY <2>1, <2>2, <2>4, <2>5, ListenerAssumption
<1> HIDE DEF rest
<1>4. PICK o : o = rest
    OBVIOUS
<1>5. Shares(o)'
    BY <1>2, <1>3, <1>4 DEF Shares, Share
<1> QED BY <1>5

(***************************************************************************)
(* The one step that adds an order: the listener that takes it has room,   *)
(* also when another one has created the same id since the check.          *)
(***************************************************************************)
LEMMA SharesExtended ==
    ASSUME SharedInv, TypeInv', NEW l \in Listeners, SubmitTimestamp(l)
    PROVE  (\E owner : Shares(owner))'
<1> DEFINE i == lreq[l].id
<1>1. /\ lpc[l] = "set_timestamp" /\ lpc'[l] = "set_request" /\ i \in WoIds
      /\ \A k \in Listeners \ {l} : lpc'[k] = lpc[k]
      /\ UNCHANGED <<woList, lreq>> /\ woTimestamps' = woTimestamps \cup {i}
      /\ woList[l] \in Seq(WoIds)
    BY DEF SubmitTimestamp, SharedInv, TypeInv, TypeOK, ListenerTypeOK, ListenerFormed, GoTo, memVars
<1>2. (\A k \in Listeners : Own(k) \subseteq Own(k)') /\ Own(l)' = ToSet(woList[l]) \cup {i}
    BY <1>1 DEF Own
<1>3. Len(woList[l]) + 1 <= MaxWorkOrderCount /\ Len(woList[l]) \in Nat
    BY <1>1, LenProperties DEF SharedInv, Submitting
<1> HIDE DEF i
<1>4. CASE i \in woTimestamps
    <2>1. woTimestamps' \subseteq woTimestamps
        BY <1>1, <1>4
    <2> QED BY <1>2, <2>1, SharesKept
<1>5. CASE i \notin woTimestamps
    <2>1. PICK owner : Shares(owner)
        BY DEF SharedInv
    <2> DEFINE more == [j \in woTimestamps' |-> IF j = i THEN l ELSE owner[j]]
    <2>2. more \in [woTimestamps' -> Listeners]
        BY <1>1, <2>1 DEF Shares
    <2>3. ASSUME NEW k \in Listeners
          PROVE  /\ {j \in woTimestamps' : more[j] = k} \subseteq Own(k)'
                 /\ Cardinality({j \in woTimestamps' : more[j] = k}) <= MaxWorkOrderCount
        <3>1. Share(owner, k) \subseteq Own(k) /\ Cardinality(Share(owner, k)) <= MaxWorkOrderCount
            BY <2>1 DEF Shares
        <3>2. CASE k # l
            <4>1. {j \in woTimestamps' : more[j] = k} = Share(owner, k)
                BY <1>1, <1>5, <3>2 DEF Share
            <4> QED BY <1>2, <3>1, <4>1
        <3>3. CASE k = l
            <4>1. {j \in woTimestamps' : more[j] = k} \subseteq Share(owner, l) \cup {i}
                BY <1>1, <3>3 DEF Share
            <4>2. Own(l) = ToSet(woList[l])
                BY <1>1 DEF Own
            <4>3. {j \in woTimestamps' : more[j] = k} \subseteq ToSet(woList[l]) \cup {i}
                BY <3>1, <3>3, <4>1, <4>2
            <4>4. PICK T : T = {j \in woTimestamps' : more[j] = k}
                OBVIOUS
            <4>5. IsFiniteSet(T) /\ Cardinality(T) <= Len(woList[l]) + 1
                BY <1>1, <4>3, <4>4, CoveredBound
            <4>6. Cardinality(T) \in Nat
                BY <4>5, FS_CardinalityType
            <4>7. Cardinality(T) <= MaxWorkOrderCount
                BY <1>3, <4>5, <4>6, ListenerAssumption
            <4> QED BY <1>2, <3>3, <4>3, <4>4, <4>7
        <3> QED BY <3>2, <3>3
    <2> HIDE DEF more
    <2>4. PICK o : o = more
        OBVIOUS
    <2>5. Shares(o)'
        BY <2>2, <2>3, <2>4 DEF Shares, Share
    <2> QED BY <2>5
<1> QED BY <1>4, <1>5

(***************************************************************************)
(* A listener that is not restarted loses from its list only what it       *)
(* removes from the store, and starts a submission only with room for it.  *)
(***************************************************************************)
LEMMA ListenerShares ==
    ASSUME SharedInv, TypeInv', NEW l \in Listeners, ListenerStep(l) \/ ClientRequest(l)
    PROVE  SharedInv'
<1> USE DEF GoTo, scanVars, memVars, storeVars, orderVars, Answer
<1>0. /\ StoreTypeOK /\ ListenerTypeOK /\ ListenerFormed(l)
      /\ woList[l] \in Seq(WoIds) /\ lpc[l] \in ListenerPCs
      /\ Submitting(l) => Len(woList[l]) + 1 <= MaxWorkOrderCount
    BY DEF SharedInv, TypeInv, TypeOK, ListenerTypeOK
<1>a. Len(woList[l]) \in Nat
    BY <1>0, LenProperties
<1>1. ASSUME \A k \in Listeners \ {l} : /\ woList'[k] = woList[k] /\ lpc'[k] = lpc[k]
                                        /\ lreq'[k] = lreq[k],
             woTimestamps' \subseteq woTimestamps,
             Own(l) \cap woTimestamps' \subseteq Own(l)',
             Submitting(l)' => Len(woList'[l]) + 1 <= MaxWorkOrderCount
      PROVE  SharedInv'
    <2>1. \A k \in Listeners : Own(k) \cap woTimestamps' \subseteq Own(k)'
        BY <1>1 DEF Own
    <2>2. \A k \in Listeners : Submitting(k)' => Len(woList'[k]) + 1 <= MaxWorkOrderCount
        BY <1>1 DEF SharedInv, Submitting
    <2> QED BY <1>1, <2>1, <2>2, SharesKept DEF SharedInv
<1>2. ASSUME UNCHANGED woList, woTimestamps' \subseteq woTimestamps,
             \A k \in Listeners \ {l} : lpc'[k] = lpc[k] /\ lreq'[k] = lreq[k],
             lpc[l] \notin {"set_request", "schedule"},
             Submitting(l)' => Submitting(l) \/ Len(woList[l]) + 1 <= MaxWorkOrderCount
      PROVE  SharedInv'
    <2>1. Own(l) \subseteq Own(l)'
        BY <1>2 DEF Own
    <2> QED BY <1>0, <1>1, <1>2, <2>1
<1>3. CASE BootLookup(l) \/ BootLookupPool(l) \/ BootRead(l) \/ BootDiscard(l) \/ BootDone(l)
    <2>1. /\ UNCHANGED <<woList, woTimestamps, lreq>>
          /\ \A k \in Listeners \ {l} : lpc'[k] = lpc[k]
          /\ lpc[l] \in {"boot", "boot_pool", "boot_read", "boot_next"}
          /\ lpc'[l] \in {"boot_pool", "boot_read", "boot_next", "boot_reap", "idle"}
        BY <1>0, <1>3 DEF BootLookup, BootLookupPool, BootRead, BootDiscard, BootDone, ListenerTypeOK
    <2> QED BY <1>2, <2>1 DEF Submitting
<1>4. CASE BootKeep(l)
    <2> DEFINE i == FirstKey(lids[l])
    <2>1. /\ i \in WoIds /\ lpc[l] = "boot_next" /\ UNCHANGED <<lpc, lreq, woTimestamps>>
          /\ woList'[l] = Append(woList[l], i)
          /\ \A k \in Listeners \ {l} : woList'[k] = woList[k]
        BY <1>0, <1>4, FirstKeyMember DEF BootKeep, ListenerTypeOK
    <2> HIDE DEF i
    <2>2. ToSet(woList'[l]) = ToSet(woList[l]) \cup {i}
        BY <1>0, <2>1, AppendToSet
    <2>3. Own(l) \subseteq Own(l)' /\ ~Submitting(l)'
        BY <2>1, <2>2 DEF Own, Submitting
    <2> QED BY <1>1, <2>1, <2>3
<1>5. CASE BootReap(l) \/ PurgeRemove(l)
    <2>1. /\ UNCHANGED <<woList, lreq>> /\ woTimestamps' \subseteq woTimestamps
          /\ \A k \in Listeners \ {l} : lpc'[k] = lpc[k]
          /\ lpc[l] \in {"boot_reap", "purge_remove"}
          /\ lpc'[l] \in {"boot_reap", "boot_next", "purge_remove"}
        BY <1>0, <1>5 DEF BootReap, PurgeRemove, RemoveRecord, ListenerTypeOK
    <2> QED BY <1>2, <2>1 DEF Submitting
<1>6. CASE PurgeLookupPool(l) \/ PurgeRead(l) \/ PurgeUnlist(l) \/ PurgeSelect(l)
    <2>1. /\ UNCHANGED <<woList, woTimestamps, lreq>>
          /\ \A k \in Listeners \ {l} : lpc'[k] = lpc[k]
          /\ lpc[l] \in {"purge_pool", "purge_read", "purge_unlist", "purge_select"}
          /\ lpc'[l] \in {"purge_read", "purge_unlist", "purge_select", "purge_remove", "reply"}
        <3>1. CASE PurgeLookupPool(l) \/ PurgeRead(l) \/ PurgeUnlist(l)
            BY <1>0, <3>1 DEF PurgeLookupPool, PurgeRead, PurgeUnlist, ListenerTypeOK
        <3>2. CASE PurgeSelect(l)
            BY <1>0, <3>2 DEF PurgeSelect, ListenerTypeOK
        <3> QED BY <1>6, <3>1, <3>2
    <2> QED BY <1>2, <2>1 DEF Submitting
<1>7. CASE PurgeFinish(l)
    <2> DEFINE i == lvictim[l]
    <2>1. /\ lpc[l] = "purge_remove" /\ lpc'[l] \in {"reply", "check"} /\ UNCHANGED lreq
          /\ \A k \in Listeners \ {l} : lpc'[k] = lpc[k] /\ woList'[k] = woList[k]
          /\ woTimestamps' = woTimestamps \ {i}
          /\ \/ woList'[l] = woList[l] /\ lpc'[l] = "reply"
             \/ /\ i \in ToSet(woList[l]) /\ woList'[l] = RemoveFirst(woList[l], i)
                /\ lpc'[l] = "check" => ~Full(woCount[l] - 1)
        BY <1>0, <1>7 DEF PurgeFinish, RemoveRecord, PurgeOrder, ListenerTypeOK
    <2> HIDE DEF i
    <2>2. /\ ToSet(woList[l]) \ {i} \subseteq ToSet(RemoveFirst(woList[l], i))
          /\ i \in ToSet(woList[l]) => Len(RemoveFirst(woList[l], i)) = Len(woList[l]) - 1
        BY <1>0, RemoveFirstProperties
    <2>3. Own(l) \cap woTimestamps' \subseteq Own(l)'
        BY <2>1, <2>2 DEF Own
    <2>4. Submitting(l)' => Len(woList'[l]) + 1 <= MaxWorkOrderCount
        BY <1>0, <1>a, <2>1, <2>2, ListenerAssumption DEF Submitting, Full, ListenerFormed
    <2> QED BY <1>1, <2>1, <2>3, <2>4
<1>8. CASE SubmitCheck(l) \/ GetResultTimestamp(l) \/ ReceiptStore(l) \/ Reply(l)
    <2>1. /\ UNCHANGED <<woList, woTimestamps>>
          /\ \A k \in Listeners \ {l} : lpc'[k] = lpc[k] /\ lreq'[k] = lreq[k]
          /\ lpc[l] \in {"check", "get_timestamp", "store_receipt", "reply"}
          /\ lpc'[l] \in {"reply", "idle"} \/ (lpc[l] = "check" /\ lpc'[l] = "set_timestamp")
        <3>1. CASE SubmitCheck(l) \/ GetResultTimestamp(l)
            BY <1>0, <3>1 DEF SubmitCheck, GetResultTimestamp, ListenerTypeOK
        <3>2. CASE ReceiptStore(l) \/ Reply(l)
            BY <1>0, <3>2 DEF ReceiptStore, Reply, ListenerTypeOK
        <3> QED BY <1>8, <3>1, <3>2
    <2> QED BY <1>2, <2>1 DEF Submitting
<1>9. CASE SubmitTimestamp(l)
    <2>1. /\ UNCHANGED woList /\ lpc[l] = "set_timestamp"
          /\ \A k \in Listeners \ {l} : lpc'[k] = lpc[k]
        BY <1>0, <1>9 DEF SubmitTimestamp, ListenerTypeOK
    <2>2. \A k \in Listeners : Submitting(k)' => Len(woList'[k]) + 1 <= MaxWorkOrderCount
        BY <2>1 DEF SharedInv, Submitting
    <2> QED BY <1>9, <2>2, SharesExtended DEF SharedInv
<1>10. CASE SubmitRequest(l)
    <2>1. /\ UNCHANGED <<woList, woTimestamps, lreq>> /\ lpc[l] = "set_request" /\ lpc'[l] = "schedule"
          /\ \A k \in Listeners \ {l} : lpc'[k] = lpc[k]
        BY <1>0, <1>10 DEF SubmitRequest, ListenerTypeOK
    <2>2. Own(l)' = Own(l) /\ Submitting(l)
        BY <2>1 DEF Own, Submitting
    <2> QED BY <1>0, <1>1, <2>1, <2>2
<1>11. CASE SubmitSchedule(l)
    <2>1. /\ lpc[l] = "schedule" /\ lpc'[l] = "reply" /\ lreq[l].id \in WoIds
          /\ woList'[l] = Append(woList[l], lreq[l].id)
          /\ UNCHANGED <<woTimestamps, lreq>>
          /\ \A k \in Listeners \ {l} : lpc'[k] = lpc[k] /\ woList'[k] = woList[k]
        BY <1>0, <1>11 DEF SubmitSchedule, ListenerFormed, ListenerTypeOK
    <2>2. ToSet(woList'[l]) = ToSet(woList[l]) \cup {lreq[l].id}
        BY <1>0, <2>1, AppendToSet
    <2>3. Own(l) \subseteq Own(l)' /\ ~Submitting(l)'
        BY <2>1, <2>2 DEF Own, Submitting
    <2> QED BY <1>1, <2>1, <2>3
<1>12. ASSUME NEW i \in WoIds, GetResult(l, i) \/ ReceiptCreate(l, i)
       PROVE  SharedInv'
    <2>1. /\ UNCHANGED <<woList, woTimestamps>>
          /\ lpc[l] = "idle" /\ lpc'[l] \in {"reply", "get_timestamp", "store_receipt"}
          /\ \A k \in Listeners \ {l} : lpc'[k] = lpc[k] /\ lreq'[k] = lreq[k]
        BY <1>0, <1>12 DEF GetResult, ReceiptCreate, ListenerTypeOK
    <2> QED BY <1>2, <2>1 DEF Submitting
<1>13. ASSUME NEW i \in WoIds, NEW w \in Workers, SubmitReceive(l, i, w)
       PROVE  SharedInv'
    <2>1. /\ UNCHANGED <<woList, woTimestamps>>
          /\ lpc[l] = "idle" /\ lpc'[l] \in {"reply", "purge_pool", "check"}
          /\ lpc'[l] = "check" => ~Full(woCount[l])
          /\ \A k \in Listeners \ {l} : lpc'[k] = lpc[k] /\ lreq'[k] = lreq[k]
        BY <1>0, <1>13 DEF SubmitReceive, ListenerTypeOK
    <2>2. Submitting(l)' => Len(woList[l]) + 1 <= MaxWorkOrderCount
        BY <1>0, <1>a, <2>1, ListenerAssumption DEF Submitting, Full, ListenerFormed
    <2> QED BY <1>2, <2>1, <2>2
<1> QED BY <1>3, <1>4, <1>5, <1>6, <1>7, <1>8, <1>9, <1>10, <1>11, <1>12, <1>13
    DEF ListenerStep, ClientRequest

(***************************************************************************)
(* Any number of listeners that share the store without restarting keep it *)
(* within that number times max_work_order_count, whatever crashes, is     *)
(* purged by one behind the back of another, or is created by two at once. *)
(***************************************************************************)
THEOREM ListenersKeepSharedLimit ==
    ASSUME IsFiniteSet(Listeners), NeverRestarted
    PROVE  Spec => []StoreWithinSharedLimit
<1>1. Init => SharedInv
    <2> SUFFICES ASSUME Init PROVE SharedInv
        OBVIOUS
    <2>1. TypeInv
        BY InitTypes
    <2>2. woTimestamps = {} /\ \A l \in Listeners : lpc[l] = "boot"
        BY DEF Init, StoreInit, ListenerInit
    <2>3. \A l \in Listeners : ~Submitting(l)
        BY <2>2 DEF Submitting
    <2>4. PICK o : o = [i \in {} |-> i]
        OBVIOUS
    <2>5. o \in [woTimestamps -> Listeners] /\ \A l \in Listeners : Share(o, l) = {}
        BY <2>2, <2>4 DEF Share
    <2>6. Shares(o)
        BY <2>5, FS_EmptySet, ListenerAssumption DEF Shares
    <2> QED BY <2>1, <2>3, <2>6 DEF SharedInv
<1>2. SharedInv /\ [Next]_vars => SharedInv'
    <2> SUFFICES ASSUME SharedInv, [Next]_vars PROVE SharedInv'
        OBVIOUS
    <2>1. TypeInv /\ TypeInv'
        BY NextTypes DEF SharedInv
    <2>2. ASSUME NEW l \in Listeners, ListenerStep(l) \/ ClientRequest(l) \/ ListenerRestart(l)
          PROVE  SharedInv'
        <3>1. ~ListenerRestart(l)
            BY <2>1 DEF ListenerRestart, NeverRestarted, TypeInv, TypeOK, ListenerTypeOK
        <3> QED BY <2>1, <2>2, <3>1, ListenerShares
    <2>3. ASSUME woTimestamps' \subseteq woTimestamps, UNCHANGED listenerVars PROVE SharedInv'
        <3>1. \A l \in Listeners : Own(l)' = Own(l) /\ (Submitting(l)' <=> Submitting(l))
            BY <2>3 DEF Own, Submitting, listenerVars, memVars
        <3>2. (\E owner : Shares(owner))'
            BY <2>1, <2>3, <3>1, SharesKept
        <3> QED BY <2>1, <2>3, <3>1, <3>2 DEF SharedInv, listenerVars, memVars
    <2>4. ASSUME NEW m \in Managers, SingletonStep(m) \/ ManagerCrash(m), UNCHANGED listenerVars
          PROVE  SharedInv'
        BY <2>1, <2>3, <2>4, ManagerStepTypes
    <2>5. CASE UNCHANGED vars
        BY <2>3, <2>5 DEF vars, storeVars, orderVars
    <2> QED BY <2>2, <2>4, <2>5 DEF Next
<1>3. SharedInv => StoreWithinSharedLimit
    <2> SUFFICES ASSUME SharedInv PROVE StoreWithinSharedLimit
        OBVIOUS
    <2>1. PICK owner : Shares(owner)
        BY DEF SharedInv
    <2>2. \A l \in Listeners : /\ IsFiniteSet(Share(owner, l))
                               /\ Cardinality(Share(owner, l)) <= MaxWorkOrderCount
        BY <2>1, OwnFinite DEF Shares, SharedInv
    <2>3. owner \in [woTimestamps -> Listeners] /\ MaxWorkOrderCount \in Nat
        BY <2>1, ListenerAssumption DEF Shares
    <2>4. Cardinality(woTimestamps) <= MaxWorkOrderCount * Cardinality(Listeners)
        BY <2>2, <2>3, SharesBound DEF Share
    <2> QED BY <2>4 DEF StoreWithinSharedLimit
<1> QED BY <1>1, <1>2, <1>3, PTL DEF Spec

-----------------------------------------------------------------------------
(***************************************************************************)
(* What happens to a work order in the Singleton deployment, for every     *)
(* number of ids, workers, listeners and submissions.                      *)
(***************************************************************************)

-----------------------------------------------------------------------------
(* Clients that use an id once                                             *)

\* The handler of WorkOrderSubmit is running, up to the write to the queue.
InSubmission(l) ==
    lpc[l] \in {"purge_pool", "purge_read", "purge_select", "purge_unlist",
                "purge_remove", "check", "set_timestamp", "set_request", "schedule"}

\* A manager has popped an order that it has not run yet.
AboutToRun(m) == mpc[m] \in {"read", "mark", "execute"}

Ran(i) == \E s \in executed : s[1] = i

\* A submission in progress is the only trace of its id.
SubmissionAlone(l) ==
    InSubmission(l) =>
        /\ submits[lreq[l].id] >= 1
        /\ \A k \in Listeners : k # l /\ InSubmission(k) => lreq[k].id # lreq[l].id
        /\ \A w \in Workers : \A n \in 1..Len(woScheduled[w]) : woScheduled[w][n] # lreq[l].id
        /\ \A m \in Managers : AboutToRun(m) => mwo[m] # lreq[l].id
        /\ ~Ran(lreq[l].id)

\* A queued order is queued once and is neither held nor run.
QueuedOnce(w, n) ==
    /\ submits[woScheduled[w][n]] >= 1
    /\ \A v \in Workers : \A k \in 1..Len(woScheduled[v]) :
           woScheduled[v][k] = woScheduled[w][n] => v = w /\ k = n
    /\ \A m \in Managers : AboutToRun(m) => mwo[m] # woScheduled[w][n]
    /\ ~Ran(woScheduled[w][n])

\* An order about to run is in the hands of one manager and has not run.
HeldOnce(m) ==
    AboutToRun(m) =>
        /\ submits[mwo[m]] >= 1
        /\ \A k \in Managers : k # m /\ AboutToRun(k) => mwo[k] # mwo[m]
        /\ ~Ran(mwo[m])

OnceInv ==
    /\ TypeInv
    /\ \A l \in Listeners : SubmissionAlone(l)
    /\ \A w \in Workers : \A n \in 1..Len(woScheduled[w]) : QueuedOnce(w, n)
    /\ \A m \in Managers : HeldOnce(m)
    /\ \A s \in executed : submits[s[1]] >= 1
    /\ AtMostOnceExecution

(***************************************************************************)
(* A listener step that neither starts a submission nor queues one.        *)
(***************************************************************************)
LEMMA OnceFrame ==
    ASSUME OnceInv, TypeInv', NEW l \in Listeners,
           UNCHANGED <<woScheduled, submits, mpc, mwo, executed, repeated>>,
           InSubmission(l)' => InSubmission(l) /\ lreq'[l] = lreq[l],
           \A k \in Listeners \ {l} : lpc'[k] = lpc[k] /\ lreq'[k] = lreq[k]
    PROVE  OnceInv'
<1>1. ASSUME NEW k \in Listeners PROVE SubmissionAlone(k)'
    BY DEF OnceInv, SubmissionAlone, InSubmission, AboutToRun, Ran
<1>2. ASSUME NEW w \in Workers, NEW n \in 1..Len(woScheduled'[w]) PROVE QueuedOnce(w, n)'
    BY DEF OnceInv, QueuedOnce, AboutToRun, Ran
<1>3. ASSUME NEW m \in Managers PROVE HeldOnce(m)'
    BY DEF OnceInv, HeldOnce, AboutToRun, Ran
<1> QED BY <1>1, <1>2, <1>3 DEF OnceInv, AtMostOnceExecution

(***************************************************************************)
(* A manager step that neither pops an order nor runs one.                 *)
(***************************************************************************)
LEMMA OnceManagerFrame ==
    ASSUME OnceInv, TypeInv', NEW m \in Managers,
           UNCHANGED <<woScheduled, submits, lpc, lreq, executed, repeated>>,
           AboutToRun(m)' => AboutToRun(m) /\ mwo'[m] = mwo[m],
           \A k \in Managers \ {m} : mpc'[k] = mpc[k] /\ mwo'[k] = mwo[k]
    PROVE  OnceInv'
<1>1. ASSUME NEW k \in Listeners PROVE SubmissionAlone(k)'
    BY DEF OnceInv, SubmissionAlone, InSubmission, AboutToRun, Ran
<1>2. ASSUME NEW w \in Workers, NEW n \in 1..Len(woScheduled'[w]) PROVE QueuedOnce(w, n)'
    BY DEF OnceInv, QueuedOnce, AboutToRun, Ran
<1>3. ASSUME NEW k \in Managers PROVE HeldOnce(k)'
    BY DEF OnceInv, HeldOnce, AboutToRun, Ran
<1> QED BY <1>1, <1>2, <1>3 DEF OnceInv, AtMostOnceExecution

(***************************************************************************)
(* A listener keeps it: with ids used once, the one that starts a          *)
(* submission finds no trace of the id, and the write to the queue ends it.*)
(***************************************************************************)
LEMMA OnceListener ==
    ASSUME MaxSubmits <= 1, OnceInv, TypeInv', NEW l \in Listeners,
           ListenerStep(l) \/ ClientRequest(l) \/ ListenerRestart(l),
           UNCHANGED managerVars
    PROVE  OnceInv'
<1> USE DEF GoTo, storeVars, queueVars, clientVars, managerVars, managerLocals, runVars
<1>0. /\ StoreTypeOK /\ ListenerTypeOK /\ ListenerFormed(l) /\ OnceInv
      /\ StoreTypeOK' /\ ListenerTypeOK'
    BY DEF OnceInv, TypeInv, TypeOK
<1>1. CASE \E i \in WoIds, w \in Workers : SubmitReceive(l, i, w)
    <2>1. PICK i \in WoIds, w \in Workers : SubmitReceive(l, i, w)
        BY <1>1
    <2>2. submits[i] = 0 /\ submits'[i] = 1 /\ \A j \in WoIds \ {i} : submits'[j] = submits[j]
        BY <1>0, <2>1, ListenerAssumption DEF SubmitReceive, ListenerTypeOK
    <2>3. /\ lreq'[l].id = i
          /\ \A k \in Listeners \ {l} : lpc'[k] = lpc[k] /\ lreq'[k] = lreq[k]
          /\ UNCHANGED <<woScheduled, mpc, mwo, executed, repeated>>
        BY <1>0, <2>1 DEF SubmitReceive, ListenerTypeOK, Answer
    <2>4. ASSUME NEW w1 \in Workers, NEW n \in 1..Len(woScheduled[w1])
          PROVE  woScheduled[w1][n] # i /\ woScheduled[w1][n] \in WoIds
        <3>1. woScheduled[w1] \in Seq(WoIds) /\ QueuedOnce(w1, n)
            BY <1>0 DEF OnceInv, StoreTypeOK
        <3> QED BY <2>2, <3>1 DEF QueuedOnce
    <2>5. ASSUME NEW m \in Managers, AboutToRun(m) PROVE mwo[m] # i /\ mwo[m] \in WoIds
        BY <2>2, <2>5 DEF OnceInv, HeldOnce, TypeInv, ManagerFormed, AboutToRun
    <2>6. ASSUME NEW s \in executed PROVE s[1] # i /\ s[1] \in WoIds
        BY <2>2 DEF OnceInv, TypeInv, TypeOK, ManagerTypeOK
    <2>7. ASSUME NEW k \in Listeners, k # l, InSubmission(k)
          PROVE  lreq[k].id # i /\ lreq[k].id \in WoIds
        BY <2>2, <2>7 DEF OnceInv, SubmissionAlone, TypeInv, ListenerFormed, InSubmission
    <2>8. ASSUME NEW k \in Listeners PROVE SubmissionAlone(k)'
        <3>1. CASE k = l
            BY <2>2, <2>3, <2>4, <2>5, <2>6, <2>7, <3>1
            DEF SubmissionAlone, InSubmission, AboutToRun, Ran
        <3>2. CASE k # l
            BY <2>2, <2>3, <2>7, <3>2 DEF OnceInv, SubmissionAlone, InSubmission, AboutToRun, Ran
        <3> QED BY <3>1, <3>2
    <2>9. ASSUME NEW v \in Workers, NEW n \in 1..Len(woScheduled'[v]) PROVE QueuedOnce(v, n)'
        BY <2>2, <2>3, <2>4 DEF OnceInv, QueuedOnce, AboutToRun, Ran
    <2>10. ASSUME NEW m \in Managers PROVE HeldOnce(m)'
        BY <2>2, <2>3, <2>5 DEF OnceInv, HeldOnce, AboutToRun, Ran
    <2> QED BY <2>2, <2>3, <2>6, <2>8, <2>9, <2>10 DEF OnceInv, AtMostOnceExecution
<1>2. CASE SubmitSchedule(l)
    <2> DEFINE i == lreq[l].id
               w == lreq[l].worker
    <2>1. /\ i \in WoIds /\ w \in Workers /\ InSubmission(l) /\ ~InSubmission(l)'
          /\ lreq' = lreq /\ \A k \in Listeners \ {l} : lpc'[k] = lpc[k]
          /\ UNCHANGED <<submits, mpc, mwo, executed, repeated>>
        BY <1>0, <1>2 DEF SubmitSchedule, ListenerFormed, ListenerTypeOK, InSubmission, Answer
    <2>2. /\ \A v \in Workers \ {w} : woScheduled'[v] = woScheduled[v]
          /\ Len(woScheduled'[w]) = Len(woScheduled[w]) + 1
          /\ woScheduled'[w][Len(woScheduled[w]) + 1] = i
          /\ \A n \in 1..Len(woScheduled[w]) : woScheduled'[w][n] = woScheduled[w][n]
          /\ Len(woScheduled[w]) \in Nat
        BY <1>0, <1>2, <2>1 DEF SubmitSchedule, CsvAppend, StoreTypeOK
    <2> HIDE DEF i, w
    <2>3. /\ submits[i] >= 1
          /\ \A v \in Workers : \A n \in 1..Len(woScheduled[v]) : woScheduled[v][n] # i
          /\ \A m \in Managers : AboutToRun(m) => mwo[m] # i
          /\ \A k \in Listeners \ {l} : InSubmission(k) => lreq[k].id # i
          /\ ~Ran(i)
        BY <2>1 DEF OnceInv, SubmissionAlone, i
    <2>4. ASSUME NEW k \in Listeners PROVE SubmissionAlone(k)'
        <3>1. CASE k = l
            BY <2>1, <3>1 DEF SubmissionAlone
        <3>2. CASE k # l
            <4>1. InSubmission(k)' = InSubmission(k) /\ \A j \in Listeners : InSubmission(j)' => InSubmission(j)
                BY <2>1, <3>2 DEF InSubmission
            <4>2. SubmissionAlone(k)
                BY DEF OnceInv
            <4>3. ASSUME InSubmission(k), NEW v \in Workers, NEW n \in 1..Len(woScheduled'[v])
                  PROVE woScheduled'[v][n] # lreq[k].id
                BY <2>1, <2>2, <2>3, <3>2, <4>2, <4>3 DEF SubmissionAlone
            <4> QED BY <2>1, <4>1, <4>2, <4>3 DEF SubmissionAlone, AboutToRun, Ran
        <3> QED BY <3>1, <3>2
    <2>5. ASSUME NEW v \in Workers, NEW n \in 1..Len(woScheduled'[v]) PROVE QueuedOnce(v, n)'
        <3>1. CASE v = w /\ n = Len(woScheduled[w]) + 1
            BY <2>1, <2>2, <2>3, <3>1 DEF QueuedOnce, AboutToRun, Ran
        <3>2. CASE ~(v = w /\ n = Len(woScheduled[w]) + 1)
            <4>1. n \in 1..Len(woScheduled[v]) /\ woScheduled'[v][n] = woScheduled[v][n]
                BY <2>1, <2>2, <3>2
            <4>2. QueuedOnce(v, n)
                BY <4>1 DEF OnceInv
            <4>3. ASSUME NEW u \in Workers, NEW k \in 1..Len(woScheduled'[u]),
                         woScheduled'[u][k] = woScheduled'[v][n]
                  PROVE  u = v /\ k = n
                <5>1. CASE u = w /\ k = Len(woScheduled[w]) + 1
                    BY <2>2, <2>3, <4>1, <4>3, <5>1
                <5>2. CASE ~(u = w /\ k = Len(woScheduled[w]) + 1)
                    <6>1. k \in 1..Len(woScheduled[u]) /\ woScheduled'[u][k] = woScheduled[u][k]
                        BY <2>1, <2>2, <5>2
                    <6> QED BY <4>1, <4>2, <4>3, <6>1 DEF QueuedOnce
                <5> QED BY <5>1, <5>2
            <4> QED BY <2>1, <4>1, <4>2, <4>3 DEF QueuedOnce, AboutToRun, Ran
        <3> QED BY <3>1, <3>2
    <2>6. ASSUME NEW m \in Managers PROVE HeldOnce(m)'
        BY <2>1 DEF OnceInv, HeldOnce, AboutToRun, Ran
    <2> QED BY <2>1, <2>4, <2>5, <2>6 DEF OnceInv, AtMostOnceExecution
<1>3. CASE \/ ListenerStep(l) /\ ~SubmitSchedule(l)
           \/ \E i \in WoIds : GetResult(l, i) \/ ReceiptCreate(l, i)
           \/ ListenerRestart(l)
    <2>1. /\ UNCHANGED <<woScheduled, submits>>
          /\ \A k \in Listeners \ {l} : lpc'[k] = lpc[k] /\ lreq'[k] = lreq[k]
          /\ InSubmission(l)' => InSubmission(l) /\ lreq'[l] = lreq[l]
        <3> USE DEF ListenerTypeOK, InSubmission, EndScan, Answer, orderVars
        <3>1. CASE BootLookup(l) \/ BootLookupPool(l) \/ BootRead(l) \/ BootKeep(l)
                   \/ BootDiscard(l) \/ BootDone(l)
            BY <1>0, <3>1 DEF BootLookup, BootLookupPool, BootRead, BootKeep, BootDiscard, BootDone
        <3>2. CASE BootReap(l) \/ PurgeRemove(l)
            BY <1>0, <3>2 DEF BootReap, PurgeRemove
        <3>8. CASE PurgeFinish(l)
            BY <1>0, <3>8 DEF PurgeFinish
        <3>3. CASE PurgeLookupPool(l) \/ PurgeRead(l) \/ PurgeUnlist(l)
            BY <1>0, <3>3 DEF PurgeLookupPool, PurgeRead, PurgeUnlist
        <3>9. CASE PurgeSelect(l)
            <4>1. /\ lpc[l] = "purge_select" /\ UNCHANGED <<woScheduled, submits, lreq>>
                  /\ \/ lpc' = [lpc EXCEPT ![l] = "reply"]
                     \/ lpc' = [lpc EXCEPT ![l] = "purge_unlist"]
                BY <3>9 DEF PurgeSelect
            <4> QED BY <1>0, <4>1
        <3>4. CASE SubmitCheck(l) \/ SubmitTimestamp(l) \/ SubmitRequest(l)
            BY <1>0, <3>4 DEF SubmitCheck, SubmitTimestamp, SubmitRequest
        <3>5. CASE GetResultTimestamp(l) \/ ReceiptStore(l) \/ Reply(l)
            BY <1>0, <3>5 DEF GetResultTimestamp, ReceiptStore, Reply
        <3>6. ASSUME NEW i \in WoIds, GetResult(l, i) \/ ReceiptCreate(l, i)
              PROVE  /\ UNCHANGED <<woScheduled, submits>>
                     /\ \A k \in Listeners \ {l} : lpc'[k] = lpc[k] /\ lreq'[k] = lreq[k]
                     /\ ~InSubmission(l)'
            BY <1>0, <3>6 DEF GetResult, ReceiptCreate
        <3>7. CASE ListenerRestart(l)
            BY <1>0, <3>7 DEF ListenerRestart
        <3> QED BY <1>3, <3>1, <3>2, <3>3, <3>4, <3>5, <3>6, <3>7,
                <3>8, <3>9 DEF ListenerStep
    <2> QED BY <2>1, OnceFrame
<1> QED BY <1>1, <1>2, <1>3 DEF ClientRequest

(***************************************************************************)
(* A manager keeps it: a pop takes the only entry of an id out of the      *)
(* queue, and once the order has run the manager never runs it again.      *)
(***************************************************************************)
LEMMA OnceManager ==
    ASSUME OnceInv, TypeInv', NEW m \in Managers,
           SingletonStep(m) \/ ManagerCrash(m), UNCHANGED listenerVars
    PROVE  OnceInv'
<1> USE DEF MGoTo, storeVars, queueVars, managerLocals, runVars, listenerVars, clientVars
<1>0. /\ StoreTypeOK /\ ManagerTypeOK /\ ManagerFormed(m) /\ OnceInv
      /\ UNCHANGED <<lpc, lreq, submits>>
    BY DEF OnceInv, TypeInv, TypeOK
<1>1. CASE Pop(m)
    <2> DEFINE w == WorkerOf[m]
    <2>1. /\ w \in Workers /\ woScheduled[w] # <<>> /\ ~AboutToRun(m)
          /\ mwo'[m] = woScheduled[w][1]
          /\ \A k \in Managers \ {m} : mpc'[k] = mpc[k] /\ mwo'[k] = mwo[k]
          /\ UNCHANGED <<executed, repeated>>
        <3>1. w \in Workers /\ woScheduled[w] \in Seq(WoIds) /\ woScheduled[w] # <<>>
            BY <1>0, <1>1, StoreAssumption DEF Pop, StoreTypeOK
        <3>2. Head(woScheduled[w]) = woScheduled[w][1]
            BY <3>1
        <3> QED BY <1>0, <1>1, <3>1, <3>2 DEF Pop, ManagerTypeOK, AboutToRun
    <2>2. /\ \A v \in Workers \ {w} : woScheduled'[v] = woScheduled[v]
          /\ Len(woScheduled[w]) \in Nat \ {0}
          /\ Len(woScheduled'[w]) = Len(woScheduled[w]) - 1
          /\ \A n \in 1..Len(woScheduled'[w]) : woScheduled'[w][n] = woScheduled[w][n + 1]
        <3>1. woScheduled[w] \in Seq(WoIds) /\ woScheduled[w] # <<>>
            BY <1>0, <2>1 DEF StoreTypeOK
        <3>2. woScheduled' = [woScheduled EXCEPT ![w] = Tail(woScheduled[w])]
            BY <1>0, <1>1, <2>1 DEF Pop, CsvPop, StoreTypeOK
        <3>3. woScheduled'[w] = Tail(woScheduled[w]) /\ \A v \in Workers \ {w} : woScheduled'[v] = woScheduled[v]
            BY <1>0, <2>1, <3>2 DEF StoreTypeOK
        <3> HIDE DEF w
        <3> QED BY <3>1, <3>3
    <2> HIDE DEF w
    <2>3. ASSUME NEW v \in Workers, NEW n \in 1..Len(woScheduled'[v])
          PROVE \E k \in 1..Len(woScheduled[v]) :
                    /\ woScheduled'[v][n] = woScheduled[v][k]
                    /\ v = w => k = n + 1
                    /\ v # w => k = n
        <3>1. CASE v = w
            <4>1. n + 1 \in 1..Len(woScheduled[w]) /\ woScheduled'[w][n] = woScheduled[w][n + 1]
                BY <2>2, <3>1
            <4> QED BY <3>1, <4>1
        <3>2. CASE v # w
            BY <2>2, <3>2
        <3> QED BY <3>1, <3>2
    <2>4. QueuedOnce(w, 1) /\ 1 \in 1..Len(woScheduled[w])
        BY <2>1, <2>2 DEF OnceInv
    <2>5. ASSUME NEW l \in Listeners PROVE SubmissionAlone(l)'
        <3>1. SubmissionAlone(l)
            BY DEF OnceInv
        <3>2. ASSUME InSubmission(l) PROVE
                 /\ \A v \in Workers : \A n \in 1..Len(woScheduled'[v]) : woScheduled'[v][n] # lreq[l].id
                 /\ mwo'[m] # lreq[l].id
            BY <2>1, <2>3, <2>4, <3>1, <3>2 DEF SubmissionAlone
        <3> QED BY <1>0, <2>1, <3>1, <3>2 DEF SubmissionAlone, InSubmission, AboutToRun, Ran
    <2>6. ASSUME NEW v \in Workers, NEW n \in 1..Len(woScheduled'[v]) PROVE QueuedOnce(v, n)'
        <3>1. PICK k \in 1..Len(woScheduled[v]) :
                    /\ woScheduled'[v][n] = woScheduled[v][k]
                    /\ v = w => k = n + 1
                    /\ v # w => k = n
            BY <2>3
        <3>2. QueuedOnce(v, k)
            BY DEF OnceInv
        <3>3. mwo'[m] # woScheduled'[v][n]
            BY <2>1, <2>4, <3>1, <3>2 DEF QueuedOnce
        <3>4. ASSUME NEW u \in Workers, NEW j \in 1..Len(woScheduled'[u]),
                     woScheduled'[u][j] = woScheduled'[v][n]
              PROVE  u = v /\ j = n
            BY <2>3, <3>1, <3>2, <3>4 DEF QueuedOnce
        <3>5. \A p \in Managers : AboutToRun(p)' => mwo'[p] # woScheduled'[v][n]
            BY <2>1, <3>1, <3>2, <3>3 DEF QueuedOnce, AboutToRun
        <3>6. (submits[woScheduled[v][n]] >= 1 /\ ~Ran(woScheduled[v][n]))'
            BY <1>0, <2>1, <3>1, <3>2 DEF QueuedOnce, Ran
        <3> QED BY <3>4, <3>5, <3>6 DEF QueuedOnce
    <2>7. ASSUME NEW k \in Managers PROVE HeldOnce(k)'
        <3>1. CASE k = m
            BY <1>0, <2>1, <2>4, <3>1 DEF QueuedOnce, HeldOnce, AboutToRun, Ran
        <3>2. CASE k # m
            <4>1. HeldOnce(k)
                BY DEF OnceInv
            <4> QED BY <1>0, <2>1, <2>4, <3>2, <4>1 DEF QueuedOnce, HeldOnce, AboutToRun, Ran
        <3> QED BY <3>1, <3>2
    <2> QED BY <1>0, <2>1, <2>5, <2>6, <2>7 DEF OnceInv, AtMostOnceExecution
<1>2. CASE Execute(m)
    <2>1. /\ AboutToRun(m) /\ ~AboutToRun(m)' /\ mwo' = mwo
          /\ \A k \in Managers \ {m} : mpc'[k] = mpc[k]
          /\ woScheduled' = woScheduled
          /\ executed' = executed \cup {<<mwo[m], mreq[m]>>}
        BY <1>0, <1>2 DEF Execute, ManagerTypeOK, AboutToRun
    <2>2. HeldOnce(m) /\ ~Ran(mwo[m]) /\ submits[mwo[m]] >= 1
        BY <2>1 DEF OnceInv, HeldOnce
    <2>3. repeated' = repeated
        BY <1>2, <2>2 DEF Execute, Ran
    <2>4. \A i : Ran(i)' => Ran(i) \/ i = mwo[m]
        BY <2>1 DEF Ran
    <2>5. ASSUME NEW l \in Listeners PROVE SubmissionAlone(l)'
        <3>1. SubmissionAlone(l)
            BY DEF OnceInv
        <3> QED BY <1>0, <2>1, <2>4, <3>1 DEF SubmissionAlone, InSubmission, AboutToRun
    <2>6. ASSUME NEW v \in Workers, NEW n \in 1..Len(woScheduled'[v]) PROVE QueuedOnce(v, n)'
        <3>1. QueuedOnce(v, n)
            BY <2>1 DEF OnceInv
        <3> QED BY <1>0, <2>1, <2>4, <3>1 DEF QueuedOnce, AboutToRun
    <2>7. ASSUME NEW k \in Managers PROVE HeldOnce(k)'
        <3>1. HeldOnce(k)
            BY DEF OnceInv
        <3> QED BY <1>0, <2>1, <2>4, <3>1 DEF HeldOnce, AboutToRun
    <2>8. \A s \in executed' : submits'[s[1]] >= 1
        BY <1>0, <2>1, <2>2 DEF OnceInv
    <2> QED BY <2>3, <2>5, <2>6, <2>7, <2>8 DEF OnceInv, AtMostOnceExecution
<1>3. CASE ~Pop(m) /\ ~Execute(m)
    <2>1. /\ UNCHANGED <<woScheduled, executed, repeated>>
          /\ \A k \in Managers \ {m} : mpc'[k] = mpc[k] /\ mwo'[k] = mwo[k]
          /\ AboutToRun(m)' => AboutToRun(m) /\ mwo'[m] = mwo[m]
        <3> USE DEF ManagerTypeOK, AboutToRun, Exit, orderVars
        <3>1. CASE BootAddWorker(m) \/ JoinPool(m)
            BY <1>0, <3>1 DEF BootAddWorker, JoinPool
        <3>2. CASE CleanupRead(m, "poll") \/ CleanupUnlist(m, "poll") \/ CleanupRemove(m)
            BY <1>0, <3>2 DEF CleanupRead, CleanupUnlist, CleanupRemove
        <3>3. CASE ReadRequest(m) \/ MarkProcessing(m) \/ EnclaveRaises(m) \/ UpdateReceipt(m)
            BY <1>0, <3>3 DEF ReadRequest, MarkProcessing, EnclaveRaises, UpdateReceipt
        <3>4. CASE PersistResponse(m) \/ AppendProcessed(m) \/ ClearProcessing(m)
            BY <1>0, <3>4 DEF PersistResponse, AppendProcessed, ClearProcessing
        <3>5. CASE ManagerRestart(m) \/ ManagerCrash(m)
            BY <1>0, <3>5 DEF ManagerRestart, ManagerCrash
        <3> QED BY <1>3, <3>1, <3>2, <3>3, <3>4, <3>5 DEF SingletonStep, ManagerStep
    <2> QED BY <1>0, <2>1, OnceManagerFrame
<1> QED BY <1>1, <1>2, <1>3

(***************************************************************************)
(* At the start nothing is submitted, queued, held or run.                 *)
(***************************************************************************)
LEMMA InitOnce == Init => OnceInv
<1> SUFFICES ASSUME Init PROVE OnceInv
    OBVIOUS
<1>1. TypeInv
    BY InitTypes
<1>2. /\ \A l \in Listeners : ~InSubmission(l)
      /\ \A w \in Workers : Len(woScheduled[w]) = 0
      /\ \A m \in Managers : ~AboutToRun(m)
      /\ executed = {} /\ repeated = {}
    BY DEF Init, ListenerInit, StoreInit, ManagerInit, InSubmission, AboutToRun
<1> QED BY <1>1, <1>2 DEF OnceInv, SubmissionAlone, QueuedOnce, HeldOnce, AtMostOnceExecution

(***************************************************************************)
(* Every step keeps an id in one place, if clients use it once.            *)
(***************************************************************************)
LEMMA NextOnce ==
    ASSUME MaxSubmits <= 1
    PROVE  OnceInv /\ [Next]_vars => OnceInv'
<1> SUFFICES ASSUME OnceInv, [Next]_vars PROVE OnceInv'
    OBVIOUS
<1>1. TypeInv'
    BY NextTypes DEF OnceInv
<1>2. CASE UNCHANGED vars
    BY <1>1, <1>2 DEF OnceInv, SubmissionAlone, QueuedOnce, HeldOnce, AtMostOnceExecution,
        InSubmission, AboutToRun, Ran, vars, storeVars, queueVars, listenerVars, clientVars,
        managerVars, managerLocals, runVars
<1> QED BY <1>1, <1>2, OnceListener, OnceManager DEF Next

(***************************************************************************)
(* With ids that clients use once, no order runs twice in an enclave,      *)
(* whatever the listeners behind the load balancer and the managers do and *)
(* wherever they crash: the queue never holds an id twice, and popping it  *)
(* is the only way to get it.                                              *)
(***************************************************************************)
THEOREM FreshIdsRunOnce ==
    ASSUME MaxSubmits <= 1
    PROVE  Spec => []AtMostOnceExecution
<1>1. OnceInv => AtMostOnceExecution
    BY DEF OnceInv
<1> QED BY <1>1, InitOnce, NextOnce, PTL DEF Spec

-----------------------------------------------------------------------------
(* Where an order is                                                       *)

\* The record of the order is being created.
Creating(l) == lpc[l] \in {"set_timestamp", "set_request", "schedule"}

\* A manager holds the order and has not listed it as processed yet.
Handling(m) == mpc[m] \in {"read", "mark", "execute", "receipt", "persist", "append"}

\* The purge has looked processed orders up.
Scanning(l) == lpc[l] \in {"purge_read", "purge_select", "purge_unlist", "purge_remove"}

IsProcessed(i) == \E w \in Workers : i \in ToSet(woProcessed[w])

\* Ids whose records a purge or a clean-up may be removing, or remove next.
Retired(i) ==
    \/ IsProcessed(i)
    \/ \E m \in Managers : i \in ToSet(mids[m])
    \/ \E l \in Listeners : Scanning(l) /\ i \in FoundIds(l)

\* An order being created is nowhere else, and its records are those written so far.
CreatedAlone(l) ==
    Creating(l) =>
        /\ ~IsScheduled(lreq[l].id)
        /\ \A m \in Managers : Handling(m) => mwo[m] # lreq[l].id
        /\ ~Retired(lreq[l].id)
        /\ woResponses[lreq[l].id] = 0
        /\ woRequests[lreq[l].id] = IF lpc[l] = "schedule" THEN lreq[l].num ELSE 0
        /\ lpc[l] # "set_timestamp" => lreq[l].id \in woTimestamps

\* A queued order is neither held nor retired, and has its records.
QueuedAlone(i) ==
    IsScheduled(i) =>
        /\ i \in woTimestamps /\ woRequests[i] # 0 /\ woResponses[i] = 0
        /\ \A m \in Managers : Handling(m) => mwo[m] # i
        /\ ~Retired(i)

\* A held order is held by one manager, and what that manager has read of it
\* is what the store has.
HandledAlone(m) ==
    Handling(m) =>
        /\ mwo[m] \in woTimestamps /\ woRequests[mwo[m]] # 0
        /\ \A k \in Managers : k # m /\ Handling(k) => mwo[k] # mwo[m]
        /\ ~Retired(mwo[m])
        /\ mpc[m] # "read" => mreq[m] = woRequests[mwo[m]]
        /\ woResponses[mwo[m]] = IF mpc[m] = "append" THEN mreq[m] ELSE 0

\* No id is in a list twice or in the lists of two workers.
Separate(table) ==
    \A w \in Workers :
        /\ IsInjective(table[w])
        /\ \A v \in Workers : v # w => ToSet(table[v]) \cap ToSet(table[w]) = {}

\* Records have a timestamp, and a response answers the request that is there.
RecordsMatch(i) ==
    /\ woRequests[i] # 0 \/ woResponses[i] # 0 => i \in woTimestamps
    /\ woResponses[i] # 0 => woRequests[i] \in {0, woResponses[i]}

\* The locals of a handler that was not interrupted: the first boot finds an
\* empty store, a purge reads processed orders only and removes what it found.
HandlerLocals(l) ==
    /\ lpc[l] = "boot" \/ Booting(l) => woTimestamps = {} /\ lids[l] = {}
    /\ lpc[l] # "boot_reap"
    /\ InSubmission(l) => lreq[l].num # 0
    /\ Scanning(l) \/ Booting(l) \/ lfound[l] = {}
    /\ lpc[l] = "purge_read" =>
           \A n \in 1..Len(lscan[l]) : lscan[l][n][1] = "wo-worker-processed"
    /\ lpc[l] \in {"purge_unlist", "purge_remove"} => lvictim[l] \in FoundIds(l)
    /\ lpc[l] = "purge_remove" =>
           /\ lstep[l] >= 2 => woRequests[lvictim[l]] = 0
           /\ lstep[l] >= 3 => woResponses[lvictim[l]] = 0

\* What the clean-up has removed so far.
CleanupLocals(m) ==
    mpc[m] = "clean" =>
        /\ mstep[m] >= 2 => woResponses[Head(mids[m])] = 0
        /\ mstep[m] >= 3 => woRequests[Head(mids[m])] = 0

PlacesInv ==
    /\ \A l \in Listeners : CreatedAlone(l)
    /\ \A i \in WoIds : QueuedAlone(i)
    /\ \A m \in Managers : HandledAlone(m)
    /\ Separate(woScheduled)
    /\ \A i \in WoIds : RecordsMatch(i)
    /\ \A l \in Listeners : HandlerLocals(l)
    /\ \A m \in Managers : CleanupLocals(m)

\* A submission that passes the existence check is of an id that no purge and
\* no clean-up is about to remove the records of.
ReuseSafe ==
    \A l \in Listeners :
        lpc[l] = "check" /\ lreq[l].id \notin woTimestamps => ~Retired(lreq[l].id)

(***************************************************************************)
(* Steps that take no order to another place, and touch the records of     *)
(* retired orders only.                                                    *)
(***************************************************************************)
LEMMA PlacesKept ==
    ASSUME TypeInv, PlacesInv, NEW l, Listeners = {l},
           woScheduled' = woScheduled,
           \A i \in WoIds : Retired(i)' => Retired(i),
           Creating(l)' => Creating(l) /\ lpc'[l] = lpc[l] /\ lreq'[l] = lreq[l],
           \A m \in Managers : Handling(m)' =>
               /\ Handling(m) /\ mwo'[m] = mwo[m] /\ mreq'[m] = mreq[m]
               /\ mpc'[m] = "append" <=> mpc[m] = "append"
               /\ mpc'[m] = "read" <=> mpc[m] = "read",
           \A i \in WoIds : ~Retired(i) =>
               /\ i \in woTimestamps' <=> i \in woTimestamps
               /\ woRequests'[i] = woRequests[i]
               /\ woResponses'[i] = woResponses[i]
    PROVE  /\ \A k \in Listeners : CreatedAlone(k)'
           /\ \A i \in WoIds : QueuedAlone(i)'
           /\ \A m \in Managers : HandledAlone(m)'
           /\ Separate(woScheduled)'
<1>1. CreatedAlone(l)'
    <2> SUFFICES ASSUME Creating(l)' PROVE CreatedAlone(l)'
        BY DEF CreatedAlone
    <2>1. Creating(l) /\ CreatedAlone(l) /\ lreq[l].id \in WoIds
        BY DEF PlacesInv, TypeInv, ListenerFormed, Creating
    <2> QED BY <2>1 DEF CreatedAlone, IsScheduled
<1>2. ASSUME NEW i \in WoIds PROVE QueuedAlone(i)'
    <2>1. QueuedAlone(i) /\ IsScheduled(i)' = IsScheduled(i)
        BY DEF PlacesInv, IsScheduled
    <2> QED BY <2>1 DEF QueuedAlone
<1>3. ASSUME NEW m \in Managers PROVE HandledAlone(m)'
    <2> SUFFICES ASSUME Handling(m)' PROVE HandledAlone(m)'
        BY DEF HandledAlone
    <2>1. Handling(m) /\ HandledAlone(m) /\ mwo[m] \in WoIds
        BY DEF PlacesInv, TypeInv, ManagerFormed, Handling
    <2> QED BY <2>1 DEF HandledAlone
<1> QED BY <1>1, <1>2, <1>3 DEF PlacesInv, Separate

(***************************************************************************)
(* Removing a record of a retired order leaves records that match, if the  *)
(* timestamp goes last.                                                    *)
(***************************************************************************)
LEMMA RemovalMatches ==
    ASSUME TypeInv, PlacesInv, NEW i \in WoIds, NEW table \in OrderTables,
           RemoveRecord(table, i),
           table = "wo-timestamps" => woRequests[i] = 0 /\ woResponses[i] = 0
    PROVE  /\ \A j \in WoIds : RecordsMatch(j)'
           /\ \A j \in WoIds \ {i} : /\ j \in woTimestamps' <=> j \in woTimestamps
                                     /\ woRequests'[j] = woRequests[j]
                                     /\ woResponses'[j] = woResponses[j]
           /\ woRequests'[i] \in {0, woRequests[i]} /\ woResponses'[i] \in {0, woResponses[i]}
           /\ table = "wo-requests" => woRequests'[i] = 0
           /\ table = "wo-responses" => woResponses'[i] = 0
<1>1. woRequests \in [WoIds -> Nat] /\ woResponses \in [WoIds -> Nat]
    BY DEF TypeInv, TypeOK, StoreTypeOK
<1>2. \A j \in WoIds : RecordsMatch(j)
    BY DEF PlacesInv
<1>3. /\ \A j \in WoIds \ {i} : /\ j \in woTimestamps' <=> j \in woTimestamps
                                /\ woRequests'[j] = woRequests[j]
                                /\ woResponses'[j] = woResponses[j]
      /\ woRequests'[i] \in {0, woRequests[i]} /\ woResponses'[i] \in {0, woResponses[i]}
      /\ table = "wo-requests" => woRequests'[i] = 0
      /\ table = "wo-responses" => woResponses'[i] = 0
      /\ table # "wo-timestamps" => woTimestamps' = woTimestamps
    BY <1>1 DEF RemoveRecord
<1>4. ASSUME NEW j \in WoIds PROVE RecordsMatch(j)'
    BY <1>2, <1>3 DEF RecordsMatch
<1> QED BY <1>3, <1>4

(***************************************************************************)
(* A listener step that leaves the order tables and the lists alone.       *)
(***************************************************************************)
LEMMA PlacesQuiet ==
    ASSUME TypeInv, PlacesInv, NEW l, Listeners = {l},
           UNCHANGED <<woTimestamps, woRequests, woResponses, woScheduled, woProcessed>>,
           UNCHANGED <<mpc, mwo, mreq, mids, mstep>>,
           ~Creating(l)', HandlerLocals(l)',
           Scanning(l)' => \A i \in FoundIds(l)' : Retired(i)
    PROVE  PlacesInv'
<1>1. \A i \in WoIds : Retired(i)' => Retired(i)
    BY DEF Retired, IsProcessed
<1>2. \A m \in Managers : Handling(m)' = Handling(m) /\ CleanupLocals(m)'
    BY DEF Handling, PlacesInv, CleanupLocals
<1>3. \A i \in WoIds : RecordsMatch(i)'
    BY DEF PlacesInv, RecordsMatch
<1>4. /\ \A k \in Listeners : CreatedAlone(k)'
      /\ \A i \in WoIds : QueuedAlone(i)'
      /\ \A m \in Managers : HandledAlone(m)'
      /\ Separate(woScheduled)'
    BY <1>1, <1>2, PlacesKept
<1> QED BY <1>2, <1>3, <1>4 DEF PlacesInv

(***************************************************************************)
(* The boot flow of a listener that was never restarted.                   *)
(***************************************************************************)
LEMMA PlacesBoot ==
    ASSUME TypeInv, PlacesInv, NEW l, Listeners = {l},
           \/ BootLookup(l) \/ BootLookupPool(l) \/ BootRead(l) \/ BootKeep(l)
           \/ BootDiscard(l) \/ BootReap(l) \/ BootDone(l),
           UNCHANGED managerVars
    PROVE  PlacesInv'
<1> USE DEF GoTo, storeVars, queueVars, orderVars, managerVars, managerLocals
<1>0. /\ l \in Listeners /\ StoreTypeOK /\ ListenerTypeOK /\ ListenerFormed(l) /\ HandlerLocals(l)
    BY DEF PlacesInv, TypeInv, TypeOK
<1>1. lpc[l] # "boot_reap" /\ (lpc[l] = "boot" \/ Booting(l) => woTimestamps = {} /\ lids[l] = {})
    BY <1>0 DEF HandlerLocals
<1>2. CASE BootLookup(l)
    <2>1. lpc'[l] = "boot_pool" /\ lids'[l] = {} /\ UNCHANGED <<woTimestamps, lfound>>
        BY <1>0, <1>1, <1>2 DEF BootLookup, ListenerTypeOK
    <2>2. HandlerLocals(l)' /\ ~Creating(l)' /\ ~Scanning(l)'
        BY <1>1, <1>2, <2>1 DEF HandlerLocals, Booting, InSubmission, Scanning, Creating, BootLookup
    <2> QED BY <1>2, <2>2, PlacesQuiet DEF BootLookup
<1>3. CASE BootLookupPool(l)
    <2>1. /\ lpc[l] = "boot_pool" /\ lpc'[l] \in {"boot_next", "boot_read"}
          /\ UNCHANGED <<woTimestamps, lids>>
        BY <1>0, <1>3 DEF BootLookupPool, ListenerTypeOK
    <2>2. HandlerLocals(l)' /\ ~Creating(l)' /\ ~Scanning(l)'
        BY <1>1, <2>1 DEF HandlerLocals, Booting, InSubmission, Scanning, Creating
    <2> QED BY <1>3, <2>2, PlacesQuiet DEF BootLookupPool
<1>4. CASE BootRead(l)
    <2>1. /\ lpc[l] = "boot_read" /\ lpc'[l] \in {"boot_next", "boot_read"}
          /\ UNCHANGED <<woTimestamps, lids>>
        BY <1>0, <1>4 DEF BootRead, ListenerTypeOK
    <2>2. HandlerLocals(l)' /\ ~Creating(l)' /\ ~Scanning(l)'
        BY <1>1, <2>1 DEF HandlerLocals, Booting, InSubmission, Scanning, Creating
    <2> QED BY <1>4, <2>2, PlacesQuiet DEF BootRead
<1>5. CASE BootDone(l)
    <2>1. /\ lpc'[l] = "idle" /\ lfound'[l] = {} /\ lids'[l] = {}
          /\ UNCHANGED woTimestamps
        BY <1>0, <1>5 DEF BootDone, ListenerTypeOK, EndScan
    <2>2. HandlerLocals(l)' /\ ~Creating(l)' /\ ~Scanning(l)'
        BY <2>1 DEF HandlerLocals, Booting, InSubmission, Scanning, Creating
    <2> QED BY <1>5, <2>2, PlacesQuiet DEF BootDone
<1>6. CASE BootKeep(l) \/ BootDiscard(l) \/ BootReap(l)
    BY <1>1, <1>6 DEF BootKeep, BootDiscard, BootReap, Booting
<1> QED BY <1>2, <1>3, <1>4, <1>5, <1>6

(***************************************************************************)
(* The steps of requests other than a submission, the arrival of one, and  *)
(* the answer.                                                             *)
(***************************************************************************)
LEMMA PlacesRequest ==
    ASSUME TypeInv, PlacesInv, NEW l, Listeners = {l},
           ClientRequest(l) \/ GetResultTimestamp(l) \/ ReceiptStore(l) \/ Reply(l),
           UNCHANGED managerVars
    PROVE  PlacesInv'
<1> USE DEF GoTo, storeVars, queueVars, orderVars, managerVars, managerLocals, scanVars, Answer
<1>0. /\ l \in Listeners /\ StoreTypeOK /\ ListenerTypeOK /\ ListenerFormed(l) /\ HandlerLocals(l)
    BY DEF PlacesInv, TypeInv, TypeOK
<1>1. /\ lpc[l] \in {"idle", "get_timestamp", "store_receipt", "reply"}
      /\ lpc'[l] \in {"purge_pool", "check", "idle", "get_timestamp", "store_receipt", "reply"}
      /\ lfound' = lfound
      /\ UNCHANGED <<woTimestamps, woRequests, woResponses, woScheduled, woProcessed>>
      /\ lpc'[l] \in {"purge_pool", "check"} => lreq'[l].num # 0
    <2>1. ASSUME NEW i \in WoIds, NEW w \in Workers, SubmitReceive(l, i, w)
          PROVE  /\ lpc[l] = "idle" /\ lpc'[l] \in {"purge_pool", "check", "reply"}
                 /\ UNCHANGED <<lfound, woTimestamps, woRequests, woResponses, woScheduled, woProcessed>>
                 /\ lreq'[l].num # 0
        BY <1>0, <2>1, ListenerAssumption DEF SubmitReceive, ListenerTypeOK
    <2>2. ASSUME NEW i \in WoIds, GetResult(l, i) \/ ReceiptCreate(l, i)
          PROVE  /\ lpc[l] = "idle" /\ lpc'[l] \in {"get_timestamp", "store_receipt", "reply"}
                 /\ UNCHANGED <<lfound, woTimestamps, woRequests, woResponses, woScheduled, woProcessed>>
        BY <1>0, <2>2 DEF GetResult, ReceiptCreate, ListenerTypeOK
    <2>3. ASSUME GetResultTimestamp(l) \/ ReceiptStore(l) \/ Reply(l)
          PROVE  /\ lpc[l] \in {"get_timestamp", "store_receipt", "reply"}
                 /\ lpc'[l] \in {"idle", "reply"}
                 /\ UNCHANGED <<lfound, woTimestamps, woRequests, woResponses, woScheduled, woProcessed>>
        BY <1>0, <2>3 DEF GetResultTimestamp, ReceiptStore, Reply, ListenerTypeOK
    <2> QED BY <2>1, <2>2, <2>3 DEF ClientRequest
<1>2. lfound[l] = {}
    BY <1>0, <1>1 DEF HandlerLocals, Scanning, Booting
<1>3. HandlerLocals(l)' /\ ~Creating(l)' /\ ~Scanning(l)'
    BY <1>1, <1>2 DEF HandlerLocals, Booting, InSubmission, Scanning, Creating
<1>4. UNCHANGED <<mpc, mwo, mreq, mids, mstep>>
    OBVIOUS
<1> QED BY <1>1, <1>3, <1>4, PlacesQuiet

(***************************************************************************)
(* The purge: it finds processed orders and removes one of those.          *)
(***************************************************************************)
LEMMA PlacesPurge ==
    ASSUME TypeInv, PlacesInv, NEW l, Listeners = {l},
           \/ PurgeLookupPool(l) \/ PurgeRead(l) \/ PurgeSelect(l) \/ PurgeUnlist(l)
           \/ PurgeRemove(l) \/ PurgeFinish(l),
           UNCHANGED managerVars
    PROVE  PlacesInv'
<1> USE DEF GoTo, storeVars, queueVars, orderVars, managerVars, managerLocals
<1>0. /\ l \in Listeners /\ StoreTypeOK /\ ListenerTypeOK /\ ListenerFormed(l) /\ HandlerLocals(l)
      /\ UNCHANGED <<mpc, mwo, mreq, mids, mstep>>
    BY DEF PlacesInv, TypeInv, TypeOK
<1>1. CASE PurgeLookupPool(l)
    <2>1. /\ lpc[l] = "purge_pool" /\ lpc'[l] \in {"purge_select", "purge_read"}
          /\ UNCHANGED <<lfound, lreq>>
          /\ UNCHANGED <<woTimestamps, woRequests, woResponses, woScheduled, woProcessed>>
        BY <1>0, <1>1 DEF PurgeLookupPool, ListenerTypeOK
    <2>2. \A n \in 1..Len(lscan'[l]) : lscan'[l][n][1] = "wo-worker-processed"
        <3>1. PICK ws \in SetToSeqs(CsvKeys(workerPool)) :
                  lscan' = [lscan EXCEPT ![l] = [k \in 1..Len(ws) |-> <<"wo-worker-processed", ws[k]>>]]
            BY <1>1 DEF PurgeLookupPool, LookupPool
        <3>2. lscan'[l] = [k \in 1..Len(ws) |-> <<"wo-worker-processed", ws[k]>>]
            BY <1>0, <3>1 DEF ListenerTypeOK
        <3>3. Len(ws) \in Nat
            <4>1. CsvKeys(workerPool) \subseteq Workers
                BY <1>0 DEF CsvKeys, StoreTypeOK
            <4>2. Cardinality(CsvKeys(workerPool)) \in Nat
                BY <4>1, ListenerAssumption, FS_Subset, FS_CardinalityType
            <4>3. DOMAIN ws = 1..Cardinality(CsvKeys(workerPool))
                BY DEF SetToSeqs
            <4>4. ws \in Seq(CsvKeys(workerPool))
                BY <4>2 DEF SetToSeqs
            <4> QED BY <4>4, LenProperties
        <3>4. Len(lscan'[l]) = Len(ws)
            BY <3>2, <3>3
        <3> QED BY <3>2, <3>4
    <2>3. lfound[l] = {} /\ lreq[l].num # 0
        BY <1>0, <2>1 DEF HandlerLocals, Scanning, Booting, InSubmission
    <2>4. HandlerLocals(l)' /\ ~Creating(l)' /\ FoundIds(l)' = {}
        BY <2>1, <2>2, <2>3 DEF HandlerLocals, Booting, InSubmission, Scanning, Creating, FoundIds
    <2> QED BY <1>0, <2>1, <2>4, PlacesQuiet
<1>2. CASE PurgeRead(l)
    <2> DEFINE item == Head(lscan[l])
    <2>1. /\ lpc[l] = "purge_read" /\ lpc'[l] \in {"purge_select", "purge_read"}
          /\ lfound'[l] = Override(lfound[l], ReadIds(item))
          /\ lscan'[l] = Tail(lscan[l])
          /\ UNCHANGED lreq
          /\ UNCHANGED <<woTimestamps, woRequests, woResponses, woScheduled, woProcessed>>
        BY <1>0, <1>2 DEF PurgeRead, ListenerTypeOK
    <2>2. lscan[l] \in Seq(ScanItems) /\ lscan[l] # <<>>
        BY <1>0, <2>1 DEF ListenerTypeOK, ListenerFormed
    <2>3. /\ item \in ScanItems /\ item = lscan[l][1]
          /\ Len(lscan[l]) \in Nat \ {0} /\ Len(lscan'[l]) = Len(lscan[l]) - 1
          /\ \A n \in 1..Len(lscan'[l]) : lscan'[l][n] = lscan[l][n + 1]
        BY <2>1, <2>2
    <2>4. item[1] = "wo-worker-processed"
        BY <1>0, <2>1, <2>3 DEF HandlerLocals
    <2>5. \A n \in 1..Len(lscan'[l]) : lscan'[l][n][1] = "wo-worker-processed"
        BY <1>0, <2>1, <2>3 DEF HandlerLocals
    <2>6. item[2] \in Workers
        BY <2>3, <2>4 DEF ScanItems
    <2>7. ReadIds(item) = ToSet(woProcessed[item[2]]) \X {item[2]}
        BY <2>4 DEF ReadIds
    <2> HIDE DEF item
    <2>8. ASSUME NEW i \in FoundIds(l)' PROVE Retired(i)
        <3>1. PICK f \in lfound'[l] : i = f[1]
            BY DEF FoundIds
        <3>2. CASE f \in lfound[l]
            BY <1>0, <2>1, <3>1, <3>2 DEF FoundIds, Retired, Scanning
        <3>3. CASE f \in ReadIds(item)
            BY <2>6, <2>7, <3>1, <3>3 DEF Retired, IsProcessed
        <3> QED BY <2>1, <3>1, <3>2, <3>3 DEF Override
    <2>9. HandlerLocals(l)' /\ ~Creating(l)'
        BY <1>0, <2>1, <2>5 DEF HandlerLocals, Booting, InSubmission, Scanning, Creating
    <2> QED BY <1>0, <2>1, <2>8, <2>9, PlacesQuiet
<1>3. CASE PurgeSelect(l)
    <2>1. UNCHANGED <<woTimestamps, woRequests, woResponses, woScheduled, woProcessed, lreq>>
        BY <1>3 DEF PurgeSelect
    <2>2. CASE PurgeCandidates(l) = {}
        <3>1. lpc[l] = "purge_select" /\ lpc'[l] = "reply" /\ lfound'[l] = {}
            BY <1>0, <1>3, <2>2 DEF PurgeSelect, Answer, EndScan, ListenerTypeOK
        <3>2. HandlerLocals(l)' /\ ~Creating(l)' /\ ~Scanning(l)'
            BY <3>1 DEF HandlerLocals, Booting, InSubmission, Scanning, Creating
        <3> QED BY <1>0, <2>1, <3>2, PlacesQuiet
    <2>3. CASE PurgeCandidates(l) # {}
        <3>1. /\ lpc[l] = "purge_select" /\ lpc'[l] = "purge_unlist" /\ lfound' = lfound
              /\ lvictim'[l] = FirstKey(PurgeCandidates(l))
            BY <1>0, <1>3, <2>3 DEF PurgeSelect, ListenerTypeOK
        <3>2. PurgeCandidates(l) \in SUBSET WoIds
            BY <1>0 DEF PurgeCandidates, StoreTypeOK
        <3>3. FirstKey(PurgeCandidates(l)) \in FoundIds(l)
            BY <2>3, <3>2, FirstKeyMember DEF PurgeCandidates
        <3>4. FoundIds(l)' = FoundIds(l)
            BY <3>1 DEF FoundIds
        <3>5. HandlerLocals(l)' /\ ~Creating(l)'
            BY <1>0, <2>1, <3>1, <3>3, <3>4 DEF HandlerLocals, Booting, InSubmission, Scanning, Creating
        <3>6. \A i \in FoundIds(l)' : Retired(i)
            BY <1>0, <3>1, <3>4 DEF Retired, Scanning
        <3> QED BY <1>0, <2>1, <3>5, <3>6, PlacesQuiet
    <2> QED BY <2>2, <2>3
<1>4. CASE PurgeUnlist(l)
    <2>1. /\ lpc[l] = "purge_unlist" /\ lpc'[l] = "purge_remove" /\ lstep'[l] = 1
          /\ UNCHANGED <<woTimestamps, woRequests, woResponses, woScheduled, lreq, lfound, lvictim>>
        BY <1>0, <1>4 DEF PurgeUnlist, ListenerTypeOK
    <2>2. PICK w \in Workers : woProcessed' = CsvSearchDelete(woProcessed, w, lvictim[l])
        BY <1>4 DEF PurgeUnlist
    <2>3. ASSUME NEW v \in Workers PROVE ToSet(woProcessed'[v]) \subseteq ToSet(woProcessed[v])
        <3>1. woProcessed[w] \in Seq(WoIds)
            BY <1>0 DEF StoreTypeOK
        <3>2. ToSet(RemoveFirst(woProcessed[w], lvictim[l])) \subseteq ToSet(woProcessed[w])
            BY <3>1, RemoveFirstProperties
        <3> QED BY <1>0, <2>2, <3>2 DEF CsvSearchDelete, StoreTypeOK
    <2>4. FoundIds(l)' = FoundIds(l) /\ Scanning(l) /\ Scanning(l)'
        BY <2>1 DEF FoundIds, Scanning
    <2>5. \A i \in WoIds : Retired(i)' => Retired(i)
        BY <1>0, <2>3, <2>4 DEF Retired, IsProcessed
    <2>6. HandlerLocals(l)' /\ ~Creating(l)'
        BY <1>0, <2>1, <2>4 DEF HandlerLocals, Booting, InSubmission, Scanning, Creating
    <2>7. \A m \in Managers : Handling(m)' = Handling(m) /\ CleanupLocals(m)'
        BY <1>0, <2>1 DEF Handling, PlacesInv, CleanupLocals
    <2>8. \A i \in WoIds : RecordsMatch(i)'
        BY <2>1 DEF PlacesInv, RecordsMatch
    <2>9. /\ \A k \in Listeners : CreatedAlone(k)'
          /\ \A i \in WoIds : QueuedAlone(i)'
          /\ \A m \in Managers : HandledAlone(m)'
          /\ Separate(woScheduled)'
        BY <1>0, <2>1, <2>5, <2>6, <2>7, PlacesKept
    <2> QED BY <2>6, <2>7, <2>8, <2>9 DEF PlacesInv
<1>5. CASE PurgeRemove(l) \/ PurgeFinish(l)
    <2> DEFINE i == lvictim[l]
               table == PurgeOrder[lstep[l]]
    <2>1. /\ lpc[l] = "purge_remove" /\ lstep[l] \in 1..4 /\ i \in WoIds /\ i \in FoundIds(l)
          /\ UNCHANGED <<woScheduled, woProcessed, lreq>>
          /\ RemoveRecord(table, i)
        BY <1>0, <1>5 DEF PurgeRemove, PurgeFinish, ListenerFormed, HandlerLocals
    <2>2. /\ table \in OrderTables
          /\ table = "wo-timestamps" => lstep[l] >= 3
          /\ lstep[l] = 1 => table = "wo-requests"
          /\ lstep[l] = 2 => table = "wo-responses"
        BY <2>1 DEF PurgeOrder, OrderTables
    <2>3. Retired(i)
        BY <1>0, <2>1 DEF Retired, Scanning
    <2>4. /\ lstep[l] >= 2 => woRequests[i] = 0
          /\ lstep[l] >= 3 => woResponses[i] = 0
        BY <1>0, <2>1 DEF HandlerLocals
    <2> HIDE DEF table, i
    <2>5. /\ \A j \in WoIds : RecordsMatch(j)'
          /\ \A j \in WoIds \ {i} : /\ j \in woTimestamps' <=> j \in woTimestamps
                                    /\ woRequests'[j] = woRequests[j]
                                    /\ woResponses'[j] = woResponses[j]
          /\ woRequests'[i] \in {0, woRequests[i]} /\ woResponses'[i] \in {0, woResponses[i]}
          /\ table = "wo-requests" => woRequests'[i] = 0
          /\ table = "wo-responses" => woResponses'[i] = 0
        <3>1. table = "wo-timestamps" => woRequests[i] = 0 /\ woResponses[i] = 0
            BY <2>1, <2>2, <2>4
        <3> QED BY <2>1, <2>2, <3>1, RemovalMatches
    <2>6. /\ HandlerLocals(l)' /\ ~Creating(l)'
          /\ Scanning(l)' => FoundIds(l)' = FoundIds(l)
        <3>1. CASE PurgeRemove(l)
            <4>1. /\ lpc'[l] = "purge_remove" /\ lstep'[l] = lstep[l] + 1
                  /\ lvictim'[l] = i /\ FoundIds(l)' = FoundIds(l)
                BY <1>0, <3>1 DEF PurgeRemove, ListenerTypeOK, FoundIds, i
            <4>2. lreq[l].num # 0
                BY <1>0, <2>1 DEF HandlerLocals, InSubmission
            <4>3. /\ lstep'[l] >= 2 => woRequests'[i] = 0
                  /\ lstep'[l] >= 3 => woResponses'[i] = 0
                BY <2>1, <2>2, <2>4, <2>5, <4>1
            <4> QED BY <2>1, <4>1, <4>2, <4>3
                DEF HandlerLocals, Booting, InSubmission, Scanning, Creating
        <3>2. CASE PurgeFinish(l)
            <4>1. lpc'[l] \in {"check", "reply"} /\ lfound'[l] = {}
                BY <1>0, <3>2 DEF PurgeFinish, ListenerTypeOK, EndScan, Answer
            <4>2. lreq[l].num # 0
                BY <1>0, <2>1 DEF HandlerLocals, InSubmission
            <4> QED BY <2>1, <4>1, <4>2
                DEF HandlerLocals, Booting, InSubmission, Scanning, Creating
        <3> QED BY <1>5, <3>1, <3>2
    <2>7. \A j \in WoIds : Retired(j)' => Retired(j)
        <3>1. Scanning(l)
            BY <2>1 DEF Scanning
        <3> QED BY <1>0, <2>1, <2>6, <3>1 DEF Retired, IsProcessed
    <2>8. \A m \in Managers : Handling(m)' = Handling(m) /\ CleanupLocals(m)'
        <3>1. ASSUME NEW m \in Managers PROVE CleanupLocals(m)'
            <4>1. mpc[m] = "clean" => Head(mids[m]) \in WoIds
                BY DEF TypeInv, TypeOK, ManagerTypeOK, ManagerFormed
            <4>2. CleanupLocals(m)
                BY DEF PlacesInv
            <4> QED BY <1>0, <2>5, <4>1, <4>2 DEF CleanupLocals
        <3> QED BY <1>0, <3>1 DEF Handling
    <2>9. /\ \A k \in Listeners : CreatedAlone(k)'
          /\ \A j \in WoIds : QueuedAlone(j)'
          /\ \A m \in Managers : HandledAlone(m)'
          /\ Separate(woScheduled)'
        BY <1>0, <2>1, <2>3, <2>5, <2>6, <2>7, <2>8, PlacesKept
    <2> QED BY <2>5, <2>6, <2>8, <2>9 DEF PlacesInv
<1> QED BY <1>1, <1>2, <1>3, <1>4, <1>5

(***************************************************************************)
(* A listener step that changes the records of no queued or held order.    *)
(***************************************************************************)
LEMMA OthersKept ==
    ASSUME TypeInv, PlacesInv, UNCHANGED <<woScheduled, mpc, mwo, mreq>>,
           \A i \in WoIds : Retired(i)' => Retired(i),
           \A i \in WoIds :
               IsScheduled(i) \/ (\E m \in Managers : Handling(m) /\ mwo[m] = i) =>
                   /\ i \in woTimestamps => i \in woTimestamps'
                   /\ woRequests'[i] = woRequests[i]
                   /\ woResponses'[i] = woResponses[i]
    PROVE  /\ \A i \in WoIds : QueuedAlone(i)'
           /\ \A m \in Managers : HandledAlone(m)'
           /\ Separate(woScheduled)'
<1>1. ASSUME NEW i \in WoIds PROVE QueuedAlone(i)'
    <2>1. QueuedAlone(i) /\ IsScheduled(i)' = IsScheduled(i)
        BY DEF PlacesInv, IsScheduled
    <2> QED BY <2>1 DEF QueuedAlone, Handling
<1>2. ASSUME NEW m \in Managers PROVE HandledAlone(m)'
    <2> SUFFICES ASSUME Handling(m) PROVE HandledAlone(m)'
        BY DEF HandledAlone, Handling
    <2>1. HandledAlone(m) /\ mwo[m] \in WoIds
        BY DEF PlacesInv, TypeInv, ManagerFormed, Handling
    <2> QED BY <2>1 DEF HandledAlone, Handling
<1> QED BY <1>1, <1>2 DEF PlacesInv, Separate

(***************************************************************************)
(* The creation of an order: nothing is known of an id that passes the     *)
(* existence check, so its records are the ones this handler writes.       *)
(***************************************************************************)
LEMMA PlacesSubmit ==
    ASSUME TypeInv, PlacesInv, ReuseSafe, NEW l, Listeners = {l},
           SubmitCheck(l) \/ SubmitTimestamp(l) \/ SubmitRequest(l) \/ SubmitSchedule(l),
           UNCHANGED managerVars
    PROVE  PlacesInv'
<1> USE DEF GoTo, storeVars, queueVars, orderVars, managerVars, managerLocals, scanVars, Answer
<1> DEFINE i == lreq[l].id
<1>0. /\ l \in Listeners /\ StoreTypeOK /\ ListenerTypeOK /\ HandlerLocals(l) /\ CreatedAlone(l)
      /\ UNCHANGED <<mpc, mwo, mreq, mids, mstep, lreq, lfound>>
      /\ lpc[l] \in {"check", "set_timestamp", "set_request", "schedule"}
      /\ i \in WoIds
    BY DEF PlacesInv, TypeInv, TypeOK, SubmitCheck, SubmitTimestamp, SubmitRequest,
           SubmitSchedule, ListenerFormed
<1>1. lfound[l] = {} /\ lreq[l].num # 0 /\ ~Scanning(l)
    BY <1>0 DEF HandlerLocals, Scanning, Booting, InSubmission
<1>2. ASSUME woProcessed' = woProcessed, lpc'[l] \in {"set_timestamp", "set_request", "schedule", "reply"}
      PROVE  HandlerLocals(l)' /\ \A j \in WoIds : Retired(j)' <=> Retired(j)
    <2>1. HandlerLocals(l)'
        BY <1>0, <1>1, <1>2 DEF HandlerLocals, Booting, InSubmission, Scanning
    <2>2. ~Scanning(l)'
        BY <1>2 DEF Scanning
    <2> QED BY <1>0, <1>1, <1>2, <2>1, <2>2 DEF Retired, IsProcessed
<1> HIDE DEF i
<1>3. CASE SubmitCheck(l)
    <2>1. UNCHANGED <<woTimestamps, woRequests, woResponses, woScheduled, woProcessed>> /\ lpc[l] = "check"
        BY <1>3 DEF SubmitCheck
    <2>2. CASE i \in woTimestamps
        <3>1. lpc'[l] = "reply"
            BY <1>0, <1>3, <2>2 DEF SubmitCheck, ListenerTypeOK, i
        <3>2. ~Creating(l)' /\ ~Scanning(l)'
            BY <3>1 DEF Creating, Scanning
        <3> QED BY <1>0, <1>2, <2>1, <3>1, <3>2, PlacesQuiet
    <2>3. CASE i \notin woTimestamps
        <3>1. lpc'[l] = "set_timestamp"
            BY <1>0, <1>3, <2>3 DEF SubmitCheck, ListenerTypeOK, i
        <3>2. ~Retired(i)
            BY <1>0, <2>1, <2>3 DEF ReuseSafe, i
        <3>3. woRequests[i] = 0 /\ woResponses[i] = 0
            BY <1>0, <2>3 DEF PlacesInv, RecordsMatch
        <3>4. ~IsScheduled(i) /\ \A m \in Managers : Handling(m) => mwo[m] # i
            BY <1>0, <2>3 DEF PlacesInv, QueuedAlone, HandledAlone
        <3>5. CreatedAlone(l)'
            BY <1>0, <1>2, <2>1, <3>1, <3>2, <3>3, <3>4 DEF CreatedAlone, IsScheduled, Handling, i
        <3>6. /\ \A j \in WoIds : QueuedAlone(j)'
              /\ \A m \in Managers : HandledAlone(m)'
              /\ Separate(woScheduled)'
            BY <1>0, <1>2, <2>1, <3>1, OthersKept
        <3>7. /\ \A j \in WoIds : RecordsMatch(j)'
              /\ \A m \in Managers : CleanupLocals(m)'
            BY <1>0, <2>1 DEF PlacesInv, RecordsMatch, CleanupLocals
        <3> QED BY <1>2, <2>1, <3>1, <3>5, <3>6, <3>7 DEF PlacesInv
    <2> QED BY <2>2, <2>3
<1>4. CASE SubmitTimestamp(l) \/ SubmitRequest(l)
    <2>1. /\ \/ lpc[l] = "set_timestamp" /\ lpc'[l] = "set_request"
                /\ woTimestamps' = woTimestamps \cup {i} /\ woRequests' = woRequests
             \/ lpc[l] = "set_request" /\ lpc'[l] = "schedule"
                /\ woTimestamps' = woTimestamps
                /\ woRequests' = [woRequests EXCEPT ![i] = lreq[l].num]
          /\ UNCHANGED <<woResponses, woScheduled, woProcessed>>
        BY <1>0, <1>4 DEF SubmitTimestamp, SubmitRequest, ListenerTypeOK, i
    <2>2. /\ ~IsScheduled(i) /\ ~Retired(i) /\ woResponses[i] = 0 /\ woRequests[i] = 0
          /\ \A m \in Managers : Handling(m) => mwo[m] # i
          /\ lpc[l] = "set_request" => i \in woTimestamps
        BY <1>0, <2>1 DEF CreatedAlone, Creating, i
    <2>3. /\ \A j \in WoIds : woTimestamps \subseteq woTimestamps' /\ (j # i => woRequests'[j] = woRequests[j])
          /\ lpc'[l] = "schedule" => woRequests'[i] = lreq[l].num
          /\ lpc'[l] = "set_request" => woRequests'[i] = 0
          /\ i \in woTimestamps'
        BY <1>0, <2>1, <2>2 DEF StoreTypeOK
    <2>4. CreatedAlone(l)'
        BY <1>0, <1>2, <2>1, <2>2, <2>3 DEF CreatedAlone, IsScheduled, Handling, i
    <2>5. /\ \A j \in WoIds : QueuedAlone(j)'
          /\ \A m \in Managers : HandledAlone(m)'
          /\ Separate(woScheduled)'
        BY <1>0, <1>2, <2>1, <2>2, <2>3, OthersKept
    <2>6. \A j \in WoIds : RecordsMatch(j)'
        BY <2>1, <2>2, <2>3 DEF PlacesInv, RecordsMatch
    <2>7. ASSUME NEW m \in Managers PROVE CleanupLocals(m)'
        <3>1. mpc[m] = "clean" => Head(mids[m]) \in WoIds /\ Head(mids[m]) \in ToSet(mids[m])
            BY PopProperties DEF TypeInv, TypeOK, ManagerTypeOK, ManagerFormed
        <3>2. mpc[m] = "clean" => Head(mids[m]) # i
            BY <2>2, <3>1 DEF Retired
        <3>3. CleanupLocals(m)
            BY DEF PlacesInv
        <3> QED BY <1>0, <2>1, <2>3, <3>1, <3>2, <3>3 DEF CleanupLocals
    <2> QED BY <1>2, <2>1, <2>4, <2>5, <2>6, <2>7 DEF PlacesInv
<1>5. CASE SubmitSchedule(l)
    <2> DEFINE w == lreq[l].worker
    <2>1. /\ lpc[l] = "schedule" /\ lpc'[l] = "reply" /\ w \in Workers
          /\ UNCHANGED <<woTimestamps, woRequests, woResponses, woProcessed>>
          /\ woScheduled'[w] = Append(woScheduled[w], i)
          /\ \A v \in Workers \ {w} : woScheduled'[v] = woScheduled[v]
          /\ woScheduled[w] \in Seq(WoIds)
        BY <1>0, <1>5 DEF SubmitSchedule, CsvAppend, ListenerTypeOK, StoreTypeOK, i
    <2>2. /\ ~IsScheduled(i) /\ ~Retired(i) /\ woResponses[i] = 0 /\ woRequests[i] # 0
          /\ \A m \in Managers : Handling(m) => mwo[m] # i
          /\ i \in woTimestamps
        BY <1>0, <1>1, <2>1 DEF CreatedAlone, Creating, i
    <2> HIDE DEF w
    <2>3. /\ ToSet(woScheduled'[w]) = ToSet(woScheduled[w]) \cup {i}
          /\ IsInjective(woScheduled[w]) => IsInjective(woScheduled'[w])
        BY <1>0, <2>1, <2>2, AppendToSet, AppendDistinct DEF IsScheduled
    <2>4. \A j \in WoIds : IsScheduled(j)' <=> IsScheduled(j) \/ j = i
        BY <2>1, <2>3 DEF IsScheduled
    <2>5. Separate(woScheduled)'
        <3>1. \A v \in Workers : i \notin ToSet(woScheduled[v])
            BY <2>2 DEF IsScheduled
        <3>2. Separate(woScheduled)
            BY DEF PlacesInv
        <3>3. ASSUME NEW v \in Workers PROVE IsInjective(woScheduled'[v])
            BY <2>1, <2>3, <3>2, <3>3 DEF Separate
        <3>4. ASSUME NEW v \in Workers, NEW u \in Workers, u # v
              PROVE  ToSet(woScheduled'[u]) \cap ToSet(woScheduled'[v]) = {}
            <4>1. ToSet(woScheduled[u]) \cap ToSet(woScheduled[v]) = {}
                BY <3>2, <3>4 DEF Separate
            <4>2. CASE u = w
                BY <2>1, <2>3, <3>1, <3>4, <4>1, <4>2
            <4>3. CASE v = w
                BY <2>1, <2>3, <3>1, <3>4, <4>1, <4>3
            <4>4. CASE u # w /\ v # w
                BY <2>1, <4>1, <4>4
            <4> QED BY <4>2, <4>3, <4>4
        <3> QED BY <3>3, <3>4 DEF Separate
    <2>6. ASSUME NEW j \in WoIds PROVE QueuedAlone(j)'
        <3>1. QueuedAlone(j)
            BY DEF PlacesInv
        <3> QED BY <1>0, <1>2, <2>1, <2>2, <2>4, <3>1 DEF QueuedAlone, Handling
    <2>7. ASSUME NEW m \in Managers PROVE HandledAlone(m)'
        <3> SUFFICES ASSUME Handling(m) PROVE HandledAlone(m)'
            BY <1>0 DEF HandledAlone, Handling
        <3>1. HandledAlone(m) /\ mwo[m] \in WoIds
            BY DEF PlacesInv, TypeInv, ManagerFormed, Handling
        <3> QED BY <1>0, <1>2, <2>1, <3>1 DEF HandledAlone, Handling
    <2>8. /\ \A j \in WoIds : RecordsMatch(j)'
          /\ \A m \in Managers : CleanupLocals(m)'
          /\ CreatedAlone(l)'
        BY <1>0, <2>1 DEF PlacesInv, RecordsMatch, CleanupLocals, CreatedAlone, Creating
    <2> QED BY <1>2, <2>1, <2>5, <2>6, <2>7, <2>8 DEF PlacesInv
<1> QED BY <1>3, <1>4, <1>5

(***************************************************************************)
(* The clean-up of a manager at boot, and the ways a manager ends.         *)
(***************************************************************************)
LEMMA PlacesCleanup ==
    ASSUME TypeInv, PlacesInv, NEW l, Listeners = {l}, NEW m \in Managers,
           \/ BootAddWorker(m) \/ JoinPool(m) \/ CleanupRead(m, "poll")
           \/ CleanupUnlist(m, "poll") \/ CleanupRemove(m) \/ ManagerRestart(m)
           \/ EnclaveRaises(m) \/ ManagerCrash(m) \/ ClearProcessing(m),
           UNCHANGED listenerVars
    PROVE  PlacesInv'
<1> USE DEF MGoTo, storeVars, queueVars, orderVars, managerLocals, listenerVars, scanVars
<1>0. /\ StoreTypeOK /\ ManagerTypeOK /\ ManagerFormed(m) /\ m \in Workers /\ WorkerOf[m] = m
      /\ l \in Listeners /\ CleanupLocals(m)
      /\ UNCHANGED <<lpc, lreq, lids, lscan, lfound, lvictim, lstep>>
    BY SingletonAssumption DEF TypeInv, TypeOK, PlacesInv
<1>1. /\ \A k \in Listeners : Creating(k)' = Creating(k)
      /\ \A k \in Listeners : Scanning(k)' = Scanning(k) /\ FoundIds(k)' = FoundIds(k)
    BY <1>0 DEF Creating, Scanning, FoundIds
<1>2. ASSUME UNCHANGED <<woTimestamps, woRequests, woResponses, woScheduled>>,
             \A v \in Workers : ToSet(woProcessed'[v]) \subseteq ToSet(woProcessed[v]),
             \A k \in Managers : \A i \in ToSet(mids'[k]) : Retired(i),
             \A k \in Managers \ {m} : /\ mpc'[k] = mpc[k] /\ mwo'[k] = mwo[k]
                                       /\ mreq'[k] = mreq[k] /\ mids'[k] = mids[k]
                                       /\ mstep'[k] = mstep[k],
             ~Handling(m)', CleanupLocals(m)'
      PROVE  PlacesInv'
    <2>1. \A i \in WoIds : Retired(i)' => Retired(i)
        BY <1>1, <1>2 DEF Retired, IsProcessed
    <2>2. \A k \in Managers \ {m} : Handling(k)' = Handling(k) /\ CleanupLocals(k)'
        BY <1>2 DEF PlacesInv, Handling, CleanupLocals
    <2>3. /\ \A k \in Listeners : CreatedAlone(k)'
          /\ \A i \in WoIds : QueuedAlone(i)'
          /\ \A k \in Managers : HandledAlone(k)'
          /\ Separate(woScheduled)'
        BY <1>0, <1>1, <1>2, <2>1, <2>2, PlacesKept
    <2>4. /\ \A i \in WoIds : RecordsMatch(i)'
          /\ \A k \in Listeners : HandlerLocals(k)'
        BY <1>0, <1>1, <1>2 DEF PlacesInv, RecordsMatch, HandlerLocals, Booting, InSubmission
    <2> QED BY <1>2, <2>2, <2>3, <2>4 DEF PlacesInv
<1>3. CASE BootAddWorker(m) \/ JoinPool(m) \/ ManagerRestart(m) \/ ClearProcessing(m)
    <2>1. /\ UNCHANGED <<woTimestamps, woRequests, woResponses, woScheduled, woProcessed, mids, mstep>>
          /\ \A k \in Managers \ {m} : mpc'[k] = mpc[k] /\ mwo'[k] = mwo[k] /\ mreq'[k] = mreq[k]
          /\ mpc'[m] \in {"join", "clean_read", "boot", "poll"}
        BY <1>0, <1>3 DEF BootAddWorker, JoinPool, ManagerRestart, ClearProcessing, ManagerTypeOK
    <2>2. \A k \in Managers : \A i \in ToSet(mids[k]) : Retired(i)
        BY DEF Retired
    <2> QED BY <1>2, <2>1, <2>2 DEF Handling, CleanupLocals
<1>4. CASE EnclaveRaises(m) \/ ManagerCrash(m)
    <2>1. /\ UNCHANGED <<woTimestamps, woRequests, woResponses, woScheduled, woProcessed>>
          /\ \A k \in Managers \ {m} : /\ mpc'[k] = mpc[k] /\ mwo'[k] = mwo[k] /\ mreq'[k] = mreq[k]
                                       /\ mids'[k] = mids[k] /\ mstep'[k] = mstep[k]
          /\ mpc'[m] = "down" /\ mids'[m] = <<>>
        BY <1>0, <1>4 DEF EnclaveRaises, ManagerCrash, Exit, ManagerTypeOK
    <2>2. \A k \in Managers : \A i \in ToSet(mids'[k]) : Retired(i)
        BY <2>1 DEF Retired, ToSet
    <2> QED BY <1>2, <2>1, <2>2 DEF Handling, CleanupLocals
<1>5. CASE CleanupRead(m, "poll")
    <2>1. /\ UNCHANGED <<woTimestamps, woRequests, woResponses, woScheduled, woProcessed>>
          /\ \A k \in Managers \ {m} : /\ mpc'[k] = mpc[k] /\ mwo'[k] = mwo[k] /\ mreq'[k] = mreq[k]
                                       /\ mids'[k] = mids[k] /\ mstep'[k] = mstep[k]
          /\ \/ mpc'[m] = "poll" /\ mids'[m] = mids[m]
             \/ mpc'[m] = "clean" /\ mids'[m] = woProcessed[m] /\ mstep'[m] = 1
        BY <1>0, <1>5 DEF CleanupRead, ManagerTypeOK
    <2>2. \A k \in Managers : \A i \in ToSet(mids'[k]) : Retired(i)
        BY <1>0, <2>1 DEF Retired, IsProcessed
    <2> QED BY <1>2, <2>1, <2>2 DEF Handling, CleanupLocals
<1>6. CASE CleanupUnlist(m, "poll")
    <2>1. /\ UNCHANGED <<woTimestamps, woRequests, woResponses, woScheduled, mids, mstep>>
          /\ \A k \in Managers \ {m} : mpc'[k] = mpc[k] /\ mwo'[k] = mwo[k] /\ mreq'[k] = mreq[k]
          /\ mpc'[m] = "poll"
          /\ woProcessed'[m] = <<>> /\ \A v \in Workers \ {m} : woProcessed'[v] = woProcessed[v]
        BY <1>0, <1>6 DEF CleanupUnlist, ManagerTypeOK, StoreTypeOK
    <2>2. \A v \in Workers : ToSet(woProcessed'[v]) \subseteq ToSet(woProcessed[v])
        BY <2>1 DEF ToSet
    <2>3. \A k \in Managers : \A i \in ToSet(mids'[k]) : Retired(i)
        BY <2>1 DEF Retired
    <2> QED BY <1>2, <2>1, <2>2, <2>3 DEF Handling, CleanupLocals
<1>7. CASE CleanupRemove(m)
    <2> DEFINE i == Head(mids[m])
               table == CleanupOrder[mstep[m]]
    <2>1. /\ mpc[m] = "clean" /\ mstep[m] \in 1..4 /\ mids[m] \in Seq(WoIds) /\ mids[m] # <<>>
          /\ UNCHANGED <<woScheduled, woProcessed, mwo, mreq>>
          /\ RemoveRecord(table, i)
        BY <1>0, <1>7 DEF CleanupRemove, ManagerFormed, ManagerTypeOK
    <2>2. /\ table \in OrderTables
          /\ table = "wo-timestamps" => mstep[m] >= 3
          /\ mstep[m] = 1 => table = "wo-responses"
          /\ mstep[m] = 2 => table = "wo-requests"
        BY <2>1 DEF CleanupOrder, OrderTables
    <2>3. i \in WoIds /\ i \in ToSet(mids[m]) /\ ToSet(Tail(mids[m])) \subseteq ToSet(mids[m])
        BY <2>1, PopProperties
    <2>4. Retired(i)
        BY <2>3 DEF Retired
    <2>5. /\ \A k \in Managers \ {m} : mpc'[k] = mpc[k] /\ mids'[k] = mids[k] /\ mstep'[k] = mstep[k]
          /\ \/ mpc'[m] = "clean" /\ mids'[m] = mids[m] /\ mstep'[m] = mstep[m] + 1 /\ mstep[m] < 4
             \/ mpc'[m] = "clean" /\ mids'[m] = Tail(mids[m]) /\ mstep'[m] = 1
             \/ mpc'[m] = "clean_unlist" /\ mids'[m] = Tail(mids[m])
        BY <1>0, <1>7, <2>1 DEF CleanupRemove, ManagerTypeOK
    <2>6. /\ mstep[m] >= 2 => woResponses[i] = 0
          /\ mstep[m] >= 3 => woRequests[i] = 0
        BY <1>0, <2>1 DEF CleanupLocals
    <2> HIDE DEF i, table
    <2>7. /\ \A j \in WoIds : RecordsMatch(j)'
          /\ \A j \in WoIds \ {i} : /\ j \in woTimestamps' <=> j \in woTimestamps
                                    /\ woRequests'[j] = woRequests[j]
                                    /\ woResponses'[j] = woResponses[j]
          /\ woRequests'[i] \in {0, woRequests[i]} /\ woResponses'[i] \in {0, woResponses[i]}
          /\ table = "wo-requests" => woRequests'[i] = 0
          /\ table = "wo-responses" => woResponses'[i] = 0
        <3>1. table = "wo-timestamps" => woRequests[i] = 0 /\ woResponses[i] = 0
            BY <2>1, <2>2, <2>6
        <3> QED BY <2>1, <2>2, <2>3, <3>1, RemovalMatches
    <2>8. ASSUME NEW k \in Managers PROVE CleanupLocals(k)'
        <3>1. CASE k = m
            <4>1. CASE mpc'[m] = "clean" /\ mids'[m] = mids[m] /\ mstep'[m] = mstep[m] + 1
                <5>1. /\ mstep'[m] >= 2 => woResponses'[i] = 0
                      /\ mstep'[m] >= 3 => woRequests'[i] = 0
                    BY <2>1, <2>2, <2>6, <2>7, <4>1
                <5> QED BY <3>1, <4>1, <5>1 DEF CleanupLocals, i
            <4>2. CASE mpc'[m] = "clean_unlist" \/ mstep'[m] = 1
                BY <3>1, <4>2 DEF CleanupLocals
            <4> QED BY <2>5, <4>1, <4>2
        <3>2. CASE k # m
            <4>1. mpc[k] = "clean" => Head(mids[k]) \in WoIds
                BY DEF TypeInv, TypeOK, ManagerTypeOK, ManagerFormed
            <4>2. CleanupLocals(k)
                BY DEF PlacesInv
            <4> QED BY <2>5, <2>7, <3>2, <4>1, <4>2 DEF CleanupLocals
        <3> QED BY <3>1, <3>2
    <2>9. \A k \in Managers : Handling(k)' => k # m /\ Handling(k) /\ mpc'[k] = mpc[k]
        BY <2>1, <2>5 DEF Handling
    <2>10. \A j \in WoIds : Retired(j)' => Retired(j)
        <3>1. \A k \in Managers : ToSet(mids'[k]) \subseteq ToSet(mids[k])
            BY <2>3, <2>5
        <3> QED BY <1>1, <2>1, <3>1 DEF Retired, IsProcessed
    <2>11. /\ \A k \in Listeners : CreatedAlone(k)'
           /\ \A j \in WoIds : QueuedAlone(j)'
           /\ \A k \in Managers : HandledAlone(k)'
           /\ Separate(woScheduled)'
        BY <1>0, <1>1, <2>1, <2>4, <2>7, <2>9, <2>10, PlacesKept
    <2>12. ASSUME NEW k \in Listeners PROVE HandlerLocals(k)'
        <3>1. HandlerLocals(k) /\ (lpc[k] = "purge_remove" => lvictim[k] \in WoIds)
            BY DEF PlacesInv, TypeInv, ListenerFormed
        <3>2. woTimestamps' \subseteq woTimestamps
            BY <2>1 DEF RemoveRecord
        <3>3. lpc[k] = "purge_remove" =>
                  /\ lstep[k] >= 2 => woRequests'[lvictim[k]] = 0
                  /\ lstep[k] >= 3 => woResponses'[lvictim[k]] = 0
            BY <2>7, <3>1 DEF HandlerLocals
        <3> QED BY <1>0, <1>1, <3>1, <3>2, <3>3 DEF HandlerLocals, Booting, InSubmission
    <2> QED BY <2>7, <2>8, <2>11, <2>12 DEF PlacesInv
<1> QED BY <1>3, <1>4, <1>5, <1>6, <1>7

(***************************************************************************)
(* A manager processes an order: the order goes from the queue into its    *)
(* hands and from there to the list of processed ones.                     *)
(***************************************************************************)
LEMMA PlacesProcess ==
    ASSUME TypeInv, PlacesInv, NEW l, Listeners = {l}, NEW m \in Managers,
           \/ Pop(m) \/ ReadRequest(m) \/ MarkProcessing(m) \/ Execute(m)
           \/ UpdateReceipt(m) \/ PersistResponse(m) \/ AppendProcessed(m),
           UNCHANGED listenerVars
    PROVE  PlacesInv'
<1> USE DEF MGoTo, storeVars, queueVars, orderVars, managerLocals, runVars, listenerVars, scanVars
<1>0. /\ StoreTypeOK /\ ManagerTypeOK /\ ManagerFormed(m) /\ m \in Workers /\ WorkerOf[m] = m
      /\ l \in Listeners /\ HandledAlone(m)
      /\ UNCHANGED <<lpc, lreq, lids, lscan, lfound, lvictim, lstep>>
    BY SingletonAssumption DEF TypeInv, TypeOK, PlacesInv
<1>1. /\ \A k \in Listeners : Creating(k)' = Creating(k)
      /\ \A k \in Listeners : Scanning(k)' = Scanning(k) /\ FoundIds(k)' = FoundIds(k)
    BY <1>0 DEF Creating, Scanning, FoundIds
<1>2. ASSUME UNCHANGED <<woTimestamps, woRequests, woResponses>>
      PROVE  (\A i \in WoIds : RecordsMatch(i)') /\ (\A k \in Listeners : HandlerLocals(k)')
    BY <1>0, <1>1, <1>2 DEF PlacesInv, RecordsMatch, HandlerLocals, Booting, InSubmission
<1>3. ASSUME UNCHANGED <<woProcessed, mids>>
      PROVE  \A i \in WoIds : Retired(i)' <=> Retired(i)
    BY <1>1, <1>3 DEF Retired, IsProcessed
<1>4. ASSUME UNCHANGED <<woRequests, woResponses, mids, mstep>>, mpc'[m] # "clean",
             \A k \in Managers \ {m} : mpc'[k] = mpc[k]
      PROVE  \A k \in Managers : CleanupLocals(k)'
    BY <1>4 DEF PlacesInv, CleanupLocals
<1>5. CASE MarkProcessing(m) \/ Execute(m) \/ UpdateReceipt(m)
    <2>1. /\ UNCHANGED <<woTimestamps, woRequests, woResponses, woScheduled, woProcessed>>
          /\ \A k \in Managers \ {m} : /\ mpc'[k] = mpc[k] /\ mwo'[k] = mwo[k] /\ mreq'[k] = mreq[k]
                                       /\ mids'[k] = mids[k] /\ mstep'[k] = mstep[k]
          /\ \/ /\ mpc[m] \in {"mark", "execute", "receipt"}
                /\ mpc'[m] \in {"execute", "receipt", "persist"}
                /\ mids'[m] = mids[m] /\ mwo'[m] = mwo[m] /\ mreq'[m] = mreq[m]
             \/ mpc'[m] = "down" /\ mids'[m] = <<>>
        BY <1>0, <1>5 DEF MarkProcessing, Execute, UpdateReceipt, Exit, ManagerTypeOK
    <2>2. \A k \in Managers : ToSet(mids'[k]) \subseteq ToSet(mids[k])
        BY <2>1 DEF ToSet
    <2>3. \A i \in WoIds : Retired(i)' => Retired(i)
        BY <1>1, <2>1, <2>2 DEF Retired, IsProcessed
    <2>4. \A k \in Managers : Handling(k)' =>
               /\ Handling(k) /\ mwo'[k] = mwo[k] /\ mreq'[k] = mreq[k]
               /\ mpc'[k] = "append" <=> mpc[k] = "append"
               /\ mpc'[k] = "read" <=> mpc[k] = "read"
        BY <2>1 DEF Handling
    <2>5. /\ \A k \in Listeners : CreatedAlone(k)'
          /\ \A i \in WoIds : QueuedAlone(i)'
          /\ \A k \in Managers : HandledAlone(k)'
          /\ Separate(woScheduled)'
        BY <1>0, <1>1, <2>1, <2>3, <2>4, PlacesKept
    <2>6. \A k \in Managers : CleanupLocals(k)'
        BY <2>1 DEF PlacesInv, CleanupLocals
    <2> QED BY <1>2, <2>1, <2>5, <2>6 DEF PlacesInv
<1>6. CASE Pop(m)
    <2> DEFINE i == Head(woScheduled[m])
    <2>1. /\ mpc[m] = "poll" /\ mpc'[m] = "read" /\ mwo'[m] = i
          /\ \A k \in Managers \ {m} : mpc'[k] = mpc[k] /\ mwo'[k] = mwo[k]
          /\ UNCHANGED <<mreq, mids, mstep, woTimestamps, woRequests, woResponses, woProcessed>>
          /\ woScheduled[m] \in Seq(WoIds) /\ woScheduled[m] # <<>>
          /\ woScheduled'[m] = Tail(woScheduled[m])
          /\ \A v \in Workers \ {m} : woScheduled'[v] = woScheduled[v]
        BY <1>0, <1>6 DEF Pop, CsvPop, ManagerTypeOK, StoreTypeOK
    <2>2. /\ i \in WoIds /\ i \in ToSet(woScheduled[m])
          /\ ToSet(woScheduled[m]) = ToSet(woScheduled'[m]) \cup {i}
          /\ IsInjective(woScheduled[m]) =>
                 IsInjective(woScheduled'[m]) /\ i \notin ToSet(woScheduled'[m])
        BY <2>1, PopProperties
    <2> HIDE DEF i
    <2>3. Separate(woScheduled)
        BY DEF PlacesInv
    <2>4. \A v \in Workers : ToSet(woScheduled'[v]) \subseteq ToSet(woScheduled[v])
        BY <2>1, <2>2
    <2>5. Separate(woScheduled)'
        <3>1. ASSUME NEW v \in Workers PROVE IsInjective(woScheduled'[v])
            BY <1>0, <2>1, <2>2, <2>3 DEF Separate
        <3>2. ASSUME NEW v \in Workers, NEW u \in Workers, u # v
              PROVE  ToSet(woScheduled'[u]) \cap ToSet(woScheduled'[v]) = {}
            BY <2>3, <2>4, <3>2 DEF Separate
        <3> QED BY <3>1, <3>2 DEF Separate
    <2>6. \A j \in WoIds : IsScheduled(j)' <=> IsScheduled(j) /\ j # i
        <3>1. \A v \in Workers : i \notin ToSet(woScheduled'[v])
            BY <1>0, <2>1, <2>2, <2>3 DEF Separate
        <3>2. \A v \in Workers : \A j : j # i /\ j \in ToSet(woScheduled[v]) => j \in ToSet(woScheduled'[v])
            BY <2>1, <2>2
        <3> QED BY <2>4, <3>1, <3>2 DEF IsScheduled
    <2>7. QueuedAlone(i) /\ IsScheduled(i)
        BY <1>0, <2>2 DEF PlacesInv, IsScheduled
    <2>8. \A k \in Managers : Handling(k)' <=> Handling(k) \/ k = m
        BY <2>1 DEF Handling
    <2>9. ASSUME NEW k \in Managers PROVE HandledAlone(k)'
        <3>1. CASE k = m
            BY <1>3, <2>1, <2>2, <2>7, <2>8, <3>1 DEF QueuedAlone, HandledAlone
        <3>2. CASE k # m
            <4>1. HandledAlone(k) /\ (Handling(k) => mwo[k] \in WoIds)
                BY DEF PlacesInv, TypeInv, ManagerFormed, Handling
            <4> QED BY <1>3, <2>1, <2>7, <2>8, <3>2, <4>1 DEF QueuedAlone, HandledAlone
        <3> QED BY <3>1, <3>2
    <2>10. ASSUME NEW j \in WoIds PROVE QueuedAlone(j)'
        <3>1. QueuedAlone(j)
            BY DEF PlacesInv
        <3> QED BY <1>3, <2>1, <2>6, <2>8, <3>1 DEF QueuedAlone
    <2>11. CreatedAlone(l)'
        <3>1. CreatedAlone(l) /\ (Creating(l) => lreq[l].id \in WoIds)
            BY <1>0 DEF PlacesInv, TypeInv, ListenerFormed, Creating
        <3>2. Creating(l) => lreq[l].id # i
            BY <2>7, <3>1 DEF CreatedAlone
        <3> QED BY <1>0, <1>1, <1>3, <2>1, <2>6, <2>8, <3>1, <3>2 DEF CreatedAlone
    <2>12. \A k \in Managers : CleanupLocals(k)'
        BY <1>4, <2>1
    <2> QED BY <1>2, <2>1, <2>5, <2>9, <2>10, <2>11, <2>12 DEF PlacesInv
<1>7. CASE ReadRequest(m)
    <2>1. mpc[m] = "read" /\ woRequests[mwo[m]] # 0 /\ mwo[m] \in WoIds
        BY <1>0, <1>7 DEF ReadRequest, HandledAlone, Handling, ManagerFormed
    <2>2. /\ mpc'[m] = "mark" /\ mreq'[m] = woRequests[mwo[m]]
          /\ \A k \in Managers \ {m} : mpc'[k] = mpc[k] /\ mreq'[k] = mreq[k]
          /\ UNCHANGED <<mwo, mids, mstep, woTimestamps, woRequests, woResponses, woScheduled, woProcessed>>
        BY <1>0, <1>7, <2>1 DEF ReadRequest, ManagerTypeOK
    <2>3. \A k \in Managers : Handling(k)' <=> Handling(k)
        BY <2>1, <2>2 DEF Handling
    <2>4. ASSUME NEW k \in Managers PROVE HandledAlone(k)'
        <3>1. HandledAlone(k) /\ (Handling(k) => mwo[k] \in WoIds)
            BY DEF PlacesInv, TypeInv, ManagerFormed, Handling
        <3> QED BY <1>3, <2>1, <2>2, <2>3, <3>1 DEF HandledAlone
    <2>5. ASSUME NEW j \in WoIds PROVE QueuedAlone(j)'
        <3>1. QueuedAlone(j)
            BY DEF PlacesInv
        <3> QED BY <1>3, <2>2, <2>3, <3>1 DEF QueuedAlone, IsScheduled
    <2>6. CreatedAlone(l)'
        <3>1. CreatedAlone(l) /\ (Creating(l) => lreq[l].id \in WoIds)
            BY <1>0 DEF PlacesInv, TypeInv, ListenerFormed, Creating
        <3> QED BY <1>0, <1>1, <1>3, <2>2, <2>3, <3>1 DEF CreatedAlone, IsScheduled
    <2>7. \A k \in Managers : CleanupLocals(k)'
        BY <1>4, <2>2
    <2> QED BY <1>2, <2>2, <2>4, <2>5, <2>6, <2>7 DEF PlacesInv, Separate
<1>8. CASE PersistResponse(m)
    <2> DEFINE i == mwo[m]
    <2>1. /\ mpc[m] = "persist" /\ mpc'[m] = "append" /\ i \in WoIds
          /\ \A k \in Managers \ {m} : mpc'[k] = mpc[k]
          /\ UNCHANGED <<mwo, mreq, mids, mstep, woTimestamps, woRequests, woScheduled, woProcessed>>
          /\ woResponses'[i] = mreq[m]
          /\ \A j \in WoIds \ {i} : woResponses'[j] = woResponses[j]
        BY <1>0, <1>8 DEF PersistResponse, ManagerTypeOK, StoreTypeOK, ManagerFormed
    <2>2. /\ Handling(m) /\ i \in woTimestamps /\ woRequests[i] # 0 /\ ~Retired(i)
          /\ \A k \in Managers : k # m /\ Handling(k) => mwo[k] # i
          /\ mreq[m] = woRequests[i]
        BY <1>0, <2>1 DEF HandledAlone, Handling
    <2> HIDE DEF i
    <2>3. \A k \in Managers : Handling(k)' <=> Handling(k)
        BY <2>1 DEF Handling
    <2>4. ASSUME NEW k \in Managers PROVE HandledAlone(k)'
        <3>1. HandledAlone(k) /\ (Handling(k) => mwo[k] \in WoIds)
            BY DEF PlacesInv, TypeInv, ManagerFormed, Handling
        <3>2. CASE k = m
            BY <1>3, <2>1, <2>2, <2>3, <3>2 DEF HandledAlone, i
        <3>3. CASE k # m
            BY <1>3, <2>1, <2>2, <2>3, <3>1, <3>3 DEF HandledAlone
        <3> QED BY <3>2, <3>3
    <2>5. ASSUME NEW j \in WoIds PROVE QueuedAlone(j)'
        <3>1. QueuedAlone(j)
            BY DEF PlacesInv
        <3>2. IsScheduled(j) => j # i
            BY <2>2, <3>1 DEF QueuedAlone, i
        <3> QED BY <1>3, <2>1, <2>3, <3>1, <3>2 DEF QueuedAlone, IsScheduled
    <2>6. CreatedAlone(l)'
        <3>1. CreatedAlone(l) /\ (Creating(l) => lreq[l].id \in WoIds)
            BY <1>0 DEF PlacesInv, TypeInv, ListenerFormed, Creating
        <3>2. Creating(l) => lreq[l].id # i
            BY <2>2, <3>1 DEF CreatedAlone, i
        <3> QED BY <1>0, <1>1, <1>3, <2>1, <2>3, <3>1, <3>2 DEF CreatedAlone, IsScheduled
    <2>7. ASSUME NEW k \in Managers PROVE CleanupLocals(k)'
        <3>1. mpc[k] = "clean" => Head(mids[k]) \in WoIds /\ Head(mids[k]) \in ToSet(mids[k])
            BY PopProperties DEF TypeInv, TypeOK, ManagerTypeOK, ManagerFormed
        <3>2. mpc[k] = "clean" => Head(mids[k]) # i
            BY <2>2, <3>1 DEF Retired
        <3>3. CleanupLocals(k)
            BY DEF PlacesInv
        <3> QED BY <2>1, <3>1, <3>2, <3>3 DEF CleanupLocals
    <2>8. ASSUME NEW j \in WoIds PROVE RecordsMatch(j)'
        <3>1. RecordsMatch(j)
            BY DEF PlacesInv
        <3> QED BY <2>1, <2>2, <3>1 DEF RecordsMatch
    <2>9. HandlerLocals(l)'
        <3>1. HandlerLocals(l) /\ (lpc[l] = "purge_remove" => lvictim[l] \in WoIds)
            BY <1>0 DEF PlacesInv, TypeInv, ListenerFormed
        <3>2. lpc[l] = "purge_remove" => Retired(lvictim[l])
            BY <1>0, <3>1 DEF HandlerLocals, Retired, Scanning
        <3>3. lpc[l] = "purge_remove" => woResponses'[lvictim[l]] = woResponses[lvictim[l]]
            BY <2>1, <2>2, <3>1, <3>2
        <3> QED BY <1>0, <1>1, <2>1, <3>1, <3>3 DEF HandlerLocals, Booting, InSubmission
    <2> QED BY <2>1, <2>4, <2>5, <2>6, <2>7, <2>8, <2>9 DEF PlacesInv, Separate
<1>9. CASE AppendProcessed(m)
    <2> DEFINE i == mwo[m]
    <2>1. /\ mpc[m] = "append" /\ mpc'[m] = "clear" /\ i \in WoIds
          /\ \A k \in Managers \ {m} : mpc'[k] = mpc[k]
          /\ UNCHANGED <<mwo, mreq, mids, mstep, woTimestamps, woRequests, woResponses, woScheduled>>
          /\ woProcessed'[m] = Append(woProcessed[m], i) /\ woProcessed[m] \in Seq(WoIds)
          /\ \A v \in Workers \ {m} : woProcessed'[v] = woProcessed[v]
        BY <1>0, <1>9 DEF AppendProcessed, CsvAppend, ManagerTypeOK, StoreTypeOK, ManagerFormed
    <2>2. ToSet(woProcessed'[m]) = ToSet(woProcessed[m]) \cup {i}
        BY <2>1, AppendToSet
    <2>3. \A j \in WoIds : Retired(j)' => Retired(j) \/ j = i
        BY <1>1, <2>1, <2>2 DEF Retired, IsProcessed
    <2>4. Handling(m) /\ \A k \in Managers : k # m /\ Handling(k) => mwo[k] # i
        BY <1>0, <2>1 DEF HandledAlone, Handling
    <2> HIDE DEF i
    <2>5. \A k \in Managers : Handling(k)' <=> Handling(k) /\ k # m
        BY <2>1 DEF Handling
    <2>6. ASSUME NEW k \in Managers PROVE HandledAlone(k)'
        <3>1. HandledAlone(k) /\ (Handling(k) => mwo[k] \in WoIds)
            BY DEF PlacesInv, TypeInv, ManagerFormed, Handling
        <3> QED BY <2>1, <2>3, <2>4, <2>5, <3>1 DEF HandledAlone
    <2>7. ASSUME NEW j \in WoIds PROVE QueuedAlone(j)'
        <3>1. QueuedAlone(j)
            BY DEF PlacesInv
        <3>2. IsScheduled(j) => j # i
            BY <2>4, <3>1 DEF QueuedAlone, i
        <3> QED BY <2>1, <2>3, <2>5, <3>1, <3>2 DEF QueuedAlone, IsScheduled
    <2>8. CreatedAlone(l)'
        <3>1. CreatedAlone(l) /\ (Creating(l) => lreq[l].id \in WoIds)
            BY <1>0 DEF PlacesInv, TypeInv, ListenerFormed, Creating
        <3>2. Creating(l) => lreq[l].id # i
            BY <2>4, <3>1 DEF CreatedAlone, i
        <3> QED BY <1>0, <1>1, <2>1, <2>3, <2>5, <3>1, <3>2 DEF CreatedAlone, IsScheduled
    <2>9. \A k \in Managers : CleanupLocals(k)'
        BY <1>4, <2>1
    <2> QED BY <1>2, <2>1, <2>6, <2>7, <2>8, <2>9 DEF PlacesInv, Separate
<1> QED BY <1>5, <1>6, <1>7, <1>8, <1>9

(***************************************************************************)
(* An empty store has every order in its place.                            *)
(***************************************************************************)
LEMMA InitPlaces == Init => PlacesInv
<1> SUFFICES ASSUME Init PROVE PlacesInv
    OBVIOUS
<1>1. /\ \A l \in Listeners : lpc[l] = "boot" /\ lids[l] = {} /\ lfound[l] = {}
      /\ \A m \in Managers : mpc[m] = "boot"
      /\ woTimestamps = {}
      /\ \A i \in WoIds : woRequests[i] = 0 /\ woResponses[i] = 0
      /\ \A w \in Workers : woScheduled[w] = <<>>
    BY DEF Init, StoreInit, ListenerInit, ManagerInit
<1>2. \A i \in WoIds : ~IsScheduled(i)
    BY <1>1 DEF IsScheduled, ToSet
<1>3. Separate(woScheduled)
    BY <1>1 DEF Separate, IsInjective, ToSet
<1>4. \A l \in Listeners : CreatedAlone(l) /\ HandlerLocals(l)
    BY <1>1 DEF CreatedAlone, Creating, HandlerLocals, Booting, InSubmission
<1>5. \A m \in Managers : HandledAlone(m) /\ CleanupLocals(m)
    BY <1>1 DEF HandledAlone, Handling, CleanupLocals
<1>6. \A i \in WoIds : QueuedAlone(i) /\ RecordsMatch(i)
    BY <1>1, <1>2 DEF QueuedAlone, RecordsMatch
<1> QED BY <1>3, <1>4, <1>5, <1>6 DEF PlacesInv

(***************************************************************************)
(* As long as the listener is not restarted, the orders keep their places. *)
(***************************************************************************)
LEMMA NextPlaces ==
    ASSUME TypeInv, PlacesInv, ReuseSafe, NEW l, Listeners = {l},
           [Next]_vars, lrestarts' = lrestarts
    PROVE  PlacesInv'
<1>1. CASE UNCHANGED vars
    <2>1. /\ UNCHANGED <<woTimestamps, woRequests, woResponses, woScheduled, woProcessed>>
          /\ UNCHANGED <<mpc, mwo, mreq, mids, mstep>>
          /\ UNCHANGED <<lpc, lreq, lids, lscan, lfound, lvictim, lstep>>
        BY <1>1 DEF vars, storeVars, orderVars, queueVars, listenerVars, scanVars,
                    managerVars, managerLocals
    <2>2. \A i \in WoIds : Retired(i)' <=> Retired(i)
        BY <2>1 DEF Retired, IsProcessed, Scanning, FoundIds
    <2>3. ASSUME NEW m \in Managers PROVE HandledAlone(m)' /\ CleanupLocals(m)'
        <3>1. HandledAlone(m) /\ CleanupLocals(m) /\ (Handling(m) => mwo[m] \in WoIds)
            BY DEF PlacesInv, TypeInv, ManagerFormed, Handling
        <3> QED BY <2>1, <2>2, <3>1 DEF HandledAlone, CleanupLocals, Handling
    <2>4. ASSUME NEW k \in Listeners PROVE CreatedAlone(k)' /\ HandlerLocals(k)'
        <3>1. CreatedAlone(k) /\ HandlerLocals(k) /\ (Creating(k) => lreq[k].id \in WoIds)
            BY DEF PlacesInv, TypeInv, ListenerFormed, Creating
        <3> QED BY <2>1, <2>2, <3>1 DEF CreatedAlone, HandlerLocals, Creating, Handling,
                IsScheduled, Booting, InSubmission, Scanning, FoundIds
    <2>5. ASSUME NEW i \in WoIds PROVE QueuedAlone(i)' /\ RecordsMatch(i)'
        BY <2>1, <2>2 DEF PlacesInv, QueuedAlone, RecordsMatch, IsScheduled, Handling
    <2> QED BY <2>1, <2>3, <2>4, <2>5 DEF PlacesInv, Separate
<1>2. CASE (ListenerStep(l) \/ ClientRequest(l) \/ ListenerRestart(l)) /\ UNCHANGED managerVars
    <2>1. ~ListenerRestart(l)
        BY ListenerAssumption DEF ListenerRestart, TypeInv, TypeOK, ListenerTypeOK
    <2> QED BY <1>2, <2>1, PlacesBoot, PlacesRequest, PlacesPurge, PlacesSubmit DEF ListenerStep
<1>3. CASE \E m \in Managers : (SingletonStep(m) \/ ManagerCrash(m)) /\ UNCHANGED listenerVars
    BY <1>3, PlacesCleanup, PlacesProcess DEF SingletonStep, ManagerStep
<1> QED BY <1>1, <1>2, <1>3 DEF Next

-----------------------------------------------------------------------------
(***************************************************************************)
(* What the Singleton deployment with one listener promises a client whose *)
(* submission was answered with PENDING, for every number of ids, workers  *)
(* and submissions.                                                        *)
(***************************************************************************)

-----------------------------------------------------------------------------
(* Steps                                                                   *)

\* The one order a manager is about to list as processed.
BeingListed(i) == \E m \in Managers : mpc[m] = "append" /\ mwo[m] = i

(***************************************************************************)
(* An order becomes retired only when a manager lists it as processed: the *)
(* purge and the clean-up look at nothing else.                            *)
(***************************************************************************)
LEMMA RetiredByListing ==
    ASSUME TypeInv, PlacesInv, NEW l, Listeners = {l},
           [Next]_vars, lrestarts' = lrestarts
    PROVE  \A i \in WoIds : Retired(i)' => Retired(i) \/ BeingListed(i)
<1>0. l \in Listeners /\ StoreTypeOK /\ ListenerTypeOK /\ ManagerTypeOK /\ HandlerLocals(l)
    BY DEF PlacesInv, TypeInv, TypeOK
<1>1. CASE UNCHANGED vars
    BY <1>1 DEF vars, storeVars, orderVars, queueVars, listenerVars, scanVars,
                managerVars, managerLocals, Retired, IsProcessed, Scanning, FoundIds
<1>2. CASE (ListenerStep(l) \/ ClientRequest(l)) /\ UNCHANGED managerVars
    <2> USE DEF GoTo, storeVars, queueVars, orderVars, managerVars, managerLocals, scanVars
    <2>1. mids' = mids
        BY <1>2
    <2>2. ASSUME woProcessed' = woProcessed,
                 Scanning(l)' => \A i \in FoundIds(l)' : Retired(i)
          PROVE  \A i \in WoIds : Retired(i)' => Retired(i)
        BY <1>0, <2>1, <2>2 DEF Retired, IsProcessed
    <2>3. CASE BootLookup(l) \/ BootLookupPool(l) \/ BootRead(l) \/ BootKeep(l)
               \/ BootDiscard(l) \/ BootDone(l)
        <3>1. woProcessed' = woProcessed /\ ~Scanning(l)'
            BY <1>0, <2>3 DEF BootLookup, BootLookupPool, BootRead, BootKeep, BootDiscard,
                              BootDone, Scanning, ListenerTypeOK
        <3> QED BY <2>2, <3>1
    <2>4. CASE BootReap(l)
        <3>1. lpc[l] = "boot_reap"
            BY <2>4 DEF BootReap
        <3> QED BY <1>0, <3>1 DEF HandlerLocals
    <2>5. CASE PurgeLookupPool(l)
        <3>1. woProcessed' = woProcessed /\ lfound' = lfound /\ lpc[l] = "purge_pool"
            BY <2>5 DEF PurgeLookupPool
        <3>2. FoundIds(l)' = {}
            BY <1>0, <3>1 DEF HandlerLocals, Scanning, Booting, FoundIds
        <3> QED BY <2>2, <3>1, <3>2
    <2>6. CASE PurgeRead(l)
        <3> DEFINE item == Head(lscan[l])
        <3>1. /\ lpc[l] = "purge_read" /\ woProcessed' = woProcessed
              /\ lfound'[l] = Override(lfound[l], ReadIds(item))
            BY <1>0, <2>6 DEF PurgeRead, ListenerTypeOK
        <3>2. lscan[l] \in Seq(ScanItems) /\ lscan[l] # <<>>
            BY <1>0, <3>1 DEF TypeInv, ListenerTypeOK, ListenerFormed
        <3>3. /\ item \in ScanItems /\ item = lscan[l][1] /\ 1 \in 1..Len(lscan[l])
            BY <3>2
        <3>4. item[1] = "wo-worker-processed"
            BY <1>0, <3>1, <3>3 DEF HandlerLocals
        <3>5. item[2] \in Workers
            BY <3>3, <3>4 DEF ScanItems
        <3>6. ReadIds(item) = ToSet(woProcessed[item[2]]) \X {item[2]}
            BY <3>4 DEF ReadIds
        <3> HIDE DEF item
        <3>7. ASSUME NEW i \in FoundIds(l)' PROVE Retired(i)
            <4>1. PICK f \in lfound'[l] : i = f[1]
                BY DEF FoundIds
            <4>2. CASE f \in lfound[l]
                BY <1>0, <3>1, <4>1, <4>2 DEF FoundIds, Retired, Scanning
            <4>3. CASE f \in ReadIds(item)
                BY <3>5, <3>6, <4>1, <4>3 DEF Retired, IsProcessed
            <4> QED BY <3>1, <4>1, <4>2, <4>3 DEF Override
        <3> QED BY <2>2, <3>1, <3>7
    <2>7. CASE PurgeSelect(l) \/ PurgeRemove(l)
        <3>1. /\ woProcessed' = woProcessed /\ Scanning(l)
              /\ lfound'[l] = lfound[l] \/ lfound'[l] = {}
            <4>1. CASE PurgeSelect(l)
                BY <1>0, <4>1 DEF PurgeSelect, EndScan, Scanning, ListenerTypeOK
            <4>2. CASE PurgeRemove(l)
                BY <4>2 DEF PurgeRemove, Scanning
            <4> QED BY <2>7, <4>1, <4>2
        <3>2. \A i \in FoundIds(l)' : Retired(i)
            BY <1>0, <3>1 DEF FoundIds, Retired
        <3> QED BY <2>2, <3>1, <3>2
    <2>8. CASE PurgeUnlist(l)
        <3>1. lfound' = lfound /\ Scanning(l)
            BY <2>8 DEF PurgeUnlist, Scanning
        <3>2. PICK w \in Workers : woProcessed' = CsvSearchDelete(woProcessed, w, lvictim[l])
            BY <2>8 DEF PurgeUnlist
        <3>3. ASSUME NEW v \in Workers PROVE ToSet(woProcessed'[v]) \subseteq ToSet(woProcessed[v])
            <4>1. woProcessed[w] \in Seq(WoIds)
                BY <1>0 DEF StoreTypeOK
            <4>2. ToSet(RemoveFirst(woProcessed[w], lvictim[l])) \subseteq ToSet(woProcessed[w])
                BY <4>1, RemoveFirstProperties
            <4> QED BY <1>0, <3>2, <4>2 DEF CsvSearchDelete, StoreTypeOK
        <3> QED BY <1>0, <2>1, <3>1, <3>3 DEF Retired, IsProcessed, FoundIds
    <2>9. CASE PurgeFinish(l)
        <3>1. woProcessed' = woProcessed /\ lfound'[l] = {}
            BY <1>0, <2>9 DEF PurgeFinish, EndScan, ListenerTypeOK
        <3> QED BY <2>2, <3>1 DEF FoundIds
    <2>10. CASE SubmitCheck(l) \/ SubmitTimestamp(l) \/ SubmitRequest(l) \/ SubmitSchedule(l)
                \/ GetResultTimestamp(l) \/ ReceiptStore(l) \/ Reply(l)
        <3>1. woProcessed' = woProcessed /\ ~Scanning(l)'
            BY <1>0, <2>10 DEF SubmitCheck, SubmitTimestamp, SubmitRequest, SubmitSchedule,
               GetResultTimestamp, ReceiptStore, Reply, Answer, Scanning, ListenerTypeOK
        <3> QED BY <2>2, <3>1
    <2>11. CASE ClientRequest(l)
        <3>1. woProcessed' = woProcessed /\ ~Scanning(l)'
            <4>1. ASSUME NEW i \in WoIds, NEW w \in Workers, SubmitReceive(l, i, w)
                  PROVE  woProcessed' = woProcessed /\ ~Scanning(l)'
                BY <1>0, <4>1 DEF SubmitReceive, Answer, Scanning, ListenerTypeOK
            <4>2. ASSUME NEW i \in WoIds, GetResult(l, i) \/ ReceiptCreate(l, i)
                  PROVE  woProcessed' = woProcessed /\ ~Scanning(l)'
                BY <1>0, <4>2 DEF GetResult, ReceiptCreate, Answer, Scanning, ListenerTypeOK
            <4> QED BY <2>11, <4>1, <4>2 DEF ClientRequest
        <3> QED BY <2>2, <3>1
    <2> QED BY <1>2, <2>3, <2>4, <2>5, <2>6, <2>7, <2>8, <2>9, <2>10, <2>11 DEF ListenerStep
<1>3. ASSUME NEW m \in Managers, SingletonStep(m) \/ ManagerCrash(m), UNCHANGED listenerVars
      PROVE  \A i \in WoIds : Retired(i)' => Retired(i) \/ BeingListed(i)
    <2> USE DEF MGoTo, storeVars, queueVars, orderVars, managerLocals, listenerVars, scanVars
    <2>1. /\ UNCHANGED <<lpc, lfound>> /\ m \in Workers /\ WorkerOf[m] = m
          /\ mids[m] \in Seq(WoIds) /\ ManagerFormed(m)
        BY <1>0, <1>3, SingletonAssumption DEF TypeInv, ManagerTypeOK
    <2>2. ASSUME \A v \in Workers : \A i \in ToSet(woProcessed'[v]) :
                     i \in ToSet(woProcessed[v]) \/ BeingListed(i),
                 \A k \in Managers : \A i \in ToSet(mids'[k]) : Retired(i)
          PROVE  \A i \in WoIds : Retired(i)' => Retired(i) \/ BeingListed(i)
        BY <2>1, <2>2 DEF Retired, IsProcessed, Scanning, FoundIds
    <2>3. \A k \in Managers : \A i \in ToSet(mids[k]) : Retired(i)
        BY DEF Retired
    <2>4. ToSet(<<>>) = {}
        BY DEF ToSet
    <2>5. CASE BootAddWorker(m) \/ JoinPool(m) \/ ManagerRestart(m) \/ Pop(m) \/ ReadRequest(m)
               \/ MarkProcessing(m) \/ Execute(m) \/ PersistResponse(m) \/ ClearProcessing(m)
        <3>1. UNCHANGED <<mids, woProcessed>>
            BY <2>5 DEF BootAddWorker, JoinPool, ManagerRestart, Pop, ReadRequest, MarkProcessing,
                        Execute, PersistResponse, ClearProcessing
        <3> QED BY <2>2, <2>3, <3>1
    <2>6. CASE EnclaveRaises(m) \/ ManagerCrash(m) \/ UpdateReceipt(m)
        <3>1. /\ woProcessed' = woProcessed
              /\ \A k \in Managers : mids'[k] = mids[k] \/ mids'[k] = <<>>
            BY <1>0, <2>6 DEF EnclaveRaises, ManagerCrash, UpdateReceipt, Exit, ManagerTypeOK
        <3> QED BY <2>2, <2>3, <2>4, <3>1
    <2>7. CASE CleanupRead(m, "poll")
        <3>1. /\ woProcessed' = woProcessed
              /\ \A k \in Managers : mids'[k] = mids[k] \/ mids'[k] = woProcessed[m]
            BY <1>0, <2>1, <2>7 DEF CleanupRead, ManagerTypeOK
        <3>2. \A i \in ToSet(woProcessed[m]) : Retired(i)
            BY <2>1 DEF Retired, IsProcessed
        <3> QED BY <2>2, <2>3, <3>1, <3>2
    <2>8. CASE CleanupUnlist(m, "poll")
        <3>1. /\ mids' = mids
              /\ \A v \in Workers : woProcessed'[v] = woProcessed[v] \/ woProcessed'[v] = <<>>
            BY <1>0, <2>1, <2>8 DEF CleanupUnlist, StoreTypeOK
        <3> QED BY <2>2, <2>3, <2>4, <3>1
    <2>9. CASE CleanupRemove(m)
        <3>1. /\ woProcessed' = woProcessed /\ mids[m] # <<>>
              /\ \A k \in Managers : mids'[k] = mids[k] \/ (k = m /\ mids'[k] = Tail(mids[k]))
            BY <1>0, <2>1, <2>9 DEF CleanupRemove, ManagerTypeOK, ManagerFormed
        <3>2. ToSet(Tail(mids[m])) \subseteq ToSet(mids[m])
            BY <2>1, <3>1, PopProperties
        <3> QED BY <2>2, <2>3, <3>1, <3>2
    <2>10. CASE AppendProcessed(m)
        <3>1. /\ mids' = mids /\ mpc[m] = "append" /\ mwo[m] \in WoIds
              /\ woProcessed[m] \in Seq(WoIds)
              /\ woProcessed'[m] = Append(woProcessed[m], mwo[m])
              /\ \A v \in Workers \ {m} : woProcessed'[v] = woProcessed[v]
            BY <1>0, <2>1, <2>10 DEF AppendProcessed, CsvAppend, ManagerFormed, StoreTypeOK
        <3>2. ToSet(woProcessed'[m]) = ToSet(woProcessed[m]) \cup {mwo[m]}
            BY <3>1, AppendToSet
        <3>3. BeingListed(mwo[m])
            BY <3>1 DEF BeingListed
        <3> QED BY <2>2, <2>3, <3>1, <3>2, <3>3
    <2> QED BY <1>3, <2>5, <2>6, <2>7, <2>8, <2>9, <2>10 DEF SingletonStep, ManagerStep
<1>4. ~ListenerRestart(l)
    BY <1>0, ListenerAssumption DEF ListenerRestart, ListenerTypeOK
<1> QED BY <1>1, <1>2, <1>3, <1>4 DEF Next

-----------------------------------------------------------------------------
(* No purge or clean-up removes a fresh order                              *)

\* What a manager has run, listed, purged or cleaned up has run.
RetiredRan ==
    /\ \A m \in Managers : mpc[m] \in {"receipt", "persist", "append"} => Ran(mwo[m])
    /\ \A i \in WoIds : Retired(i) => Ran(i)

(***************************************************************************)
(* What a manager holds past the enclave call has run.                     *)
(***************************************************************************)
LEMMA RanGrows ==
    ASSUME TypeInv, [Next]_vars
    PROVE  executed \subseteq executed' /\
           \A m \in Managers : mpc'[m] \in {"receipt", "persist", "append"} =>
               \/ mpc[m] \in {"receipt", "persist", "append"} /\ mwo'[m] = mwo[m]
               \/ <<mwo'[m], mreq[m]>> \in executed'
<1> USE DEF MGoTo, storeVars, managerVars, managerLocals, runVars
<1>1. CASE UNCHANGED managerVars
    BY <1>1
<1>2. ASSUME NEW m \in Managers, SingletonStep(m) \/ ManagerCrash(m)
      PROVE  executed \subseteq executed' /\
             \A k \in Managers : mpc'[k] \in {"receipt", "persist", "append"} =>
                 \/ mpc[k] \in {"receipt", "persist", "append"} /\ mwo'[k] = mwo[k]
                 \/ <<mwo'[k], mreq[k]>> \in executed'
    <2>0. ManagerTypeOK
        BY DEF TypeInv, TypeOK
    <2>1. CASE BootAddWorker(m) \/ JoinPool(m) \/ ManagerRestart(m) \/ Pop(m) \/ ReadRequest(m)
               \/ MarkProcessing(m)
        BY <2>0, <2>1 DEF BootAddWorker, JoinPool, ManagerRestart, Pop, ReadRequest,
               MarkProcessing, ManagerTypeOK
    <2>2. CASE Execute(m)
        BY <2>0, <2>2 DEF Execute, ManagerTypeOK
    <2>3. CASE PersistResponse(m) \/ ClearProcessing(m) \/ AppendProcessed(m)
        BY <2>0, <2>3 DEF PersistResponse, ClearProcessing, AppendProcessed, ManagerTypeOK
    <2>4. CASE EnclaveRaises(m) \/ ManagerCrash(m) \/ UpdateReceipt(m)
        BY <2>0, <2>4 DEF EnclaveRaises, ManagerCrash, UpdateReceipt, Exit, ManagerTypeOK
    <2>5. CASE CleanupRead(m, "poll") \/ CleanupUnlist(m, "poll") \/ CleanupRemove(m)
        BY <2>0, <2>5 DEF CleanupRead, CleanupUnlist, CleanupRemove, ManagerTypeOK
    <2> QED BY <1>2, <2>1, <2>2, <2>3, <2>4, <2>5 DEF SingletonStep, ManagerStep
<1> QED BY <1>1, <1>2 DEF Next, vars

(***************************************************************************)
(* With ids used once, only orders that have run are retired.              *)
(***************************************************************************)
LEMMA RetiredRanKept ==
    ASSUME TypeInv, PlacesInv, RetiredRan, NEW l, Listeners = {l},
           [Next]_vars, lrestarts' = lrestarts
    PROVE  RetiredRan'
<1>1. \A i \in WoIds : Retired(i)' => Retired(i) \/ BeingListed(i)
    BY RetiredByListing
<1>2. executed \subseteq executed' /\
      \A m \in Managers : mpc'[m] \in {"receipt", "persist", "append"} =>
          \/ mpc[m] \in {"receipt", "persist", "append"} /\ mwo'[m] = mwo[m]
          \/ <<mwo'[m], mreq[m]>> \in executed'
    BY RanGrows
<1>3. \A i : Ran(i) => Ran(i)'
    BY <1>2 DEF Ran
<1>4. \A i \in WoIds : BeingListed(i) => Ran(i)
    BY DEF BeingListed, RetiredRan
<1>5. ASSUME NEW m \in Managers, mpc'[m] \in {"receipt", "persist", "append"} PROVE Ran(mwo[m])'
    BY <1>2, <1>3, <1>5 DEF RetiredRan, Ran
<1> QED BY <1>1, <1>3, <1>4, <1>5 DEF RetiredRan

\* Processed orders keep their records until a purge takes them off the list,
\* and what a purge has found stays listed until then.
ListedKeptInv ==
    /\ Separate(woProcessed)
    /\ \A i \in WoIds : IsProcessed(i) => i \in woTimestamps /\ woResponses[i] # 0
    /\ \A l \in Listeners :
           /\ lpc[l] \in {"purge_read", "purge_select", "purge_unlist"} =>
                  \A f \in lfound[l] : f[1] \in ToSet(woProcessed[f[2]])
           /\ lpc[l] = "purge_remove" => ~IsProcessed(lvictim[l])

(***************************************************************************)
(* A listener that alone purges keeps processed orders and their records   *)
(* together.                                                               *)
(***************************************************************************)
LEMMA ListedKeptByListener ==
    ASSUME TypeInv, PlacesInv, Undisturbed, ListedKeptInv, NEW l, Listeners = {l},
           ListenerStep(l) \/ ClientRequest(l), UNCHANGED managerVars
    PROVE  ListedKeptInv'
<1> USE DEF GoTo, storeVars, queueVars, orderVars, scanVars, Answer
<1>0. l \in Listeners /\ StoreTypeOK /\ ListenerTypeOK /\ HandlerLocals(l) /\ ListenerFormed(l)
    BY DEF PlacesInv, TypeInv, TypeOK
<1>1. ASSUME UNCHANGED woProcessed,
             \A i \in WoIds : IsProcessed(i) =>
                 (i \in woTimestamps => i \in woTimestamps') /\ woResponses'[i] = woResponses[i],
             lpc'[l] \in {"purge_read", "purge_select", "purge_unlist"} =>
                 \A f \in lfound'[l] : f[1] \in ToSet(woProcessed[f[2]]),
             lpc'[l] = "purge_remove" => ~IsProcessed(lvictim'[l])
      PROVE  ListedKeptInv'
    <2>1. \A i : IsProcessed(i)' <=> IsProcessed(i)
        BY <1>1 DEF IsProcessed
    <2> QED BY <1>1, <2>1 DEF ListedKeptInv, Separate
<1>2. CASE BootLookup(l) \/ BootLookupPool(l) \/ BootRead(l) \/ BootKeep(l)
           \/ BootDiscard(l) \/ BootDone(l)
    <2>1. /\ UNCHANGED <<woProcessed, woTimestamps, woResponses>>
          /\ lpc'[l] \in {"boot_pool", "boot_read", "boot_next", "boot_reap", "idle"}
        BY <1>0, <1>2 DEF BootLookup, BootLookupPool, BootRead, BootKeep, BootDiscard,
                          BootDone, ListenerTypeOK
    <2> QED BY <1>1, <2>1
<1>3. CASE BootReap(l)
    <2>1. lpc[l] = "boot_reap"
        BY <1>3 DEF BootReap
    <2> QED BY <1>0, <2>1 DEF HandlerLocals
<1>4. CASE PurgeLookupPool(l)
    <2>1. UNCHANGED <<woProcessed, woTimestamps, woResponses, lfound>> /\ lpc[l] = "purge_pool"
          /\ lpc'[l] # "purge_remove"
        BY <1>0, <1>4 DEF PurgeLookupPool, ListenerTypeOK
    <2>2. lfound'[l] = {}
        BY <1>0, <2>1 DEF HandlerLocals, Scanning, Booting
    <2> QED BY <1>1, <2>1, <2>2
<1>5. CASE PurgeRead(l)
    <2> DEFINE item == Head(lscan[l])
    <2>1. /\ lpc[l] = "purge_read" /\ UNCHANGED <<woProcessed, woTimestamps, woResponses>>
          /\ lfound'[l] = Override(lfound[l], ReadIds(item)) /\ lpc'[l] # "purge_remove"
        BY <1>0, <1>5 DEF PurgeRead, ListenerTypeOK
    <2>2. lscan[l] \in Seq(ScanItems) /\ lscan[l] # <<>>
        BY <1>0, <2>1 DEF ListenerTypeOK, ListenerFormed
    <2>3. /\ item \in ScanItems /\ item = lscan[l][1] /\ 1 \in 1..Len(lscan[l])
        BY <2>2
    <2>4. item[1] = "wo-worker-processed"
        BY <1>0, <2>1, <2>3 DEF HandlerLocals
    <2>5. ReadIds(item) = ToSet(woProcessed[item[2]]) \X {item[2]}
        BY <2>4 DEF ReadIds
    <2> HIDE DEF item
    <2>6. ASSUME NEW f \in lfound'[l] PROVE f[1] \in ToSet(woProcessed[f[2]])
        <3>1. CASE f \in lfound[l]
            BY <1>0, <2>1, <3>1 DEF ListedKeptInv
        <3>2. CASE f \in ReadIds(item)
            BY <2>5, <3>2
        <3> QED BY <2>1, <3>1, <3>2 DEF Override
    <2> QED BY <1>1, <2>1, <2>6
<1>6. CASE PurgeSelect(l)
    <2>1. /\ UNCHANGED <<woProcessed, woTimestamps, woResponses>> /\ lpc[l] = "purge_select"
          /\ lpc'[l] \in {"reply", "purge_unlist"}
          /\ lpc'[l] = "purge_unlist" => lfound'[l] = lfound[l]
        BY <1>0, <1>6 DEF PurgeSelect, ListenerTypeOK
    <2> QED BY <1>0, <1>1, <2>1 DEF ListedKeptInv
<1>7. CASE PurgeUnlist(l)
    <2> DEFINE i == lvictim[l]
    <2>1. /\ lpc[l] = "purge_unlist" /\ lpc'[l] = "purge_remove" /\ i \in WoIds
          /\ UNCHANGED <<woTimestamps, woResponses, lvictim>>
        BY <1>0, <1>7 DEF PurgeUnlist, ListenerTypeOK, ListenerFormed
    <2>2. PICK w \in Workers : <<i, w>> \in lfound[l] /\ woProcessed' = CsvSearchDelete(woProcessed, w, i)
        BY <1>7 DEF PurgeUnlist
    <2>3. i \in ToSet(woProcessed[w])
        BY <1>0, <2>1, <2>2 DEF ListedKeptInv
    <2>4. /\ woProcessed[w] \in Seq(WoIds) /\ Separate(woProcessed)
          /\ woProcessed'[w] = RemoveFirst(woProcessed[w], i)
          /\ \A v \in Workers \ {w} : woProcessed'[v] = woProcessed[v]
        BY <1>0, <2>2 DEF StoreTypeOK, CsvSearchDelete, ListedKeptInv
    <2> HIDE DEF i
    <2>5. /\ ToSet(woProcessed'[w]) \subseteq ToSet(woProcessed[w])
          /\ IsInjective(woProcessed'[w]) /\ i \notin ToSet(woProcessed'[w])
        BY <2>4, RemoveFirstProperties DEF Separate
    <2>6. \A v \in Workers : ToSet(woProcessed'[v]) \subseteq ToSet(woProcessed[v])
        BY <2>4, <2>5
    <2>7. \A v \in Workers : i \notin ToSet(woProcessed'[v])
        <3>1. \A v \in Workers \ {w} : i \notin ToSet(woProcessed[v])
            BY <2>3, <2>4 DEF Separate
        <3> QED BY <2>4, <2>5, <3>1
    <2>8. \A j : IsProcessed(j)' => IsProcessed(j)
        BY <2>6 DEF IsProcessed
    <2>9. Separate(woProcessed)'
        <3>1. ASSUME NEW v \in Workers PROVE IsInjective(woProcessed'[v])
            BY <2>4, <2>5 DEF Separate
        <3>2. ASSUME NEW v \in Workers, NEW u \in Workers, u # v
              PROVE  ToSet(woProcessed'[u]) \cap ToSet(woProcessed'[v]) = {}
            BY <2>4, <2>6, <3>2 DEF Separate
        <3> QED BY <3>1, <3>2 DEF Separate
    <2>10. lvictim'[l] = i /\ ~IsProcessed(lvictim[l])'
        BY <2>1, <2>7 DEF IsProcessed, i
    <2> QED BY <2>1, <2>8, <2>9, <2>10 DEF ListedKeptInv
<1>8. CASE PurgeRemove(l) \/ PurgeFinish(l)
    <2> DEFINE i == lvictim[l]
    <2>1. /\ lpc[l] = "purge_remove" /\ i \in WoIds /\ ~IsProcessed(i)
          /\ RemoveRecord(PurgeOrder[lstep[l]], i)
        BY <1>0, <1>8 DEF PurgeRemove, PurgeFinish, ListenerFormed, ListedKeptInv
    <2>2. /\ woProcessed' = woProcessed
          /\ lpc'[l] \in {"purge_remove", "check", "reply"}
          /\ lpc'[l] = "purge_remove" => lvictim'[l] = i
        <3>1. CASE PurgeRemove(l)
            BY <1>0, <3>1 DEF PurgeRemove, ListenerTypeOK
        <3>2. CASE PurgeFinish(l)
            BY <1>0, <3>2 DEF PurgeFinish, ListenerTypeOK
        <3> QED BY <1>8, <3>1, <3>2
    <2>3. \A j \in WoIds \ {i} : (j \in woTimestamps => j \in woTimestamps') /\ woResponses'[j] = woResponses[j]
        BY <1>0, <2>1 DEF RemoveRecord, StoreTypeOK
    <2> HIDE DEF i
    <2> QED BY <1>1, <2>1, <2>2, <2>3
<1>9. CASE SubmitCheck(l) \/ SubmitTimestamp(l) \/ SubmitRequest(l) \/ SubmitSchedule(l)
           \/ GetResultTimestamp(l) \/ ReceiptStore(l) \/ Reply(l) \/ ClientRequest(l)
    <2>1. /\ UNCHANGED <<woProcessed, woResponses>> /\ woTimestamps \subseteq woTimestamps'
          /\ lpc'[l] \notin {"purge_read", "purge_select", "purge_unlist", "purge_remove"}
        <3>1. CASE SubmitCheck(l) \/ SubmitTimestamp(l) \/ SubmitRequest(l) \/ SubmitSchedule(l)
                   \/ GetResultTimestamp(l) \/ ReceiptStore(l) \/ Reply(l)
            BY <1>0, <3>1 DEF SubmitCheck, SubmitTimestamp, SubmitRequest, SubmitSchedule,
               GetResultTimestamp, ReceiptStore, Reply, ListenerTypeOK
        <3>2. ASSUME NEW i \in WoIds, NEW w \in Workers, SubmitReceive(l, i, w)
              PROVE  UNCHANGED <<woProcessed, woResponses, woTimestamps>>
                     /\ lpc'[l] \in {"purge_pool", "check", "reply"}
            BY <1>0, <3>2 DEF SubmitReceive, ListenerTypeOK
        <3>3. ASSUME NEW i \in WoIds, GetResult(l, i) \/ ReceiptCreate(l, i)
              PROVE  UNCHANGED <<woProcessed, woResponses, woTimestamps>>
                     /\ lpc'[l] \in {"get_timestamp", "store_receipt", "reply"}
            BY <1>0, <3>3 DEF GetResult, ReceiptCreate, ListenerTypeOK
        <3> QED BY <1>9, <3>1, <3>2, <3>3 DEF ClientRequest
    <2> QED BY <1>1, <2>1
<1> QED BY <1>2, <1>3, <1>4, <1>5, <1>6, <1>7, <1>8, <1>9 DEF ListenerStep

(***************************************************************************)
(* A manager lists an order after its response is stored.                  *)
(***************************************************************************)
LEMMA ListedKeptByManager ==
    ASSUME TypeInv, PlacesInv, Undisturbed, Deathless, ListedKeptInv, NEW l, Listeners = {l},
           NEW m \in Managers, SingletonStep(m) \/ ManagerCrash(m), UNCHANGED listenerVars
    PROVE  ListedKeptInv'
<1> USE DEF MGoTo, storeVars, queueVars, orderVars, managerLocals, listenerVars, scanVars
<1>0. /\ l \in Listeners /\ StoreTypeOK /\ ManagerTypeOK /\ HandlerLocals(l) /\ ListenerFormed(l)
      /\ ManagerFormed(m) /\ m \in Workers /\ WorkerOf[m] = m /\ HandledAlone(m)
      /\ UNCHANGED <<lpc, lfound, lvictim>>
    BY SingletonAssumption DEF PlacesInv, TypeInv, TypeOK
<1>1. ASSUME UNCHANGED <<woProcessed, woTimestamps>>,
             \A i \in WoIds : IsProcessed(i) => woResponses'[i] = woResponses[i]
      PROVE  ListedKeptInv'
    BY <1>0, <1>1 DEF ListedKeptInv, IsProcessed, Separate
<1>2. CASE BootAddWorker(m) \/ JoinPool(m) \/ Pop(m) \/ ReadRequest(m) \/ MarkProcessing(m)
           \/ CleanupRead(m, "poll")
    BY <1>1, <1>2 DEF BootAddWorker, JoinPool, Pop, ReadRequest, MarkProcessing, CleanupRead
<1>3. CASE CleanupUnlist(m, "poll") \/ CleanupRemove(m) \/ ManagerRestart(m)
    BY <1>3 DEF CleanupUnlist, CleanupRemove, ManagerRestart, Undisturbed
<1>4. CASE EnclaveRaises(m) \/ ManagerCrash(m) \/ Execute(m) \/ UpdateReceipt(m) \/ ClearProcessing(m)
    BY <1>1, <1>4 DEF EnclaveRaises, ManagerCrash, Execute, UpdateReceipt, ClearProcessing
<1>5. CASE PersistResponse(m)
    <2>1. /\ mpc[m] = "persist" /\ UNCHANGED <<woProcessed, woTimestamps>>
          /\ \A i \in WoIds \ {mwo[m]} : woResponses'[i] = woResponses[i]
        BY <1>0, <1>5 DEF PersistResponse, StoreTypeOK
    <2>2. ~IsProcessed(mwo[m])
        BY <1>0, <2>1 DEF HandledAlone, Handling, Retired
    <2> QED BY <1>1, <2>1, <2>2
<1>6. CASE AppendProcessed(m)
    <2> DEFINE i == mwo[m]
    <2>1. /\ mpc[m] = "append" /\ i \in WoIds /\ UNCHANGED <<woTimestamps, woResponses>>
          /\ woProcessed'[m] = Append(woProcessed[m], i) /\ woProcessed[m] \in Seq(WoIds)
          /\ \A v \in Workers \ {m} : woProcessed'[v] = woProcessed[v]
        BY <1>0, <1>6 DEF AppendProcessed, CsvAppend, ManagerTypeOK, StoreTypeOK, ManagerFormed
    <2>2. i \in woTimestamps /\ woResponses[i] # 0 /\ ~Retired(i)
        BY <1>0, <2>1 DEF HandledAlone, Handling
    <2> HIDE DEF i
    <2>3. \A v \in Workers : i \notin ToSet(woProcessed[v])
        BY <2>2 DEF Retired, IsProcessed
    <2>4. /\ ToSet(woProcessed'[m]) = ToSet(woProcessed[m]) \cup {i}
          /\ IsInjective(woProcessed[m]) => IsInjective(woProcessed'[m])
        BY <1>0, <2>1, <2>3, AppendToSet, AppendDistinct
    <2>5. Separate(woProcessed)
        BY DEF ListedKeptInv
    <2>6. Separate(woProcessed)'
        <3>1. ASSUME NEW v \in Workers PROVE IsInjective(woProcessed'[v])
            BY <1>0, <2>1, <2>4, <2>5 DEF Separate
        <3>2. ASSUME NEW v \in Workers, NEW u \in Workers, u # v
              PROVE  ToSet(woProcessed'[u]) \cap ToSet(woProcessed'[v]) = {}
            <4>1. ToSet(woProcessed[u]) \cap ToSet(woProcessed[v]) = {}
                BY <2>5, <3>2 DEF Separate
            <4>2. CASE u = m
                BY <2>1, <2>3, <2>4, <3>2, <4>1, <4>2
            <4>3. CASE v = m
                BY <2>1, <2>3, <2>4, <3>2, <4>1, <4>3
            <4>4. CASE u # m /\ v # m
                BY <2>1, <4>1, <4>4
            <4> QED BY <4>2, <4>3, <4>4
        <3> QED BY <3>1, <3>2 DEF Separate
    <2>7. \A j : IsProcessed(j)' => IsProcessed(j) \/ j = i
        BY <1>0, <2>1, <2>4 DEF IsProcessed
    <2>8. \A v \in Workers : ToSet(woProcessed[v]) \subseteq ToSet(woProcessed'[v])
        BY <2>1, <2>4
    <2>9. lpc[l] = "purge_remove" => lvictim[l] # i
        <3>1. lpc[l] = "purge_remove" => lvictim[l] \in FoundIds(l) /\ Scanning(l)
            BY <1>0 DEF HandlerLocals, Scanning
        <3> QED BY <1>0, <2>2, <3>1 DEF Retired
    <2>10. \A f \in lfound[l] : f[2] \in Workers
        BY <1>0 DEF TypeInv, TypeOK, ListenerTypeOK
    <2>11. /\ lpc'[l] \in {"purge_read", "purge_select", "purge_unlist"} =>
                  \A f \in lfound'[l] : f[1] \in ToSet(woProcessed'[f[2]])
           /\ lpc'[l] = "purge_remove" => ~IsProcessed(lvictim[l])'
        BY <1>0, <2>7, <2>8, <2>9, <2>10 DEF ListedKeptInv
    <2> QED BY <2>1, <2>2, <2>6, <2>7, <2>11 DEF ListedKeptInv
<1> QED BY <1>2, <1>3, <1>4, <1>5, <1>6 DEF SingletonStep, ManagerStep

(***************************************************************************)
(* A submission that passes the existence check is safe from every purge   *)
(* and clean-up, in both ways of using the system.                         *)
(***************************************************************************)
LEMMA ReuseIsSafe ==
    ASSUME TypeInv, PlacesInv, NEW l, Listeners = {l},
           (OnceInv /\ RetiredRan) \/ (Undisturbed /\ ListedKeptInv)
    PROVE  ReuseSafe
<1> SUFFICES ASSUME lpc[l] = "check", lreq[l].id \notin woTimestamps, Retired(lreq[l].id)
             PROVE  FALSE
    BY DEF ReuseSafe
<1>1. lreq[l].id \in WoIds /\ ~Scanning(l)
    BY DEF TypeInv, ListenerFormed, Scanning
<1>2. CASE OnceInv /\ RetiredRan
    BY <1>1, <1>2 DEF OnceInv, RetiredRan, SubmissionAlone, InSubmission
<1>3. CASE Undisturbed /\ ListedKeptInv
    BY <1>1, <1>3 DEF Undisturbed, ListedKeptInv, Retired, ToSet
<1> QED BY <1>2, <1>3

-----------------------------------------------------------------------------
(* What the listener has promised                                          *)

\* Submission n of id i was answered with PENDING, or is about to be.
Promised(i, n) ==
    \/ <<i, n>> \in accepted
    \/ \E l \in Listeners : /\ lpc[l] = "reply" /\ lreply[l] = "SUBMITTED"
                            /\ lreq[l].id = i /\ lreq[l].num = n

\* A promised submission keeps its request until it is answered; until then
\* nothing retires its id and nothing else is promised under it.
PromiseKept(i, n) ==
    Promised(i, n) =>
        /\ n <= submits[i]
        /\ <<i, n>> \in answered \/ (i \in woTimestamps /\ woRequests[i] = n)
        /\ Retired(i) => <<i, n>> \in answered
        /\ \A k \in Nat : Promised(i, k) /\ n < k => <<i, n>> \in answered

\* A submission in progress is the last of its id, and the earlier ones that
\* were promised are answered by the time its records are created.
SubmissionLast(l) ==
    InSubmission(l) =>
        /\ lreq[l].num = submits[lreq[l].id]
        /\ \A n \in Nat :
               Promised(lreq[l].id, n) \/ <<lreq[l].id, n>> \in answered => n < lreq[l].num
        /\ lpc[l] # "schedule" => woRequests[lreq[l].id] < lreq[l].num
        /\ Creating(l) =>
               \A n \in Nat : Promised(lreq[l].id, n) => <<lreq[l].id, n>> \in answered

PromiseInv ==
    /\ \A i \in WoIds, n \in Nat : PromiseKept(i, n)
    /\ \A i \in WoIds, n \in Nat : <<i, n>> \in answered => n <= submits[i]
    /\ \A i \in WoIds : woRequests[i] <= submits[i]
    /\ \A m \in Managers : mpc[m] = "append" => <<mwo[m], mreq[m]>> \in answered
    /\ \A l \in Listeners : SubmissionLast(l)

(***************************************************************************)
(* Steps that promise nothing new, answer nothing, and take records from   *)
(* retired orders only.                                                    *)
(***************************************************************************)
LEMMA PromiseFrame ==
    ASSUME TypeInv, PlacesInv, PromiseInv, NEW l, Listeners = {l},
           UNCHANGED <<answered, submits>>,
           \A i \in WoIds, n \in Nat : Promised(i, n)' => Promised(i, n),
           \A i \in WoIds : Retired(i)' => Retired(i) \/ BeingListed(i),
           \A i \in WoIds : ~Retired(i) =>
               (i \in woTimestamps => i \in woTimestamps') /\ woRequests'[i] = woRequests[i],
           \A i \in WoIds : woRequests'[i] \in {0, woRequests[i]},
           \A m \in Managers : mpc'[m] = "append" =>
               mpc[m] = "append" /\ mwo'[m] = mwo[m] /\ mreq'[m] = mreq[m],
           InSubmission(l)' =>
               /\ InSubmission(l) /\ lreq'[l] = lreq[l]
               /\ Creating(l)' => Creating(l)
               /\ lpc[l] = "schedule" => lpc'[l] = "schedule"
    PROVE  PromiseInv'
<1>0. /\ \A i \in WoIds : submits[i] \in Nat /\ woRequests[i] \in Nat
      /\ InSubmission(l) => lreq[l].id \in WoIds /\ lreq[l].num \in Nat
    BY ListenerAssumption DEF TypeInv, TypeOK, StoreTypeOK, ListenerTypeOK, ListenerFormed, InSubmission
<1>1. ASSUME NEW i \in WoIds, NEW n \in Nat, Promised(i, n), BeingListed(i)
      PROVE  <<i, n>> \in answered
    <2>1. PICK m \in Managers : mpc[m] = "append" /\ mwo[m] = i
        BY <1>1 DEF BeingListed
    <2>2. <<i, mreq[m]>> \in answered /\ mreq[m] = woRequests[i]
        BY <2>1 DEF PromiseInv, PlacesInv, HandledAlone, Handling
    <2>3. PromiseKept(i, n)
        BY DEF PromiseInv
    <2> QED BY <1>1, <2>2, <2>3 DEF PromiseKept
<1>2. ASSUME NEW i \in WoIds, NEW n \in Nat PROVE PromiseKept(i, n)'
    <2> SUFFICES ASSUME Promised(i, n)' PROVE PromiseKept(i, n)'
        BY DEF PromiseKept
    <2>1. Promised(i, n) /\ PromiseKept(i, n)
        BY DEF PromiseInv
    <2>2. Retired(i)' => <<i, n>> \in answered
        BY <1>1, <2>1 DEF PromiseKept
    <2>3. <<i, n>> \in answered \/ (i \in woTimestamps' /\ woRequests'[i] = n)
        BY <2>1 DEF PromiseKept
    <2>4. \A k \in Nat : Promised(i, k)' /\ n < k => <<i, n>> \in answered
        BY <2>1 DEF PromiseKept
    <2>5. n <= submits'[i]
        BY <2>1 DEF PromiseKept
    <2> QED BY <2>2, <2>3, <2>4, <2>5 DEF PromiseKept
<1>3. ASSUME NEW i \in WoIds PROVE woRequests'[i] <= submits'[i]
    BY <1>0 DEF PromiseInv
<1>4. SubmissionLast(l)'
    <2> SUFFICES ASSUME InSubmission(l)' PROVE SubmissionLast(l)'
        BY DEF SubmissionLast
    <2>1. SubmissionLast(l) /\ InSubmission(l)
        BY DEF PromiseInv
    <2>2. lreq[l].id \in WoIds /\ lreq[l].num \in Nat /\ lreq'[l] = lreq[l]
        BY <1>0, <2>1
    <2>3. lpc'[l] # "schedule" => woRequests'[lreq[l].id] < lreq[l].num
        BY <1>0, <2>1, <2>2 DEF SubmissionLast
    <2>4. \A n \in Nat :
               Promised(lreq[l].id, n)' \/ <<lreq[l].id, n>> \in answered' => n < lreq[l].num
        <3>1. \A n \in Nat : Promised(lreq[l].id, n)' => Promised(lreq[l].id, n)
            BY <2>2 DEF Promised
        <3> QED BY <2>1, <3>1 DEF SubmissionLast
    <2>5. Creating(l)' =>
               \A n \in Nat : Promised(lreq[l].id, n)' => <<lreq[l].id, n>> \in answered
        <3>1. \A n \in Nat : Promised(lreq[l].id, n)' => Promised(lreq[l].id, n)
            BY <2>2 DEF Promised
        <3> QED BY <2>1, <3>1 DEF SubmissionLast
    <2>6. lreq[l].num = submits'[lreq[l].id]
        BY <2>1 DEF SubmissionLast
    <2> QED BY <2>2, <2>3, <2>4, <2>5, <2>6 DEF SubmissionLast
<1> QED BY <1>2, <1>3, <1>4 DEF PromiseInv

(***************************************************************************)
(* The creation of an order: when its submission is promised, its request  *)
(* is in the store and the earlier promises of the id are fulfilled.       *)
(***************************************************************************)
LEMMA PromiseSubmit ==
    ASSUME TypeInv, PlacesInv, ReuseSafe, PromiseInv, NEW l, Listeners = {l},
           SubmitCheck(l) \/ SubmitTimestamp(l) \/ SubmitRequest(l) \/ SubmitSchedule(l),
           UNCHANGED managerVars,
           \A i \in WoIds : Retired(i)' => Retired(i) \/ BeingListed(i)
    PROVE  PromiseInv'
<1> USE DEF GoTo, storeVars, queueVars, orderVars, managerVars, managerLocals, runVars,
            scanVars, clientVars, Answer
<1> DEFINE i == lreq[l].id
           n == lreq[l].num
<1>0. /\ l \in Listeners /\ StoreTypeOK /\ ListenerTypeOK /\ CreatedAlone(l)
      /\ i \in WoIds /\ n \in Nat /\ SubmissionLast(l) /\ InSubmission(l)
      /\ UNCHANGED <<answered, submits, accepted, lreq, mpc, mwo, mreq>>
      /\ lpc[l] \in {"check", "set_timestamp", "set_request", "schedule"}
    BY DEF PlacesInv, TypeInv, TypeOK, SubmitCheck, SubmitTimestamp, SubmitRequest,
           SubmitSchedule, ListenerFormed, ListenerTypeOK, InSubmission, PromiseInv
<1>1. ASSUME ~(lpc'[l] = "reply" /\ lreply'[l] = "SUBMITTED")
      PROVE  \A j, k : Promised(j, k)' => Promised(j, k)
    BY <1>0, <1>1 DEF Promised
<1>2. CASE SubmitTimestamp(l) \/ (SubmitCheck(l) /\ i \in woTimestamps)
    <2>1. /\ woTimestamps \subseteq woTimestamps' /\ woRequests' = woRequests
          /\ \/ lpc'[l] = "set_request" /\ lpc[l] = "set_timestamp"
             \/ lpc'[l] = "reply" /\ lreply'[l] = "EXISTS"
        <3>1. CASE SubmitTimestamp(l)
            BY <1>0, <3>1 DEF SubmitTimestamp, ListenerTypeOK
        <3>2. CASE SubmitCheck(l) /\ i \in woTimestamps
            BY <1>0, <3>2 DEF SubmitCheck, ListenerTypeOK
        <3> QED BY <1>2, <3>1, <3>2
    <2>2. \A j \in WoIds, k \in Nat : Promised(j, k)' => Promised(j, k)
        BY <1>1, <2>1
    <2>3. InSubmission(l)' => /\ InSubmission(l) /\ lreq'[l] = lreq[l]
                              /\ Creating(l)' => Creating(l)
                              /\ lpc[l] = "schedule" => lpc'[l] = "schedule"
        BY <1>0, <2>1 DEF InSubmission, Creating
    <2> QED BY <1>0, <2>1, <2>2, <2>3, PromiseFrame
<1>3. CASE SubmitCheck(l) /\ i \notin woTimestamps
    <2>1. UNCHANGED <<woTimestamps, woRequests>> /\ lpc'[l] = "set_timestamp" /\ lpc[l] = "check"
        BY <1>0, <1>3 DEF SubmitCheck, ListenerTypeOK
    <2>2. \A j, k : Promised(j, k)' => Promised(j, k)
        BY <1>1, <2>1
    <2> HIDE DEF i, n
    <2>3. ASSUME NEW k \in Nat, Promised(i, k) PROVE <<i, k>> \in answered
        BY <1>0, <1>3, <2>3 DEF PromiseInv, PromiseKept
    <2>4. SubmissionLast(l)'
        <3>1. \A k \in Nat : Promised(lreq[l].id, k)' => Promised(i, k)
            BY <1>0, <2>2 DEF i
        <3>2. InSubmission(l)' /\ lreq'[l] = lreq[l]
            BY <1>0, <2>1 DEF InSubmission
        <3>3. /\ \A k \in Nat : Promised(lreq[l].id, k)' \/ <<i, k>> \in answered => k < n
              /\ woRequests[i] < n /\ n = submits[i]
            BY <1>0, <2>1, <3>1 DEF SubmissionLast, i, n
        <3> QED BY <1>0, <2>1, <2>3, <3>1, <3>2, <3>3 DEF SubmissionLast, i, n
    <2>5. ASSUME NEW j \in WoIds, NEW k \in Nat PROVE PromiseKept(j, k)'
        <3> SUFFICES ASSUME Promised(j, k)' PROVE PromiseKept(j, k)'
            BY DEF PromiseKept
        <3>1. PromiseKept(j, k) /\ Promised(j, k)
            BY <2>2 DEF PromiseInv
        <3>2. Retired(j)' => <<j, k>> \in answered
            <4>1. ASSUME NEW m \in Managers, mpc[m] = "append", mwo[m] = j
                  PROVE  <<j, k>> \in answered
                <5>1. <<j, mreq[m]>> \in answered /\ mreq[m] = woRequests[j]
                    BY <4>1 DEF PromiseInv, PlacesInv, HandledAlone, Handling
                <5> QED BY <3>1, <5>1 DEF PromiseKept
            <4> QED BY <3>1, <4>1 DEF PromiseKept, BeingListed
        <3> QED BY <1>0, <2>1, <2>2, <3>1, <3>2 DEF PromiseKept
    <2> QED BY <1>0, <2>1, <2>4, <2>5 DEF PromiseInv
<1>4. CASE SubmitRequest(l) \/ SubmitSchedule(l)
    <2>1. /\ \/ lpc[l] = "set_request" /\ lpc'[l] = "schedule"
                /\ woRequests' = [woRequests EXCEPT ![i] = n]
             \/ lpc[l] = "schedule" /\ lpc'[l] = "reply" /\ lreply'[l] = "SUBMITTED"
                /\ woRequests' = woRequests
          /\ woTimestamps' = woTimestamps
        BY <1>0, <1>4 DEF SubmitRequest, SubmitSchedule, ListenerTypeOK
    <2>2. /\ ~Retired(i) /\ i \in woTimestamps /\ n = submits[i]
          /\ \A m \in Managers : Handling(m) => mwo[m] # i
          /\ \A k \in Nat : Promised(i, k) \/ <<i, k>> \in answered => k < n
          /\ \A k \in Nat : Promised(i, k) => <<i, k>> \in answered
          /\ lpc[l] = "schedule" => woRequests[i] = n
        BY <1>0, <2>1 DEF CreatedAlone, Creating, SubmissionLast
    <2>3. woRequests'[i] = n /\ \A j \in WoIds \ {i} : woRequests'[j] = woRequests[j]
        BY <1>0, <2>1, <2>2 DEF StoreTypeOK
    <2>4. \A j, k : Promised(j, k)' => Promised(j, k) \/ (lpc'[l] = "reply" /\ j = i /\ k = n)
        BY <1>0 DEF Promised
    <2> HIDE DEF i, n
    <2>5. ~Retired(i)' /\ ~BeingListed(i)
        BY <1>0, <2>2 DEF BeingListed, Handling, i
    <2>6. SubmissionLast(l)'
        <3>1. CASE lpc'[l] = "reply"
            BY <3>1 DEF SubmissionLast, InSubmission
        <3>2. CASE lpc'[l] # "reply"
            <4>1. \A k \in Nat : Promised(lreq[l].id, k)' => Promised(i, k)
                BY <1>0, <2>4, <3>2 DEF i
            <4> QED BY <1>0, <2>1, <2>2, <3>2, <4>1 DEF SubmissionLast, i, n
        <3> QED BY <3>1, <3>2
    <2>7. ASSUME NEW j \in WoIds, NEW k \in Nat PROVE PromiseKept(j, k)'
        <3> SUFFICES ASSUME Promised(j, k)' PROVE PromiseKept(j, k)'
            BY DEF PromiseKept
        <3>1. CASE j = i
            <4>1. Promised(i, k) \/ k = n
                BY <2>4, <3>1
            <4>2. <<j, k>> \in answered \/ k = n
                BY <2>2, <3>1, <4>1
            <4>3. ~Retired(j)'
                BY <2>5, <3>1, <1>0 DEF i
            <4>4. ASSUME NEW h \in Nat, Promised(j, h)', k < h PROVE <<j, k>> \in answered
                <5>1. h = n \/ h < n
                    BY <2>2, <2>4, <3>1, <4>4
                <5> QED BY <1>0, <4>2, <4>4, <5>1 DEF n
            <4>5. k <= submits'[j]
                <5>1. submits'[j] = n
                    BY <1>0, <2>2, <3>1
                <5>2. n \in Nat /\ (k < n \/ k = n)
                    BY <1>0, <2>2, <4>1
                <5>3. k <= n
                    BY <5>2
                <5> QED BY <5>1, <5>3
            <4> QED BY <1>0, <2>1, <2>2, <2>3, <3>1, <4>2, <4>3, <4>4, <4>5 DEF PromiseKept
        <3>2. CASE j # i
            <4>1. PromiseKept(j, k) /\ Promised(j, k)
                BY <2>4, <3>2 DEF PromiseInv
            <4>2. Retired(j)' => <<j, k>> \in answered
                <5>1. ASSUME NEW m \in Managers, mpc[m] = "append", mwo[m] = j
                      PROVE  <<j, k>> \in answered
                    <6>1. <<j, mreq[m]>> \in answered /\ mreq[m] = woRequests[j]
                        BY <5>1 DEF PromiseInv, PlacesInv, HandledAlone, Handling
                    <6> QED BY <4>1, <6>1 DEF PromiseKept
                <5> QED BY <4>1, <5>1 DEF PromiseKept, BeingListed
            <4>3. \A h \in Nat : Promised(j, h)' => Promised(j, h)
                BY <2>4, <3>2
            <4> QED BY <1>0, <2>1, <2>3, <3>2, <4>1, <4>2, <4>3 DEF PromiseKept
        <3> QED BY <3>1, <3>2
    <2>8. \A j \in WoIds : woRequests'[j] <= submits'[j]
        BY <1>0, <2>2, <2>3 DEF PromiseInv
    <2> QED BY <1>0, <2>6, <2>7, <2>8 DEF PromiseInv
<1> QED BY <1>2, <1>3, <1>4

(***************************************************************************)
(* The other steps of the listener.                                        *)
(***************************************************************************)
LEMMA PromiseListener ==
    ASSUME TypeInv, PlacesInv, ReuseSafe, PromiseInv, NEW l, Listeners = {l},
           ListenerStep(l) \/ ClientRequest(l), UNCHANGED managerVars,
           \A i \in WoIds : Retired(i)' => Retired(i) \/ BeingListed(i)
    PROVE  PromiseInv'
<1> USE DEF GoTo, storeVars, queueVars, orderVars, managerVars, managerLocals, runVars,
            scanVars, clientVars, Answer
<1>0. /\ l \in Listeners /\ StoreTypeOK /\ ListenerTypeOK /\ HandlerLocals(l) /\ ListenerFormed(l)
      /\ UNCHANGED <<answered, mpc, mwo, mreq>>
    BY DEF PlacesInv, TypeInv, TypeOK
<1>1. ASSUME UNCHANGED <<submits, accepted>>,
             lpc'[l] = "reply" => lreply'[l] # "SUBMITTED",
             \A i \in WoIds : ~Retired(i) =>
                 (i \in woTimestamps => i \in woTimestamps') /\ woRequests'[i] = woRequests[i],
             \A i \in WoIds : woRequests'[i] \in {0, woRequests[i]},
             InSubmission(l)' => InSubmission(l) /\ lreq'[l] = lreq[l] /\ ~Creating(l)' /\ ~Creating(l)
      PROVE  PromiseInv'
    <2>1. \A i \in WoIds, n \in Nat : Promised(i, n)' => Promised(i, n)
        BY <1>1 DEF Promised
    <2>2. InSubmission(l)' => /\ InSubmission(l) /\ lreq'[l] = lreq[l]
                              /\ Creating(l)' => Creating(l)
                              /\ lpc[l] = "schedule" => lpc'[l] = "schedule"
        BY <1>1 DEF Creating
    <2> QED BY <1>0, <1>1, <2>1, <2>2, PromiseFrame
<1>2. CASE BootLookup(l) \/ BootLookupPool(l) \/ BootRead(l) \/ BootKeep(l)
           \/ BootDiscard(l) \/ BootDone(l)
    <2>1. /\ UNCHANGED <<submits, accepted, woTimestamps, woRequests>>
          /\ lpc'[l] \in {"boot_pool", "boot_read", "boot_next", "boot_reap", "idle"}
        BY <1>0, <1>2 DEF BootLookup, BootLookupPool, BootRead, BootKeep, BootDiscard,
                          BootDone, ListenerTypeOK
    <2> QED BY <1>1, <2>1 DEF InSubmission
<1>3. CASE BootReap(l)
    <2>1. lpc[l] = "boot_reap"
        BY <1>3 DEF BootReap
    <2> QED BY <1>0, <2>1 DEF HandlerLocals
<1>4. CASE PurgeLookupPool(l) \/ PurgeRead(l) \/ PurgeUnlist(l) \/ PurgeSelect(l)
    <2>1. /\ UNCHANGED <<submits, accepted, woTimestamps, woRequests, lreq>>
          /\ lpc[l] \in {"purge_pool", "purge_read", "purge_unlist", "purge_select"}
          /\ lpc'[l] \in {"purge_read", "purge_unlist", "purge_select", "purge_remove", "reply"}
          /\ lpc'[l] = "reply" => lreply'[l] = "BUSY"
        <3>1. CASE PurgeLookupPool(l) \/ PurgeRead(l) \/ PurgeUnlist(l)
            BY <1>0, <3>1 DEF PurgeLookupPool, PurgeRead, PurgeUnlist, ListenerTypeOK
        <3>2. CASE PurgeSelect(l)
            BY <1>0, <3>2 DEF PurgeSelect, ListenerTypeOK
        <3> QED BY <1>4, <3>1, <3>2
    <2> QED BY <1>1, <2>1 DEF InSubmission, Creating
<1>5. CASE PurgeRemove(l) \/ PurgeFinish(l)
    <2> DEFINE i == lvictim[l]
    <2>1. /\ lpc[l] = "purge_remove" /\ i \in WoIds /\ i \in FoundIds(l)
          /\ RemoveRecord(PurgeOrder[lstep[l]], i)
          /\ UNCHANGED <<submits, accepted, lreq>>
        BY <1>0, <1>5 DEF PurgeRemove, PurgeFinish, ListenerFormed, HandlerLocals
    <2>2. /\ lpc'[l] \in {"purge_remove", "check", "reply"}
          /\ lpc'[l] = "reply" => lreply'[l] \in {"BUSY", "ERROR"}
        <3>1. CASE PurgeRemove(l)
            BY <1>0, <3>1 DEF PurgeRemove, ListenerTypeOK
        <3>2. CASE PurgeFinish(l)
            BY <1>0, <3>2 DEF PurgeFinish, ListenerTypeOK
        <3> QED BY <1>5, <3>1, <3>2
    <2>3. Retired(i)
        BY <1>0, <2>1 DEF Retired, Scanning
    <2>4. /\ \A j \in WoIds \ {i} : (j \in woTimestamps => j \in woTimestamps') /\ woRequests'[j] = woRequests[j]
          /\ woRequests'[i] \in {0, woRequests[i]}
        BY <1>0, <2>1 DEF RemoveRecord, StoreTypeOK
    <2> HIDE DEF i
    <2> QED BY <1>1, <2>1, <2>2, <2>3, <2>4 DEF InSubmission, Creating
<1>6. CASE GetResultTimestamp(l) \/ ReceiptStore(l)
    <2>1. /\ UNCHANGED <<submits, accepted, woTimestamps, woRequests>>
          /\ lpc'[l] = "reply" /\ lreply'[l] # "SUBMITTED"
        BY <1>0, <1>6 DEF GetResultTimestamp, ReceiptStore, ListenerTypeOK
    <2> QED BY <1>1, <2>1 DEF InSubmission
<1>7. CASE Reply(l)
    <2>1. /\ UNCHANGED <<submits, woTimestamps, woRequests>>
          /\ lpc[l] = "reply" /\ lpc'[l] = "idle"
          /\ accepted' = IF lreply[l] = "SUBMITTED"
                         THEN accepted \cup {<<lreq[l].id, lreq[l].num>>} ELSE accepted
        BY <1>0, <1>7 DEF Reply, ListenerTypeOK
    <2>2. \A i \in WoIds, n \in Nat : Promised(i, n)' => Promised(i, n)
        BY <1>0, <2>1 DEF Promised
    <2>3. ~InSubmission(l)'
        BY <2>1 DEF InSubmission
    <2> QED BY <1>0, <2>1, <2>2, <2>3, PromiseFrame
<1>8. CASE \E i \in WoIds : GetResult(l, i) \/ ReceiptCreate(l, i)
    <2>1. /\ UNCHANGED <<submits, accepted, woTimestamps, woRequests>>
          /\ lpc'[l] \in {"reply", "get_timestamp", "store_receipt"}
          /\ lpc'[l] = "reply" => lreply'[l] # "SUBMITTED"
        BY <1>0, <1>8 DEF GetResult, ReceiptCreate, ListenerTypeOK
    <2> QED BY <1>1, <2>1 DEF InSubmission
<1>9. ASSUME NEW i \in WoIds, NEW w \in Workers, SubmitReceive(l, i, w)
      PROVE  PromiseInv'
    <2>1. /\ UNCHANGED <<accepted, woTimestamps, woRequests>>
          /\ submits'[i] = submits[i] + 1 /\ \A j \in WoIds \ {i} : submits'[j] = submits[j]
          /\ \A j \in WoIds : submits[j] \in Nat /\ woRequests[j] \in Nat
          /\ lpc'[l] \in {"reply", "purge_pool", "check"}
          /\ lpc'[l] = "reply" => lreply'[l] # "SUBMITTED"
          /\ lreq'[l].id = i /\ lreq'[l].num = submits[i] + 1
        <3>1. \A j \in WoIds : submits[j] \in Nat /\ woRequests[j] \in Nat
            BY <1>0, ListenerAssumption DEF ListenerTypeOK, StoreTypeOK
        <3>2. submits'[i] = submits[i] + 1 /\ \A j \in WoIds \ {i} : submits'[j] = submits[j]
            BY <1>0, <1>9 DEF SubmitReceive, ListenerTypeOK
        <3>3. lreq'[l].id = i /\ lreq'[l].num = submits[i] + 1
            BY <1>0, <1>9 DEF SubmitReceive, ListenerTypeOK
        <3>4. /\ UNCHANGED <<accepted, woTimestamps, woRequests>>
              /\ lpc'[l] \in {"reply", "purge_pool", "check"}
              /\ lpc'[l] = "reply" => lreply'[l] # "SUBMITTED"
            BY <1>0, <1>9 DEF SubmitReceive, ListenerTypeOK
        <3> QED BY <3>1, <3>2, <3>3, <3>4
    <2>2. \A j, n : Promised(j, n)' => Promised(j, n)
        BY <1>0, <2>1 DEF Promised
    <2>3. ASSUME NEW j \in WoIds, NEW n \in Nat PROVE PromiseKept(j, n)'
        <3> SUFFICES ASSUME Promised(j, n)' PROVE PromiseKept(j, n)'
            BY DEF PromiseKept
        <3>1. PromiseKept(j, n) /\ Promised(j, n)
            BY <2>2 DEF PromiseInv
        <3>2. Retired(j)' => <<j, n>> \in answered
            <4>1. ASSUME NEW m \in Managers, mpc[m] = "append", mwo[m] = j
                  PROVE  <<j, n>> \in answered
                <5>1. <<j, mreq[m]>> \in answered /\ mreq[m] = woRequests[j]
                    BY <4>1 DEF PromiseInv, PlacesInv, HandledAlone, Handling
                <5> QED BY <3>1, <5>1 DEF PromiseKept
            <4> QED BY <3>1, <4>1 DEF PromiseKept, BeingListed
        <3>3. n <= submits'[j]
            BY <2>1, <3>1 DEF PromiseKept
        <3> QED BY <1>0, <2>1, <2>2, <3>1, <3>2, <3>3 DEF PromiseKept
    <2>4. /\ \A j \in WoIds, n \in Nat : <<j, n>> \in answered => n <= submits[j]
          /\ \A j \in WoIds : woRequests[j] <= submits[j]
        BY DEF PromiseInv
    <2>5. \A n \in Nat : Promised(i, n) => n <= submits[i]
        BY DEF PromiseInv, PromiseKept
    <2>6. SubmissionLast(l)'
        <3>1. ~Creating(l)'
            BY <2>1 DEF Creating
        <3>2. \A n \in Nat : Promised(lreq[l].id, n)' => Promised(i, n)
            BY <2>1, <2>2
        <3>3. \A n \in Nat : Promised(lreq[l].id, n)' \/ <<i, n>> \in answered => n < submits[i] + 1
            BY <2>1, <2>4, <2>5, <3>2
        <3> QED BY <1>0, <2>1, <2>4, <3>1, <3>3 DEF SubmissionLast
    <2>7. /\ \A j \in WoIds, n \in Nat : <<j, n>> \in answered' => n <= submits'[j]
          /\ \A j \in WoIds : woRequests'[j] <= submits'[j]
        BY <1>0, <2>1, <2>4
    <2> QED BY <1>0, <2>3, <2>6, <2>7 DEF PromiseInv
<1> QED BY <1>2, <1>3, <1>4, <1>5, <1>6, <1>7, <1>8, <1>9, PromiseSubmit DEF ListenerStep, ClientRequest

(***************************************************************************)
(* The steps of a manager: storing the response answers the submission     *)
(* whose request is in the store.                                          *)
(***************************************************************************)
LEMMA PromiseManager ==
    ASSUME TypeInv, PlacesInv, PromiseInv, NEW l, Listeners = {l}, NEW m \in Managers,
           SingletonStep(m) \/ ManagerCrash(m), UNCHANGED listenerVars,
           \A i \in WoIds : Retired(i)' => Retired(i) \/ BeingListed(i)
    PROVE  PromiseInv'
<1> USE DEF MGoTo, storeVars, queueVars, orderVars, managerLocals, runVars, listenerVars, clientVars
<1>0. /\ l \in Listeners /\ StoreTypeOK /\ ManagerTypeOK /\ ManagerFormed(m) /\ HandledAlone(m)
      /\ UNCHANGED <<lpc, lreq, lreply, submits, accepted>>
    BY DEF PlacesInv, TypeInv, TypeOK
<1>1. \A i, n : Promised(i, n)' <=> Promised(i, n)
    BY <1>0 DEF Promised
<1>2. /\ InSubmission(l)' <=> InSubmission(l)
      /\ Creating(l)' <=> Creating(l)
    BY <1>0 DEF InSubmission, Creating
<1>3. ASSUME answered' = answered,
             \A i \in WoIds : ~Retired(i) =>
                 (i \in woTimestamps => i \in woTimestamps') /\ woRequests'[i] = woRequests[i],
             \A i \in WoIds : woRequests'[i] \in {0, woRequests[i]},
             \A k \in Managers \ {m} : mpc'[k] = mpc[k] /\ mwo'[k] = mwo[k] /\ mreq'[k] = mreq[k],
             mpc'[m] # "append"
      PROVE  PromiseInv'
    <2>1. /\ \A i \in WoIds, n \in Nat : Promised(i, n)' => Promised(i, n)
          /\ \A k \in Managers : mpc'[k] = "append" =>
                 mpc[k] = "append" /\ mwo'[k] = mwo[k] /\ mreq'[k] = mreq[k]
          /\ InSubmission(l)' => /\ InSubmission(l) /\ lreq'[l] = lreq[l]
                                 /\ Creating(l)' => Creating(l)
                                 /\ lpc[l] = "schedule" => lpc'[l] = "schedule"
        BY <1>0, <1>1, <1>2, <1>3
    <2> QED BY <1>0, <1>3, <2>1, PromiseFrame
<1>4. CASE BootAddWorker(m) \/ JoinPool(m) \/ Pop(m) \/ ReadRequest(m) \/ MarkProcessing(m)
    <2>1. /\ UNCHANGED <<answered, woTimestamps, woRequests>> /\ mpc'[m] # "append"
          /\ \A k \in Managers \ {m} : mpc'[k] = mpc[k] /\ mwo'[k] = mwo[k] /\ mreq'[k] = mreq[k]
        BY <1>0, <1>4 DEF BootAddWorker, JoinPool, Pop, ReadRequest, MarkProcessing, ManagerTypeOK
    <2> QED BY <1>3, <2>1
<1>5. CASE CleanupRead(m, "poll") \/ CleanupUnlist(m, "poll") \/ ManagerRestart(m)
    <2>1. /\ UNCHANGED <<answered, woTimestamps, woRequests>> /\ mpc'[m] # "append"
          /\ \A k \in Managers \ {m} : mpc'[k] = mpc[k] /\ mwo'[k] = mwo[k] /\ mreq'[k] = mreq[k]
        BY <1>0, <1>5 DEF CleanupRead, CleanupUnlist, ManagerRestart, ManagerTypeOK
    <2> QED BY <1>3, <2>1
<1>6. CASE CleanupRemove(m)
    <2> DEFINE i == Head(mids[m])
    <2>1. /\ mpc[m] = "clean" /\ RemoveRecord(CleanupOrder[mstep[m]], i)
          /\ answered' = answered /\ mpc'[m] # "append"
          /\ \A k \in Managers \ {m} : mpc'[k] = mpc[k] /\ mwo'[k] = mwo[k] /\ mreq'[k] = mreq[k]
        BY <1>0, <1>6 DEF CleanupRemove, ManagerTypeOK
    <2>2. mids[m] \in Seq(WoIds) /\ mids[m] # <<>>
        BY <1>0, <2>1 DEF ManagerTypeOK, ManagerFormed
    <2>3. i \in WoIds /\ Retired(i)
        BY <2>2, PopProperties DEF Retired
    <2>4. /\ \A j \in WoIds \ {i} : (j \in woTimestamps => j \in woTimestamps') /\ woRequests'[j] = woRequests[j]
          /\ woRequests'[i] \in {0, woRequests[i]}
        BY <1>0, <2>1, <2>3 DEF RemoveRecord, StoreTypeOK
    <2> HIDE DEF i
    <2> QED BY <1>3, <2>1, <2>3, <2>4
<1>7. CASE EnclaveRaises(m) \/ ManagerCrash(m) \/ Execute(m) \/ UpdateReceipt(m)
    <2>1. /\ UNCHANGED <<answered, woTimestamps, woRequests>> /\ mpc'[m] # "append"
          /\ \A k \in Managers \ {m} : mpc'[k] = mpc[k] /\ mwo'[k] = mwo[k] /\ mreq'[k] = mreq[k]
        BY <1>0, <1>7 DEF EnclaveRaises, ManagerCrash, Execute, UpdateReceipt, Exit, ManagerTypeOK
    <2> QED BY <1>3, <2>1
<1>8. CASE AppendProcessed(m) \/ ClearProcessing(m)
    <2>1. /\ UNCHANGED <<answered, woTimestamps, woRequests>> /\ mpc'[m] # "append"
          /\ \A k \in Managers \ {m} : mpc'[k] = mpc[k] /\ mwo'[k] = mwo[k] /\ mreq'[k] = mreq[k]
        BY <1>0, <1>8 DEF AppendProcessed, ClearProcessing, ManagerTypeOK
    <2> QED BY <1>3, <2>1
<1>9. CASE PersistResponse(m)
    <2> DEFINE i == mwo[m]
               n == mreq[m]
    <2>1. /\ mpc[m] = "persist" /\ i \in WoIds /\ UNCHANGED <<woTimestamps, woRequests, mwo, mreq>>
          /\ answered' = answered \cup {<<i, n>>}
          /\ \A k \in Managers \ {m} : mpc'[k] = mpc[k]
        BY <1>0, <1>9 DEF PersistResponse, ManagerFormed, ManagerTypeOK
    <2>2. n = woRequests[i] /\ Handling(m) /\ ~Retired(i)
        BY <1>0, <2>1 DEF HandledAlone, Handling
    <2> HIDE DEF i, n
    <2>3. n <= submits[i]
        BY <2>1, <2>2 DEF PromiseInv
    <2>4. ASSUME NEW j \in WoIds, NEW k \in Nat PROVE PromiseKept(j, k)'
        <3> SUFFICES ASSUME Promised(j, k)' PROVE PromiseKept(j, k)'
            BY DEF PromiseKept
        <3>1. PromiseKept(j, k) /\ Promised(j, k)
            BY <1>1 DEF PromiseInv
        <3>2. Retired(j)' => <<j, k>> \in answered'
            <4>1. ASSUME NEW h \in Managers, mpc[h] = "append", mwo[h] = j
                  PROVE  <<j, k>> \in answered
                <5>1. <<j, mreq[h]>> \in answered /\ mreq[h] = woRequests[j]
                    BY <4>1 DEF PromiseInv, PlacesInv, HandledAlone, Handling
                <5> QED BY <3>1, <5>1 DEF PromiseKept
            <4> QED BY <2>1, <3>1, <4>1 DEF PromiseKept, BeingListed
        <3> QED BY <1>0, <1>1, <2>1, <3>1, <3>2 DEF PromiseKept
    <2>5. SubmissionLast(l)'
        <3> SUFFICES ASSUME InSubmission(l) PROVE SubmissionLast(l)'
            BY <1>2 DEF SubmissionLast
        <3>1. SubmissionLast(l) /\ CreatedAlone(l)
            BY <1>0 DEF PromiseInv, PlacesInv
        <3>2. lreq[l].id = i => lpc[l] # "schedule"
            BY <2>2, <3>1 DEF CreatedAlone, Creating, i
        <3>3. lreq[l].id = i => n < lreq[l].num
            BY <2>2, <3>1, <3>2 DEF SubmissionLast
        <3>4. \A k : Promised(lreq[l].id, k)' <=> Promised(lreq[l].id, k)
            BY <1>0, <1>1
        <3> QED BY <1>0, <1>2, <2>1, <3>1, <3>3, <3>4 DEF SubmissionLast
    <2>6. \A j \in WoIds, k \in Nat : <<j, k>> \in answered' => k <= submits'[j]
        BY <1>0, <2>1, <2>3 DEF PromiseInv
    <2>7. \A k \in Managers : mpc'[k] = "append" => <<mwo'[k], mreq'[k]>> \in answered'
        BY <2>1 DEF PromiseInv, i, n
    <2> QED BY <1>0, <2>1, <2>4, <2>5, <2>6, <2>7 DEF PromiseInv
<1> QED BY <1>4, <1>5, <1>6, <1>7, <1>8, <1>9 DEF SingletonStep, ManagerStep

-----------------------------------------------------------------------------
(* The listener is the only one and was not restarted                      *)

\* All of the above, as far as it depends on how the system is used.
OrderInv ==
    /\ TypeInv
    /\ MaxSubmits <= 1 => OnceInv
    /\ Deathless => Undisturbed
    /\ lrestarts = 0 =>
           /\ PlacesInv /\ PromiseInv
           /\ MaxSubmits <= 1 => RetiredRan
           /\ Deathless => ListedKeptInv

(***************************************************************************)
(* The empty system.                                                       *)
(***************************************************************************)
LEMMA InitOrder == Init => OrderInv
<1> SUFFICES ASSUME Init PROVE OrderInv
    OBVIOUS
<1>1. TypeInv /\ OnceInv /\ PlacesInv
    BY InitTypes, InitOnce, InitPlaces
<1>2. /\ \A l \in Listeners : lpc[l] = "boot"
      /\ \A m \in Managers : mpc[m] = "boot" /\ mids[m] = <<>>
      /\ \A i \in WoIds : woRequests[i] = 0 /\ submits[i] = 0
      /\ \A w \in Workers : woProcessed[w] = <<>>
      /\ woReceipts = {} /\ accepted = {} /\ answered = {}
    BY DEF Init, StoreInit, ListenerInit, ManagerInit
<1>3. \A i : ~IsProcessed(i) /\ ~Retired(i)
    BY <1>2 DEF IsProcessed, Retired, Scanning, ToSet
<1>4. RetiredRan /\ Undisturbed
    BY <1>2, <1>3, SingletonAssumption DEF RetiredRan, Undisturbed
<1>5. ListedKeptInv
    BY <1>2, <1>3 DEF ListedKeptInv, Separate, IsInjective, ToSet
<1>6. PromiseInv
    <2>1. \A i, n : ~Promised(i, n)
        BY <1>2 DEF Promised
    <2> QED BY <1>2, <2>1 DEF PromiseInv, PromiseKept, SubmissionLast, InSubmission
<1> QED BY <1>1, <1>4, <1>5, <1>6 DEF OrderInv

(***************************************************************************)
(* No step takes a restart back.                                           *)
(***************************************************************************)
LEMMA RestartsCount ==
    ASSUME TypeInv, [Next]_vars, lrestarts' = 0
    PROVE  lrestarts = 0
<1>1. lrestarts \in Nat
    BY ListenerAssumption DEF TypeInv, TypeOK, ListenerTypeOK
<1>2. CASE UNCHANGED lrestarts
    BY <1>2
<1>3. ASSUME NEW l \in Listeners, ListenerStep(l) \/ ClientRequest(l) \/ ListenerRestart(l)
      PROVE  lrestarts = 0
    <2>1. CASE BootLookup(l) \/ BootLookupPool(l) \/ BootRead(l) \/ BootKeep(l)
               \/ BootDiscard(l) \/ BootReap(l) \/ BootDone(l)
        BY <2>1 DEF BootLookup, BootLookupPool, BootRead, BootKeep, BootDiscard, BootReap, BootDone
    <2>2. CASE PurgeLookupPool(l) \/ PurgeRead(l) \/ PurgeSelect(l) \/ PurgeUnlist(l)
               \/ PurgeRemove(l) \/ PurgeFinish(l)
        BY <2>2 DEF PurgeLookupPool, PurgeRead, PurgeSelect, PurgeUnlist, PurgeRemove, PurgeFinish
    <2>3. CASE SubmitCheck(l) \/ SubmitTimestamp(l) \/ SubmitRequest(l) \/ SubmitSchedule(l)
               \/ GetResultTimestamp(l) \/ ReceiptStore(l) \/ Reply(l)
        BY <2>3 DEF SubmitCheck, SubmitTimestamp, SubmitRequest, SubmitSchedule,
               GetResultTimestamp, ReceiptStore, Reply
    <2>4. CASE ClientRequest(l)
        BY <2>4 DEF ClientRequest, SubmitReceive, GetResult, ReceiptCreate
    <2>5. CASE ListenerRestart(l)
        BY <1>1, <2>5 DEF ListenerRestart
    <2> QED BY <1>3, <2>1, <2>2, <2>3, <2>4, <2>5 DEF ListenerStep
<1> QED BY <1>2, <1>3 DEF Next, vars, listenerVars

(***************************************************************************)
(* The invariant is inductive when clients use an id once, or else when    *)
(* managers do not die.                                                    *)
(***************************************************************************)
LEMMA NextOrder ==
    ASSUME NEW l, Listeners = {l}, MaxSubmits <= 1 \/ Deathless
    PROVE  OrderInv /\ [Next]_vars => OrderInv'
<1> SUFFICES ASSUME OrderInv, [Next]_vars PROVE OrderInv'
    OBVIOUS
<1>1. TypeInv /\ TypeInv'
    BY NextTypes DEF OrderInv
<1>2. MaxSubmits <= 1 => OnceInv'
    BY NextOnce DEF OrderInv
<1>3. Deathless => Undisturbed'
    BY UndisturbedKept DEF OrderInv
<1>4. ASSUME lrestarts' = 0
      PROVE  /\ PlacesInv' /\ PromiseInv'
             /\ MaxSubmits <= 1 => RetiredRan'
             /\ Deathless => ListedKeptInv'
    <2>1. lrestarts = 0 /\ lrestarts' = lrestarts
        BY <1>1, <1>4, RestartsCount
    <2>2. /\ PlacesInv /\ PromiseInv
          /\ MaxSubmits <= 1 => OnceInv /\ RetiredRan
          /\ Deathless => Undisturbed /\ ListedKeptInv
        BY <2>1 DEF OrderInv
    <2>3. ReuseSafe
        BY <1>1, <2>2, ReuseIsSafe
    <2>4. PlacesInv'
        BY <1>1, <2>1, <2>2, <2>3, NextPlaces
    <2>5. MaxSubmits <= 1 => RetiredRan'
        BY <1>1, <2>1, <2>2, RetiredRanKept
    <2>6. \A i \in WoIds : Retired(i)' => Retired(i) \/ BeingListed(i)
        BY <1>1, <2>1, <2>2, RetiredByListing
    <2>7. CASE UNCHANGED vars
        <3>1. /\ UNCHANGED <<lpc, lreq, lreply, lfound, lvictim, submits, accepted, answered>>
              /\ UNCHANGED <<woTimestamps, woRequests, woResponses, woProcessed, mpc, mwo, mreq, mids>>
            BY <2>7 DEF vars, storeVars, orderVars, queueVars, listenerVars, scanVars, clientVars,
                        managerVars, managerLocals, runVars
        <3>2. \A i \in WoIds, n \in Nat : Promised(i, n)' => Promised(i, n)
            BY <3>1 DEF Promised
        <3>3. InSubmission(l)' => /\ InSubmission(l) /\ lreq'[l] = lreq[l]
                                  /\ Creating(l)' => Creating(l)
                                  /\ lpc[l] = "schedule" => lpc'[l] = "schedule"
            BY <3>1 DEF InSubmission, Creating
        <3>4. PromiseInv'
            BY <1>1, <2>2, <2>6, <3>1, <3>2, <3>3, PromiseFrame
        <3>5. Deathless => ListedKeptInv'
            BY <2>2, <3>1 DEF ListedKeptInv, Separate, IsProcessed
        <3> QED BY <2>4, <2>5, <3>4, <3>5
    <2>8. CASE (ListenerStep(l) \/ ClientRequest(l) \/ ListenerRestart(l)) /\ UNCHANGED managerVars
        <3>1. ~ListenerRestart(l)
            BY <1>1, <2>1, ListenerAssumption DEF ListenerRestart, TypeInv, TypeOK, ListenerTypeOK
        <3>2. PromiseInv'
            BY <1>1, <2>2, <2>3, <2>6, <2>8, <3>1, PromiseListener
        <3>3. Deathless => ListedKeptInv'
            BY <1>1, <2>2, <2>8, <3>1, ListedKeptByListener
        <3> QED BY <2>4, <2>5, <3>2, <3>3
    <2>9. ASSUME NEW m \in Managers, SingletonStep(m) \/ ManagerCrash(m), UNCHANGED listenerVars
          PROVE  PromiseInv' /\ (Deathless => ListedKeptInv')
        BY <1>1, <2>2, <2>6, <2>9, PromiseManager, ListedKeptByManager
    <2> QED BY <2>4, <2>5, <2>7, <2>8, <2>9 DEF Next
<1> QED BY <1>1, <1>2, <1>3, <1>4 DEF OrderInv

(***************************************************************************)
(* No orphan records: with one listener that is not restarted, every       *)
(* record and every queue entry belongs to an id of wo-timestamps, so the  *)
(* clean-ups can find it, whatever the managers do if clients use an id    *)
(* once, and if the managers live when clients reuse ids.                  *)
(***************************************************************************)
THEOREM OneListenerLeavesNoOrphans ==
    ASSUME NEW l, Listeners = {l}, MaxSubmits <= 1 \/ Deathless
    PROVE  Spec => []NoOrphanRecords
<1>1. OrderInv => NoOrphanRecords
    <2> SUFFICES ASSUME OrderInv, lrestarts = 0, NEW i \in WoIds,
                        woRequests[i] # 0 \/ woResponses[i] # 0 \/ IsScheduled(i)
                 PROVE  i \in woTimestamps
        BY DEF NoOrphanRecords
    <2>1. QueuedAlone(i) /\ RecordsMatch(i)
        BY DEF OrderInv, PlacesInv
    <2> QED BY <2>1 DEF QueuedAlone, RecordsMatch
<1>2. OrderInv /\ [Next]_vars => OrderInv'
    BY NextOrder
<1> QED BY <1>1, <1>2, InitOrder, PTL DEF Spec

(***************************************************************************)
(* A client that polls is never told that an id it was promised a result   *)
(* for is unknown: the request and the timestamp of an accepted submission *)
(* stay until its response is stored, through purges, crashes of managers  *)
(* and their clean-ups.                                                    *)
(***************************************************************************)
THEOREM OneListenerKnowsAccepted ==
    ASSUME NEW l, Listeners = {l}, MaxSubmits <= 1 \/ Deathless
    PROVE  Spec => []AcceptedOrderKnown
<1>1. OrderInv => AcceptedOrderKnown
    <2> SUFFICES ASSUME OrderInv, lrestarts = 0, NEW s \in accepted, s \notin answered
                 PROVE  s[1] \in woTimestamps /\ woRequests[s[1]] = s[2]
        BY DEF AcceptedOrderKnown
    <2>1. s = <<s[1], s[2]>> /\ s[1] \in WoIds /\ s[2] \in Nat
        BY DEF OrderInv, TypeInv, TypeOK, ListenerTypeOK
    <2>2. PromiseKept(s[1], s[2]) /\ Promised(s[1], s[2])
        BY <2>1 DEF OrderInv, PromiseInv, Promised
    <2> QED BY <2>1, <2>2 DEF PromiseKept
<1>2. OrderInv /\ [Next]_vars => OrderInv'
    BY NextOrder
<1> QED BY <1>1, <1>2, InitOrder, PTL DEF Spec

(***************************************************************************)
(* With a listener that is not restarted, the facts above hold throughout. *)
(***************************************************************************)
LEMMA NotRestarted ==
    ASSUME NeverRestarted, OrderInv
    PROVE  lrestarts = 0
BY DEF NeverRestarted, OrderInv, TypeInv, TypeOK, ListenerTypeOK

(***************************************************************************)
(* A stored response is the one to the stored request of its id, also when *)
(* the id is purged and used again while managers hold older orders.       *)
(***************************************************************************)
THEOREM OneListenerAnswersMatch ==
    ASSUME NEW l, Listeners = {l}, MaxSubmits <= 1 \/ Deathless, NeverRestarted
    PROVE  Spec => []ResponseAnswersRequest
<1>1. OrderInv => ResponseAnswersRequest
    BY NotRestarted DEF OrderInv, PlacesInv, RecordsMatch, ResponseAnswersRequest
<1>2. OrderInv /\ [Next]_vars => OrderInv'
    BY NextOrder
<1> QED BY <1>1, <1>2, InitOrder, PTL DEF Spec

(***************************************************************************)
(* An id is accepted again only once its earlier submission was answered.  *)
(***************************************************************************)
THEOREM OneListenerAcceptsOnce ==
    ASSUME NEW l, Listeners = {l}, MaxSubmits <= 1 \/ Deathless, NeverRestarted
    PROVE  Spec => []AcceptedOnce
<1>1. OrderInv => AcceptedOnce
    <2> SUFFICES ASSUME OrderInv, NEW s \in accepted, NEW t \in accepted, s[1] = t[1], s[2] < t[2]
                 PROVE  s \in answered
        BY DEF AcceptedOnce
    <2>1. /\ s = <<s[1], s[2]>> /\ s[1] \in WoIds /\ s[2] \in Nat
          /\ t = <<t[1], t[2]>> /\ t[2] \in Nat
        BY DEF OrderInv, TypeInv, TypeOK, ListenerTypeOK
    <2>2. PromiseKept(s[1], s[2]) /\ Promised(s[1], s[2]) /\ Promised(s[1], t[2])
        BY <2>1, NotRestarted DEF OrderInv, PromiseInv, Promised
    <2> QED BY <2>1, <2>2 DEF PromiseKept
<1>2. OrderInv /\ [Next]_vars => OrderInv'
    BY NextOrder
<1> QED BY <1>1, <1>2, InitOrder, PTL DEF Spec

-----------------------------------------------------------------------------
(* Managers that do not die serve every order                              *)

\* The places an order of the store can be in.
Placed(i) ==
    \/ \E l \in Listeners : Creating(l) /\ lreq[l].id = i
    \/ IsScheduled(i)
    \/ \E m \in Managers : Handling(m) /\ mwo[m] = i
    \/ IsProcessed(i)
    \/ \E l \in Listeners : lpc[l] = "purge_remove" /\ lvictim[l] = i

PlacedInv == \A i \in woTimestamps : Placed(i)

(***************************************************************************)
(* The listener leaves no order without a place.                           *)
(***************************************************************************)
LEMMA PlacedByListener ==
    ASSUME TypeInv, PlacesInv, PlacedInv, NEW l, Listeners = {l},
           ListenerStep(l) \/ ClientRequest(l), UNCHANGED managerVars
    PROVE  PlacedInv'
<1> USE DEF GoTo, storeVars, queueVars, orderVars, scanVars, managerVars, managerLocals, Answer
<1>0. /\ l \in Listeners /\ StoreTypeOK /\ ListenerTypeOK /\ HandlerLocals(l) /\ ListenerFormed(l)
      /\ UNCHANGED <<mpc, mwo>>
    BY DEF PlacesInv, TypeInv, TypeOK
<1>1. \A i : (\E m \in Managers : Handling(m) /\ mwo[m] = i)' <=> (\E m \in Managers : Handling(m) /\ mwo[m] = i)
    BY <1>0 DEF Handling
<1>2. ASSUME woTimestamps' \subseteq woTimestamps, UNCHANGED <<woScheduled, woProcessed>>,
             Creating(l) => Creating(l)' /\ lreq'[l] = lreq[l],
             lpc[l] = "purge_remove" =>
                 (lpc'[l] = "purge_remove" /\ lvictim'[l] = lvictim[l]) \/ lvictim[l] \notin woTimestamps'
      PROVE  PlacedInv'
    BY <1>0, <1>1, <1>2 DEF PlacedInv, Placed, IsScheduled, IsProcessed
<1>3. CASE BootLookup(l) \/ BootLookupPool(l) \/ BootRead(l) \/ BootKeep(l)
           \/ BootDiscard(l) \/ BootDone(l)
    <2>1. /\ UNCHANGED <<woTimestamps, woScheduled, woProcessed>>
          /\ lpc[l] \in {"boot", "boot_pool", "boot_read", "boot_next"}
        BY <1>3 DEF BootLookup, BootLookupPool, BootRead, BootKeep, BootDiscard, BootDone
    <2> QED BY <1>2, <2>1 DEF Creating
<1>4. CASE BootReap(l)
    <2>1. lpc[l] = "boot_reap"
        BY <1>4 DEF BootReap
    <2> QED BY <1>0, <2>1 DEF HandlerLocals
<1>5. CASE PurgeLookupPool(l) \/ PurgeRead(l) \/ PurgeSelect(l)
    <2>1. /\ UNCHANGED <<woTimestamps, woScheduled, woProcessed>>
          /\ lpc[l] \in {"purge_pool", "purge_read", "purge_select"}
        BY <1>5 DEF PurgeLookupPool, PurgeRead, PurgeSelect
    <2> QED BY <1>2, <2>1 DEF Creating
<1>6. CASE PurgeUnlist(l)
    <2> DEFINE i == lvictim[l]
    <2>1. /\ lpc[l] = "purge_unlist" /\ lpc'[l] = "purge_remove"
          /\ UNCHANGED <<woTimestamps, woScheduled, lvictim>>
        BY <1>0, <1>6 DEF PurgeUnlist, ListenerTypeOK
    <2>2. PICK w \in Workers : woProcessed' = CsvSearchDelete(woProcessed, w, i)
        BY <1>6 DEF PurgeUnlist
    <2>3. woProcessed[w] \in Seq(WoIds)
        BY <1>0 DEF StoreTypeOK
    <2>4. ToSet(woProcessed[w]) \ {i} \subseteq ToSet(RemoveFirst(woProcessed[w], i))
        BY <2>3, RemoveFirstProperties
    <2>5. \A v \in Workers : ToSet(woProcessed[v]) \ {i} \subseteq ToSet(woProcessed'[v])
        BY <1>0, <2>2, <2>4 DEF CsvSearchDelete, StoreTypeOK
    <2>6. \A j : IsProcessed(j) /\ j # i => IsProcessed(j)'
        BY <2>5 DEF IsProcessed
    <2>7. ASSUME NEW j \in woTimestamps PROVE Placed(j)'
        <3>1. CASE j = i
            BY <1>0, <2>1, <3>1 DEF Placed
        <3>2. CASE j # i
            <4>1. Placed(j) /\ ~Creating(l) /\ lpc[l] # "purge_remove"
                BY <2>1 DEF PlacedInv, Creating
            <4> QED BY <1>1, <2>1, <2>6, <3>2, <4>1 DEF Placed, IsScheduled
        <3> QED BY <3>1, <3>2
    <2> QED BY <2>1, <2>7 DEF PlacedInv
<1>7. CASE PurgeRemove(l) \/ PurgeFinish(l)
    <2>1. /\ lpc[l] = "purge_remove" /\ UNCHANGED <<woScheduled, woProcessed>>
          /\ lstep[l] \in 1..4 /\ lvictim[l] \in WoIds
          /\ RemoveRecord(PurgeOrder[lstep[l]], lvictim[l])
        BY <1>0, <1>7 DEF PurgeRemove, PurgeFinish, ListenerFormed
    <2>2. woTimestamps' \subseteq woTimestamps
        BY <2>1 DEF RemoveRecord
    <2>3. \/ lpc'[l] = "purge_remove" /\ lvictim'[l] = lvictim[l]
          \/ lvictim[l] \notin woTimestamps'
        <3>1. CASE PurgeRemove(l)
            BY <1>0, <3>1 DEF PurgeRemove, ListenerTypeOK
        <3>2. CASE PurgeFinish(l)
            BY <2>1, <3>2 DEF PurgeFinish, PurgeOrder, RemoveRecord
        <3> QED BY <1>7, <3>1, <3>2
    <2> QED BY <1>2, <2>1, <2>2, <2>3 DEF Creating
<1>8. CASE SubmitCheck(l) \/ SubmitRequest(l)
    <2>1. /\ UNCHANGED <<woTimestamps, woScheduled, woProcessed, lreq>>
          /\ \/ lpc[l] = "check"
             \/ lpc[l] = "set_request" /\ lpc'[l] = "schedule"
        BY <1>0, <1>8 DEF SubmitCheck, SubmitRequest, ListenerTypeOK
    <2> QED BY <1>2, <2>1 DEF Creating
<1>9. CASE SubmitTimestamp(l)
    <2>1. /\ UNCHANGED <<woScheduled, woProcessed, lreq>>
          /\ lpc[l] = "set_timestamp" /\ lpc'[l] = "set_request"
          /\ woTimestamps' = woTimestamps \cup {lreq[l].id}
        BY <1>0, <1>9 DEF SubmitTimestamp, ListenerTypeOK
    <2>2. Creating(l)' /\ Creating(l)
        BY <2>1 DEF Creating
    <2>3. ASSUME NEW j \in woTimestamps' PROVE Placed(j)'
        <3>1. CASE j = lreq[l].id
            BY <1>0, <2>1, <2>2, <3>1 DEF Placed
        <3>2. CASE j # lreq[l].id
            <4>1. Placed(j) /\ lpc[l] # "purge_remove"
                BY <2>1, <3>2 DEF PlacedInv
            <4> QED BY <1>0, <1>1, <2>1, <3>2, <4>1 DEF Placed, IsScheduled, IsProcessed
        <3> QED BY <3>1, <3>2
    <2> QED BY <2>3 DEF PlacedInv
<1>10. CASE SubmitSchedule(l)
    <2> DEFINE i == lreq[l].id
               w == lreq[l].worker
    <2>1. /\ lpc[l] = "schedule" /\ w \in Workers /\ i \in WoIds
          /\ UNCHANGED <<woTimestamps, woProcessed, lreq>>
          /\ woScheduled'[w] = Append(woScheduled[w], i)
          /\ \A v \in Workers \ {w} : woScheduled'[v] = woScheduled[v]
          /\ woScheduled[w] \in Seq(WoIds)
        BY <1>0, <1>10 DEF SubmitSchedule, CsvAppend, ListenerTypeOK, StoreTypeOK, ListenerFormed
    <2>2. ToSet(woScheduled'[w]) = ToSet(woScheduled[w]) \cup {i}
        BY <2>1, AppendToSet
    <2> HIDE DEF w, i
    <2>3. \A j : IsScheduled(j) \/ j = i => IsScheduled(j)'
        BY <2>1, <2>2 DEF IsScheduled
    <2>4. ASSUME NEW j \in woTimestamps PROVE Placed(j)'
        <3>1. CASE j = i
            BY <2>3, <3>1 DEF Placed
        <3>2. CASE j # i
            <4>1. Placed(j) /\ lpc[l] # "purge_remove"
                BY <2>1 DEF PlacedInv
            <4> QED BY <1>1, <2>1, <2>3, <3>2, <4>1 DEF Placed, IsProcessed, i
        <3> QED BY <3>1, <3>2
    <2> QED BY <2>1, <2>4 DEF PlacedInv
<1>11. CASE GetResultTimestamp(l) \/ ReceiptStore(l) \/ Reply(l) \/ ClientRequest(l)
    <2>1. /\ UNCHANGED <<woTimestamps, woScheduled, woProcessed>>
          /\ lpc[l] \in {"get_timestamp", "store_receipt", "reply", "idle"}
        <3>1. CASE GetResultTimestamp(l) \/ ReceiptStore(l) \/ Reply(l)
            BY <3>1 DEF GetResultTimestamp, ReceiptStore, Reply
        <3>2. CASE ClientRequest(l)
            BY <3>2 DEF ClientRequest, SubmitReceive, GetResult, ReceiptCreate
        <3> QED BY <1>11, <3>1, <3>2
    <2> QED BY <1>2, <2>1 DEF Creating
<1> QED BY <1>3, <1>4, <1>5, <1>6, <1>7, <1>8, <1>9, <1>10, <1>11 DEF ListenerStep

(***************************************************************************)
(* A manager that does not die takes an order from the queue to the list   *)
(* of processed ones.                                                      *)
(***************************************************************************)
LEMMA PlacedByManager ==
    ASSUME TypeInv, PlacesInv, Deathless, Undisturbed, PlacedInv, NEW l, Listeners = {l},
           NEW m \in Managers, SingletonStep(m) \/ ManagerCrash(m), UNCHANGED listenerVars
    PROVE  PlacedInv'
<1> USE DEF MGoTo, storeVars, queueVars, orderVars, managerLocals, listenerVars, scanVars
<1>0. /\ l \in Listeners /\ StoreTypeOK /\ ManagerTypeOK /\ ManagerFormed(m) /\ HandledAlone(m)
      /\ m \in Workers /\ WorkerOf[m] = m
      /\ UNCHANGED <<lpc, lreq, lvictim>>
    BY SingletonAssumption DEF PlacesInv, TypeInv, TypeOK
<1>1. /\ \A i : (\E k \in Listeners : Creating(k) /\ lreq[k].id = i) =>
                 (\E k \in Listeners : Creating(k) /\ lreq[k].id = i)'
      /\ \A i : (\E k \in Listeners : lpc[k] = "purge_remove" /\ lvictim[k] = i) =>
                 (\E k \in Listeners : lpc[k] = "purge_remove" /\ lvictim[k] = i)'
    BY <1>0 DEF Creating
<1>2. ASSUME woTimestamps' = woTimestamps,
             \A i \in WoIds : IsScheduled(i) \/ IsProcessed(i) \/ (\E k \in Managers : Handling(k) /\ mwo[k] = i)
                   => (IsScheduled(i) \/ IsProcessed(i) \/ \E k \in Managers : Handling(k) /\ mwo[k] = i)'
      PROVE  PlacedInv'
    <2>1. ASSUME NEW i \in woTimestamps PROVE Placed(i)'
        <3>1. i \in WoIds /\ Placed(i)
            BY <1>0 DEF PlacedInv, StoreTypeOK
        <3> QED BY <1>1, <1>2, <3>1 DEF Placed
    <2> QED BY <1>2, <2>1 DEF PlacedInv
<1>3. ASSUME UNCHANGED <<woTimestamps, woScheduled, woProcessed>>,
             \A k \in Managers : Handling(k) => Handling(k)' /\ mwo'[k] = mwo[k]
      PROVE  PlacedInv'
    <2>1. \A i : IsScheduled(i)' = IsScheduled(i) /\ IsProcessed(i)' = IsProcessed(i)
        BY <1>3 DEF IsScheduled, IsProcessed
    <2> QED BY <1>2, <1>3, <2>1
<1>4. CASE BootAddWorker(m) \/ JoinPool(m) \/ CleanupRead(m, "poll") \/ ClearProcessing(m)
    <2>1. /\ UNCHANGED <<woTimestamps, woScheduled, woProcessed>>
          /\ mpc[m] \in {"boot", "join", "clean_read", "clear"}
          /\ \A k \in Managers \ {m} : mpc'[k] = mpc[k] /\ mwo'[k] = mwo[k]
        BY <1>0, <1>4 DEF BootAddWorker, JoinPool, CleanupRead, ClearProcessing, ManagerTypeOK
    <2> QED BY <1>3, <2>1 DEF Handling
<1>5. CASE CleanupUnlist(m, "poll") \/ CleanupRemove(m) \/ ManagerRestart(m)
    BY <1>5 DEF CleanupUnlist, CleanupRemove, ManagerRestart, Undisturbed
<1>6. CASE EnclaveRaises(m) \/ ManagerCrash(m)
    BY <1>0, <1>6 DEF EnclaveRaises, ManagerCrash, Deathless, ManagerTypeOK
<1>7. CASE ReadRequest(m) \/ MarkProcessing(m) \/ Execute(m) \/ UpdateReceipt(m) \/ PersistResponse(m)
    <2>1. mpc[m] = "read" => woRequests[mwo[m]] # 0
        BY <1>0 DEF HandledAlone, Handling
    <2>2. /\ UNCHANGED <<woTimestamps, woScheduled, woProcessed, mwo>>
          /\ mpc'[m] \in {"mark", "execute", "receipt", "persist", "append"}
          /\ \A k \in Managers \ {m} : mpc'[k] = mpc[k]
        BY <1>0, <1>7, <2>1 DEF ReadRequest, MarkProcessing, Execute, UpdateReceipt, PersistResponse,
               ManagerTypeOK, Undisturbed
    <2> QED BY <1>3, <2>2 DEF Handling
<1>8. CASE Pop(m)
    <2> DEFINE i == Head(woScheduled[m])
    <2>1. /\ mpc[m] = "poll" /\ mpc'[m] = "read" /\ mwo'[m] = i
          /\ \A k \in Managers \ {m} : mpc'[k] = mpc[k] /\ mwo'[k] = mwo[k]
          /\ UNCHANGED <<woTimestamps, woProcessed>>
          /\ woScheduled[m] \in Seq(WoIds) /\ woScheduled[m] # <<>>
          /\ woScheduled'[m] = Tail(woScheduled[m])
          /\ \A v \in Workers \ {m} : woScheduled'[v] = woScheduled[v]
        BY <1>0, <1>8 DEF Pop, CsvPop, ManagerTypeOK, StoreTypeOK
    <2>2. ToSet(woScheduled[m]) = ToSet(woScheduled'[m]) \cup {i}
        BY <2>1, PopProperties
    <2> HIDE DEF i
    <2>3. \A j : IsScheduled(j) => IsScheduled(j)' \/ j = i
        BY <2>1, <2>2 DEF IsScheduled
    <2>4. /\ \A k \in Managers : Handling(k) => Handling(k)' /\ mwo'[k] = mwo[k]
          /\ Handling(m)'
        BY <2>1 DEF Handling
    <2>5. \A j : IsProcessed(j)' = IsProcessed(j)
        BY <2>1 DEF IsProcessed
    <2> QED BY <1>2, <2>1, <2>3, <2>4, <2>5
<1>9. CASE AppendProcessed(m)
    <2> DEFINE i == mwo[m]
    <2>1. /\ mpc[m] = "append" /\ i \in WoIds /\ UNCHANGED <<woTimestamps, woScheduled, mwo>>
          /\ woProcessed'[m] = Append(woProcessed[m], i) /\ woProcessed[m] \in Seq(WoIds)
          /\ \A v \in Workers \ {m} : woProcessed'[v] = woProcessed[v]
          /\ \A k \in Managers \ {m} : mpc'[k] = mpc[k]
        BY <1>0, <1>9 DEF AppendProcessed, CsvAppend, ManagerTypeOK, StoreTypeOK, ManagerFormed
    <2>2. ToSet(woProcessed'[m]) = ToSet(woProcessed[m]) \cup {i}
        BY <2>1, AppendToSet
    <2>3. \A j : IsProcessed(j) \/ j = i => IsProcessed(j)'
        BY <1>0, <2>1, <2>2 DEF IsProcessed
    <2>4. \A j : IsScheduled(j)' = IsScheduled(j)
        BY <2>1 DEF IsScheduled
    <2>5. \A k \in Managers : Handling(k) => Handling(k)' \/ mwo[k] = i
        BY <2>1 DEF Handling
    <2> QED BY <1>2, <2>1, <2>3, <2>4, <2>5
<1> QED BY <1>4, <1>5, <1>6, <1>7, <1>8, <1>9 DEF SingletonStep, ManagerStep

\* With managers that do not die, every order of the store has its place.
ServedInv == OrderInv /\ PlacedInv

(***************************************************************************)
(* The orders keep their places.                                           *)
(***************************************************************************)
LEMMA NextServed ==
    ASSUME NEW l, Listeners = {l}, Deathless, NeverRestarted
    PROVE  ServedInv /\ [Next]_vars => ServedInv'
<1> USE DEF ServedInv
<1> SUFFICES ASSUME ServedInv, [Next]_vars PROVE ServedInv'
    OBVIOUS
<1>1. OrderInv'
    BY NextOrder
<1>2. /\ TypeInv /\ PlacesInv /\ Undisturbed
    BY NotRestarted DEF OrderInv
<1>3. lrestarts' = 0
    BY <1>1 DEF NeverRestarted, OrderInv, TypeInv, TypeOK, ListenerTypeOK
<1>4. CASE UNCHANGED vars
    <2>1. UNCHANGED <<woTimestamps, lpc, lreq, lvictim, woScheduled, woProcessed, mpc, mwo>>
        BY <1>4 DEF vars, storeVars, orderVars, queueVars, listenerVars, scanVars,
                    managerVars, managerLocals
    <2>2. \A i : Placed(i)' <=> Placed(i)
        BY <2>1 DEF Placed, Creating, IsScheduled, Handling, IsProcessed
    <2> QED BY <1>1, <2>1, <2>2 DEF PlacedInv
<1>5. CASE (ListenerStep(l) \/ ClientRequest(l) \/ ListenerRestart(l)) /\ UNCHANGED managerVars
    <2>1. ~ListenerRestart(l)
        BY <1>3, NotRestarted DEF ListenerRestart
    <2> QED BY <1>1, <1>2, <1>5, <2>1, PlacedByListener
<1>6. ASSUME NEW m \in Managers, SingletonStep(m) \/ ManagerCrash(m), UNCHANGED listenerVars
      PROVE  PlacedInv'
    BY <1>2, <1>6, PlacedByManager
<1> QED BY <1>1, <1>4, <1>5, <1>6 DEF Next

(***************************************************************************)
(* No accepted order is lost: with one listener that is not restarted and  *)
(* managers that do not die, a submission answered with PENDING is         *)
(* answered, or its request is in the store and queued or held.            *)
(***************************************************************************)
THEOREM OneListenerLosesNothing ==
    ASSUME NEW l, Listeners = {l}, Deathless, NeverRestarted
    PROVE  Spec => []NoAcceptedOrderLost
<1> USE DEF ServedInv
<1>1. Init => ServedInv
    BY InitOrder DEF Init, StoreInit, PlacedInv
<1>2. ServedInv /\ [Next]_vars => ServedInv'
    BY NextServed
<1>3. ServedInv => NoAcceptedOrderLost
    <2> SUFFICES ASSUME ServedInv, NEW s \in accepted, s \notin answered
                 PROVE  woRequests[s[1]] = s[2] /\ (IsScheduled(s[1]) \/ IsHeld(s[1]))
        BY DEF NoAcceptedOrderLost
    <2>1. s = <<s[1], s[2]>> /\ s[1] \in WoIds /\ s[2] \in Nat
        BY DEF OrderInv, TypeInv, TypeOK, ListenerTypeOK
    <2>2. lrestarts = 0 /\ PlacesInv /\ PromiseInv
        BY NotRestarted DEF OrderInv
    <2>3. PromiseKept(s[1], s[2]) /\ Promised(s[1], s[2])
        BY <2>1, <2>2 DEF PromiseInv, Promised
    <2>4. woRequests[s[1]] = s[2] /\ s[1] \in woTimestamps /\ ~Retired(s[1])
        BY <2>1, <2>3 DEF PromiseKept
    <2>5. Placed(s[1])
        BY <2>4 DEF PlacedInv
    <2>6. ~IsProcessed(s[1])
        BY <2>4 DEF Retired
    <2>7. ~(lpc[l] = "purge_remove" /\ lvictim[l] = s[1])
        BY <2>2, <2>4 DEF PlacesInv, HandlerLocals, Retired, Scanning
    <2>8. ~(Creating(l) /\ lreq[l].id = s[1])
        BY <2>1, <2>2, <2>3 DEF PromiseInv, SubmissionLast, Creating, InSubmission
    <2> QED BY <2>4, <2>5, <2>6, <2>7, <2>8 DEF Placed, IsHeld
<1> QED BY <1>1, <1>2, <1>3, PTL DEF Spec

\* A manager or a queue has the order and its response is not stored yet.
Unanswered(i) ==
    \/ IsScheduled(i)
    \/ \E m \in Managers : Handling(m) /\ mpc[m] # "append" /\ mwo[m] = i

\* The last accepted submission of the id was not handed out yet.
LatestDue(i) ==
    \A n \in Nat :
        <<i, n>> \in accepted /\ (\A k \in Nat : <<i, k>> \in accepted => k <= n)
            => <<i, n>> \notin delivered

\* A result that is handed out is the one stored, and an id reported as yet to
\* be processed has its last submission unanswered.
ReportTrue(l) ==
    /\ lpc[l] = "reply" /\ lreply[l] = "RESULT" => <<lreq[l].id, lreq[l].num>> \in answered
    /\ lpc[l] = "get_timestamp" /\ lreq[l].id \in woTimestamps => LatestDue(lreq[l].id)
    /\ lpc[l] = "reply" /\ lreply[l] = "PENDING" => LatestDue(lreq[l].id)

ResultInv ==
    /\ delivered \subseteq answered
    /\ \A i \in WoIds : woResponses[i] # 0 => <<i, woResponses[i]>> \in answered
    /\ \A i \in WoIds : Unanswered(i) =>
           <<i, woRequests[i]>> \notin answered /\ Promised(i, woRequests[i])
    /\ \A l \in Listeners : ReportTrue(l)

(***************************************************************************)
(* Steps that hand out nothing, answer nothing and queue nothing.          *)
(***************************************************************************)
LEMMA ResultFrame ==
    ASSUME TypeInv, PlacesInv, ResultInv, NEW l, Listeners = {l},
           UNCHANGED <<answered, delivered>>,
           \A i \in WoIds : Unanswered(i)' => Unanswered(i),
           \A i \in WoIds : Unanswered(i) => woRequests'[i] = woRequests[i],
           \A i \in WoIds : woResponses'[i] \in {0, woResponses[i]},
           \A i \in WoIds, n \in Nat : Promised(i, n) => Promised(i, n)',
           ReportTrue(l)'
    PROVE  ResultInv'
<1>1. \A i \in WoIds : woRequests[i] \in Nat
    BY DEF TypeInv, TypeOK, StoreTypeOK
<1>2. ASSUME NEW i \in WoIds, Unanswered(i)'
      PROVE  <<i, woRequests'[i]>> \notin answered' /\ Promised(i, woRequests[i])'
    <2>1. Unanswered(i) /\ woRequests'[i] = woRequests[i]
        BY <1>2
    <2>2. <<i, woRequests[i]>> \notin answered /\ Promised(i, woRequests[i])
        BY <2>1 DEF ResultInv
    <2>3. Promised(i, woRequests[i])'
        <3>1. \A n \in Nat : Promised(i, n) => Promised(i, n)'
            OBVIOUS
        <3>2. PICK n \in Nat : n = woRequests[i]
            BY <1>1
        <3>3. Promised(i, n)'
            BY <2>2, <3>1, <3>2
        <3> QED BY <2>1, <3>2, <3>3 DEF Promised
    <2> QED BY <2>1, <2>2, <2>3
<1> QED BY <1>2 DEF ResultInv

(***************************************************************************)
(* An unanswered order is not retired and not being created.               *)
(***************************************************************************)
LEMMA UnansweredAlone ==
    ASSUME TypeInv, PlacesInv, NEW l, Listeners = {l}, NEW i \in WoIds, Unanswered(i)
    PROVE  ~Retired(i) /\ ~(Creating(l) /\ lreq[l].id = i)
BY DEF PlacesInv, Unanswered, QueuedAlone, HandledAlone, CreatedAlone

(***************************************************************************)
(* What the listener hands out and reports.                                *)
(***************************************************************************)
LEMMA ResultByListener ==
    ASSUME TypeInv, PlacesInv, PromiseInv, ListedKeptInv, PlacedInv, ResultInv,
           NEW l, Listeners = {l},
           ListenerStep(l) \/ ClientRequest(l), UNCHANGED managerVars
    PROVE  ResultInv'
<1> USE DEF GoTo, storeVars, queueVars, orderVars, scanVars, managerVars, managerLocals, runVars,
            clientVars, Answer
<1>0. /\ l \in Listeners /\ StoreTypeOK /\ ListenerTypeOK /\ HandlerLocals(l) /\ ListenerFormed(l)
      /\ ReportTrue(l) /\ UNCHANGED <<mpc, mwo, answered>>
    BY DEF PlacesInv, TypeInv, TypeOK, ResultInv
<1>1. ASSUME woScheduled' = woScheduled PROVE \A i : Unanswered(i)' <=> Unanswered(i)
    BY <1>0, <1>1 DEF Unanswered, IsScheduled, Handling
<1>2. ASSUME UNCHANGED <<delivered, accepted, woScheduled>>,
             \A i \in WoIds : ~Retired(i) => woRequests'[i] = woRequests[i],
             \A i \in WoIds : woResponses'[i] \in {0, woResponses[i]},
             lpc[l] # "reply",
             lpc'[l] = "reply" => lreply'[l] \notin {"RESULT", "PENDING"},
             lpc'[l] # "get_timestamp"
      PROVE  ResultInv'
    <2>1. \A i \in WoIds : Unanswered(i) => woRequests'[i] = woRequests[i]
        BY <1>2, UnansweredAlone
    <2>2. \A i \in WoIds, n \in Nat : Promised(i, n) => Promised(i, n)'
        BY <1>0, <1>2 DEF Promised
    <2>3. ReportTrue(l)'
        BY <1>2 DEF ReportTrue
    <2> QED BY <1>0, <1>1, <1>2, <2>1, <2>2, <2>3, ResultFrame
<1>3. CASE BootLookup(l) \/ BootLookupPool(l) \/ BootRead(l) \/ BootKeep(l)
           \/ BootDiscard(l) \/ BootDone(l)
    <2>1. /\ UNCHANGED <<delivered, accepted, woScheduled, woRequests, woResponses>>
          /\ lpc[l] \in {"boot", "boot_pool", "boot_read", "boot_next"}
          /\ lpc'[l] \in {"boot_pool", "boot_read", "boot_next", "boot_reap", "idle"}
        BY <1>0, <1>3 DEF BootLookup, BootLookupPool, BootRead, BootKeep, BootDiscard,
                          BootDone, ListenerTypeOK
    <2> QED BY <1>2, <2>1
<1>4. CASE BootReap(l)
    <2>1. lpc[l] = "boot_reap"
        BY <1>4 DEF BootReap
    <2> QED BY <1>0, <2>1 DEF HandlerLocals
<1>5. CASE PurgeLookupPool(l) \/ PurgeRead(l) \/ PurgeUnlist(l) \/ PurgeSelect(l)
    <2>1. /\ UNCHANGED <<delivered, accepted, woScheduled, woRequests, woResponses>>
          /\ lpc[l] \in {"purge_pool", "purge_read", "purge_unlist", "purge_select"}
          /\ lpc'[l] \in {"purge_read", "purge_unlist", "purge_select", "purge_remove", "reply"}
          /\ lpc'[l] = "reply" => lreply'[l] = "BUSY"
        <3>1. CASE PurgeLookupPool(l) \/ PurgeRead(l) \/ PurgeUnlist(l)
            BY <1>0, <3>1 DEF PurgeLookupPool, PurgeRead, PurgeUnlist, ListenerTypeOK
        <3>2. CASE PurgeSelect(l)
            BY <1>0, <3>2 DEF PurgeSelect, ListenerTypeOK
        <3> QED BY <1>5, <3>1, <3>2
    <2> QED BY <1>2, <2>1
<1>6. CASE PurgeRemove(l) \/ PurgeFinish(l)
    <2> DEFINE i == lvictim[l]
    <2>1. /\ lpc[l] = "purge_remove" /\ i \in WoIds /\ i \in FoundIds(l)
          /\ RemoveRecord(PurgeOrder[lstep[l]], i)
          /\ UNCHANGED <<delivered, accepted, woScheduled>>
        BY <1>0, <1>6 DEF PurgeRemove, PurgeFinish, ListenerFormed, HandlerLocals
    <2>2. /\ lpc'[l] \in {"purge_remove", "check", "reply"}
          /\ lpc'[l] = "reply" => lreply'[l] \in {"BUSY", "ERROR"}
        <3>1. CASE PurgeRemove(l)
            BY <1>0, <3>1 DEF PurgeRemove, ListenerTypeOK
        <3>2. CASE PurgeFinish(l)
            BY <1>0, <3>2 DEF PurgeFinish, ListenerTypeOK
        <3> QED BY <1>6, <3>1, <3>2
    <2>3. Retired(i)
        BY <1>0, <2>1 DEF Retired, Scanning
    <2>4. /\ \A j \in WoIds \ {i} : woRequests'[j] = woRequests[j]
          /\ \A j \in WoIds : woResponses'[j] \in {0, woResponses[j]}
        BY <1>0, <2>1 DEF RemoveRecord, StoreTypeOK
    <2> HIDE DEF i
    <2> QED BY <1>2, <2>1, <2>2, <2>3, <2>4
<1>7. CASE SubmitCheck(l) \/ SubmitTimestamp(l)
    <2>1. /\ UNCHANGED <<delivered, accepted, woScheduled, woRequests, woResponses>>
          /\ lpc[l] # "reply" /\ lpc'[l] \in {"set_timestamp", "set_request", "reply"}
          /\ lpc'[l] = "reply" => lreply'[l] = "EXISTS"
        <3>1. CASE SubmitCheck(l)
            BY <1>0, <3>1 DEF SubmitCheck, ListenerTypeOK
        <3>2. CASE SubmitTimestamp(l)
            BY <1>0, <3>2 DEF SubmitTimestamp, ListenerTypeOK
        <3> QED BY <1>7, <3>1, <3>2
    <2> QED BY <1>2, <2>1
<1>8. CASE SubmitRequest(l)
    <2>1. /\ UNCHANGED <<delivered, accepted, woScheduled, woResponses>>
          /\ lpc[l] = "set_request" /\ lpc'[l] = "schedule"
          /\ \A i \in WoIds \ {lreq[l].id} : woRequests'[i] = woRequests[i]
        BY <1>0, <1>8 DEF SubmitRequest, ListenerTypeOK, StoreTypeOK
    <2>2. \A i \in WoIds : Unanswered(i) => woRequests'[i] = woRequests[i]
        <3>1. Creating(l)
            BY <2>1 DEF Creating
        <3> QED BY <2>1, <3>1, UnansweredAlone
    <2>3. \A i \in WoIds, n \in Nat : Promised(i, n) => Promised(i, n)'
        BY <1>0, <2>1 DEF Promised
    <2>4. ReportTrue(l)'
        BY <2>1 DEF ReportTrue
    <2> QED BY <1>0, <1>1, <2>1, <2>2, <2>3, <2>4, ResultFrame
<1>9. CASE SubmitSchedule(l)
    <2> DEFINE i == lreq[l].id
               w == lreq[l].worker
    <2>1. /\ lpc[l] = "schedule" /\ lpc'[l] = "reply" /\ lreply'[l] = "SUBMITTED"
          /\ w \in Workers /\ i \in WoIds
          /\ UNCHANGED <<delivered, accepted, woRequests, woResponses, lreq>>
          /\ woScheduled'[w] = Append(woScheduled[w], i)
          /\ \A v \in Workers \ {w} : woScheduled'[v] = woScheduled[v]
          /\ woScheduled[w] \in Seq(WoIds)
        BY <1>0, <1>9 DEF SubmitSchedule, CsvAppend, ListenerTypeOK, StoreTypeOK, ListenerFormed
    <2>2. ToSet(woScheduled'[w]) = ToSet(woScheduled[w]) \cup {i}
        BY <2>1, AppendToSet
    <2>3. woRequests[i] = lreq[l].num /\ woRequests[i] \in Nat
        BY <1>0, <2>1 DEF PlacesInv, CreatedAlone, Creating, StoreTypeOK
    <2>4. \A n \in Nat : <<i, n>> \in answered => n < lreq[l].num
        BY <1>0, <2>1 DEF PromiseInv, SubmissionLast, InSubmission
    <2>5. <<i, woRequests[i]>> \notin answered
        BY <2>3, <2>4
    <2> HIDE DEF w
    <2>6. \A j : Unanswered(j)' => Unanswered(j) \/ j = i
        BY <1>0, <2>1, <2>2 DEF Unanswered, IsScheduled, Handling
    <2>7. \A j, n : Promised(j, n) => Promised(j, n)'
        BY <1>0, <2>1 DEF Promised
    <2>8. ASSUME NEW j \in WoIds, Unanswered(j)'
          PROVE  <<j, woRequests'[j]>> \notin answered' /\ Promised(j, woRequests[j])'
        <3>1. CASE j = i
            <4>1. Promised(j, woRequests[j])'
                BY <1>0, <2>1, <2>3, <3>1 DEF Promised
            <4> QED BY <1>0, <2>1, <2>5, <3>1, <4>1
        <3>2. CASE j # i
            <4>1. <<j, woRequests[j]>> \notin answered /\ Promised(j, woRequests[j])
                BY <2>6, <2>8, <3>2 DEF ResultInv
            <4>2. Promised(j, woRequests[j])'
                BY <1>0, <2>1, <4>1 DEF Promised
            <4> QED BY <1>0, <2>1, <4>1, <4>2
        <3> QED BY <3>1, <3>2
    <2>9. ReportTrue(l)'
        BY <2>1 DEF ReportTrue
    <2> QED BY <1>0, <2>1, <2>8, <2>9 DEF ResultInv
<1>10. CASE ReceiptStore(l)
    <2>1. /\ UNCHANGED <<delivered, accepted, woScheduled, woRequests, woResponses>>
          /\ lpc[l] # "reply" /\ lpc'[l] = "reply" /\ lreply'[l] \in {"EXISTS", "SUCCESS"}
        BY <1>0, <1>10 DEF ReceiptStore, ListenerTypeOK
    <2> QED BY <1>2, <2>1
<1>11. CASE GetResultTimestamp(l)
    <2>1. /\ UNCHANGED <<delivered, accepted, woScheduled, woRequests, woResponses, lreq>>
          /\ lpc[l] = "get_timestamp" /\ lpc'[l] = "reply" /\ lreply'[l] # "RESULT"
          /\ lreply'[l] = "PENDING" => lreq[l].id \in woTimestamps
        BY <1>0, <1>11 DEF GetResultTimestamp, ListenerTypeOK
    <2>2. \A i \in WoIds, n \in Nat : Promised(i, n) => Promised(i, n)'
        BY <1>0, <2>1 DEF Promised
    <2>3. ReportTrue(l)'
        BY <1>0, <2>1 DEF ReportTrue, LatestDue
    <2> QED BY <1>0, <1>1, <2>1, <2>2, <2>3, ResultFrame
<1>12. CASE Reply(l)
    <2>1. /\ UNCHANGED <<woScheduled, woRequests, woResponses>>
          /\ lpc[l] = "reply" /\ lpc'[l] = "idle"
          /\ accepted' = IF lreply[l] = "SUBMITTED"
                         THEN accepted \cup {<<lreq[l].id, lreq[l].num>>} ELSE accepted
          /\ delivered' = IF lreply[l] = "RESULT"
                          THEN delivered \cup {<<lreq[l].id, lreq[l].num>>} ELSE delivered
        BY <1>0, <1>12 DEF Reply, ListenerTypeOK
    <2>2. delivered' \subseteq answered
        BY <1>0, <2>1 DEF ResultInv, ReportTrue
    <2>3. \A i, n : Promised(i, n) => Promised(i, n)'
        BY <1>0, <2>1 DEF Promised
    <2>4. ReportTrue(l)'
        BY <2>1 DEF ReportTrue
    <2>5. ASSUME NEW i \in WoIds, Unanswered(i)'
          PROVE  <<i, woRequests'[i]>> \notin answered' /\ Promised(i, woRequests[i])'
        <3>1. <<i, woRequests[i]>> \notin answered /\ Promised(i, woRequests[i])
            BY <1>1, <2>1, <2>5 DEF ResultInv
        <3>2. PICK n : n = woRequests[i]
            OBVIOUS
        <3>3. Promised(i, n)'
            BY <2>3, <3>1, <3>2
        <3>4. Promised(i, woRequests[i])'
            BY <2>1, <3>2, <3>3 DEF Promised
        <3> QED BY <1>0, <2>1, <3>1, <3>4
    <2> QED BY <1>0, <2>1, <2>2, <2>4, <2>5 DEF ResultInv
<1>13. ASSUME NEW i \in WoIds, GetResult(l, i)
       PROVE  ResultInv'
    <2>1. /\ UNCHANGED <<delivered, accepted, woTimestamps, woScheduled, woRequests, woResponses>>
          /\ lpc[l] = "idle" /\ lreq'[l].id = i /\ lreq'[l].num = woResponses[i]
          /\ IF woResponses[i] # 0 THEN lpc'[l] = "reply" /\ lreply'[l] = "RESULT"
             ELSE lpc'[l] = "get_timestamp"
        <3>1. lreq'[l] = [NoRequest EXCEPT !.id = i, !.num = woResponses[i]]
            BY <1>0, <1>13 DEF GetResult, ListenerTypeOK
        <3>2. lreq'[l].id = i /\ lreq'[l].num = woResponses[i]
            BY <3>1 DEF NoRequest
        <3> QED BY <1>0, <1>13, <3>2 DEF GetResult, ListenerTypeOK
    <2>2. \A j \in WoIds, n \in Nat : Promised(j, n) => Promised(j, n)'
        BY <1>0, <2>1 DEF Promised
    <2>3. ASSUME woResponses[i] = 0, i \in woTimestamps PROVE LatestDue(i)
        <3>1. Placed(i)
            BY <2>3 DEF PlacedInv
        <3>2. ~IsProcessed(i)
            BY <2>3 DEF ListedKeptInv
        <3>3. \A m \in Managers : Handling(m) /\ mwo[m] = i => mpc[m] # "append"
            BY <2>3 DEF PlacesInv, HandledAlone, Handling
        <3>4. Unanswered(i)
            BY <2>1, <3>1, <3>2, <3>3 DEF Placed, Unanswered, Creating
        <3>5. /\ <<i, woRequests[i]>> \notin answered /\ woRequests[i] \in Nat
              /\ Promised(i, woRequests[i])
            BY <1>0, <3>4 DEF ResultInv, StoreTypeOK
        <3>6. <<i, woRequests[i]>> \in accepted
            BY <2>1, <3>5 DEF Promised
        <3>7. ASSUME NEW n \in Nat, <<i, n>> \in accepted,
                     \A k \in Nat : <<i, k>> \in accepted => k <= n
              PROVE  <<i, n>> \notin delivered
            <4>1. woRequests[i] <= n
                BY <3>5, <3>6, <3>7
            <4>2. PromiseKept(i, woRequests[i]) /\ Promised(i, n)
                BY <3>5, <3>7 DEF PromiseInv, Promised
            <4>3. ~(woRequests[i] < n)
                BY <3>5, <4>2 DEF PromiseKept
            <4>4. n = woRequests[i]
                BY <3>5, <4>1, <4>3
            <4> QED BY <3>5, <4>4 DEF ResultInv
        <3> QED BY <3>7 DEF LatestDue
    <2>4. woResponses[i] # 0 => <<i, woResponses[i]>> \in answered
        BY DEF ResultInv
    <2>5. ReportTrue(l)'
        <3>1. LatestDue(i)' <=> LatestDue(i)
            BY <2>1 DEF LatestDue
        <3>2. CASE woResponses[i] # 0
            BY <1>0, <2>1, <2>4, <3>2 DEF ReportTrue
        <3>3. CASE woResponses[i] = 0
            BY <2>1, <2>3, <3>1, <3>3 DEF ReportTrue, LatestDue
        <3> QED BY <3>2, <3>3
    <2> QED BY <1>0, <1>1, <2>1, <2>2, <2>5, ResultFrame
<1>14. CASE \E i \in WoIds : ReceiptCreate(l, i) \/ \E w \in Workers : SubmitReceive(l, i, w)
    <2>1. /\ UNCHANGED <<delivered, accepted, woScheduled, woRequests, woResponses>>
          /\ lpc[l] = "idle" /\ lpc'[l] \in {"store_receipt", "reply", "purge_pool", "check"}
          /\ lpc'[l] = "reply" => lreply'[l] \in {"INVALID", "NO_WORKER"}
        <3>1. ASSUME NEW i \in WoIds, ReceiptCreate(l, i)
              PROVE  /\ UNCHANGED <<delivered, accepted, woScheduled, woRequests, woResponses>>
                     /\ lpc[l] = "idle" /\ lpc'[l] \in {"store_receipt", "reply"}
                     /\ lpc'[l] = "reply" => lreply'[l] = "INVALID"
            BY <1>0, <3>1 DEF ReceiptCreate, ListenerTypeOK
        <3>2. ASSUME NEW i \in WoIds, NEW w \in Workers, SubmitReceive(l, i, w)
              PROVE  /\ UNCHANGED <<delivered, accepted, woScheduled, woRequests, woResponses>>
                     /\ lpc[l] = "idle" /\ lpc'[l] \in {"reply", "purge_pool", "check"}
                     /\ lpc'[l] = "reply" => lreply'[l] = "NO_WORKER"
            BY <1>0, <3>2 DEF SubmitReceive, ListenerTypeOK
        <3> QED BY <1>14, <3>1, <3>2
    <2> QED BY <1>2, <2>1
<1> QED BY <1>3, <1>4, <1>5, <1>6, <1>7, <1>8, <1>9, <1>10, <1>11, <1>12, <1>13, <1>14
    DEF ListenerStep, ClientRequest


(***************************************************************************)
(* What the managers store: a response is the first to its submission, and *)
(* an order that leaves a queue stays unanswered in a manager's hands.     *)
(***************************************************************************)
LEMMA ResultByManager ==
    ASSUME TypeInv, PlacesInv, Deathless, Undisturbed, ResultInv, NEW l, Listeners = {l},
           NEW m \in Managers, SingletonStep(m) \/ ManagerCrash(m), UNCHANGED listenerVars
    PROVE  ResultInv'
<1> USE DEF MGoTo, storeVars, queueVars, orderVars, managerLocals, listenerVars, scanVars,
            clientVars, runVars
<1>0. /\ l \in Listeners /\ StoreTypeOK /\ ManagerTypeOK /\ ManagerFormed(m) /\ HandledAlone(m)
      /\ m \in Workers /\ WorkerOf[m] = m /\ ReportTrue(l)
      /\ UNCHANGED <<lpc, lreq, lreply, accepted, delivered>>
    BY SingletonAssumption DEF PlacesInv, TypeInv, TypeOK, ResultInv
<1>1. \A i, n : Promised(i, n)' <=> Promised(i, n)
    BY <1>0 DEF Promised
<1>2. \A i : LatestDue(i)' <=> LatestDue(i)
    BY <1>0 DEF LatestDue
<1>3. ASSUME woTimestamps' = woTimestamps, answered \subseteq answered' PROVE ReportTrue(l)'
    BY <1>0, <1>2, <1>3 DEF ReportTrue, LatestDue
<1>4. ASSUME UNCHANGED <<woTimestamps, woRequests, woResponses, answered>>,
             \A i \in WoIds : Unanswered(i)' => Unanswered(i)
      PROVE  ResultInv'
    BY <1>0, <1>1, <1>3, <1>4, ResultFrame
<1>5. CASE CleanupUnlist(m, "poll") \/ CleanupRemove(m) \/ ManagerRestart(m)
    BY <1>5 DEF CleanupUnlist, CleanupRemove, ManagerRestart, Undisturbed
<1>6. CASE EnclaveRaises(m) \/ ManagerCrash(m)
    BY <1>0, <1>6 DEF EnclaveRaises, ManagerCrash, Deathless, ManagerTypeOK
<1>7. CASE BootAddWorker(m) \/ JoinPool(m) \/ CleanupRead(m, "poll") \/ ClearProcessing(m)
           \/ AppendProcessed(m)
    <2>1. /\ UNCHANGED <<woTimestamps, woRequests, woResponses, answered, woScheduled>>
          /\ mpc'[m] \in {"join", "clean_read", "clean", "poll", "clear"}
          /\ \A k \in Managers \ {m} : mpc'[k] = mpc[k] /\ mwo'[k] = mwo[k]
        BY <1>0, <1>7 DEF BootAddWorker, JoinPool, CleanupRead, ClearProcessing, AppendProcessed,
                          ManagerTypeOK
    <2> QED BY <1>4, <2>1 DEF Unanswered, Handling, IsScheduled
<1>8. CASE ReadRequest(m) \/ MarkProcessing(m) \/ Execute(m) \/ UpdateReceipt(m)
    <2>1. /\ UNCHANGED <<woTimestamps, woRequests, woResponses, answered, woScheduled, mwo>>
          /\ mpc[m] \in {"read", "mark", "execute", "receipt"}
          /\ \A k \in Managers \ {m} : mpc'[k] = mpc[k]
        BY <1>0, <1>8 DEF ReadRequest, MarkProcessing, Execute, UpdateReceipt, ManagerTypeOK, Undisturbed
    <2> QED BY <1>4, <2>1 DEF Unanswered, Handling, IsScheduled
<1>9. CASE Pop(m)
    <2> DEFINE i == Head(woScheduled[m])
    <2>1. /\ mpc'[m] = "read" /\ mwo'[m] = i
          /\ \A k \in Managers \ {m} : mpc'[k] = mpc[k] /\ mwo'[k] = mwo[k]
          /\ UNCHANGED <<woTimestamps, woRequests, woResponses, answered>>
          /\ woScheduled[m] \in Seq(WoIds) /\ woScheduled[m] # <<>>
          /\ woScheduled'[m] = Tail(woScheduled[m])
          /\ \A v \in Workers \ {m} : woScheduled'[v] = woScheduled[v]
        BY <1>0, <1>9 DEF Pop, CsvPop, ManagerTypeOK, StoreTypeOK
    <2>2. ToSet(woScheduled[m]) = ToSet(woScheduled'[m]) \cup {i} /\ i \in WoIds
        BY <2>1, PopProperties
    <2> HIDE DEF i
    <2>3. IsScheduled(i) /\ \A j : IsScheduled(j)' => IsScheduled(j)
        BY <1>0, <2>1, <2>2 DEF IsScheduled
    <2>4. \A j \in WoIds : Unanswered(j)' => Unanswered(j)
        BY <2>1, <2>3 DEF Unanswered, Handling
    <2> QED BY <1>4, <2>1, <2>4
<1>10. CASE PersistResponse(m)
    <2> DEFINE i == mwo[m]
    <2>1. /\ mpc[m] = "persist" /\ mpc'[m] = "append" /\ i \in WoIds
          /\ \A k \in Managers \ {m} : mpc'[k] = mpc[k]
          /\ UNCHANGED <<woTimestamps, woRequests, woScheduled, mwo, mreq>>
          /\ answered' = answered \cup {<<i, mreq[m]>>}
          /\ woResponses'[i] = mreq[m] /\ \A j \in WoIds \ {i} : woResponses'[j] = woResponses[j]
        BY <1>0, <1>10 DEF PersistResponse, ManagerTypeOK, StoreTypeOK, ManagerFormed
    <2>2. \A j : IsScheduled(j)' <=> IsScheduled(j)
        BY <2>1 DEF IsScheduled
    <2>3. ~IsScheduled(i) /\ \A k \in Managers : k # m /\ Handling(k) => mwo[k] # i
        BY <1>0, <2>1 DEF PlacesInv, QueuedAlone, HandledAlone, Handling
    <2> HIDE DEF i
    <2>4. \A j \in WoIds : Unanswered(j)' => j # i
        BY <2>1, <2>2, <2>3 DEF Unanswered, Handling, i
    <2>5. \A j \in WoIds : Unanswered(j)' => Unanswered(j)
        BY <2>1, <2>2 DEF Unanswered, Handling
    <2>6. ASSUME NEW j \in WoIds, Unanswered(j)'
          PROVE  <<j, woRequests'[j]>> \notin answered' /\ Promised(j, woRequests[j])'
        <3>1. <<j, woRequests[j]>> \notin answered /\ Promised(j, woRequests[j]) /\ j # i
            BY <2>4, <2>5, <2>6 DEF ResultInv
        <3>2. Promised(j, woRequests[j])'
            BY <1>0, <2>1, <3>1 DEF Promised
        <3> QED BY <2>1, <3>1, <3>2
    <2>7. \A j \in WoIds : woResponses'[j] # 0 => <<j, woResponses'[j]>> \in answered'
        BY <2>1 DEF ResultInv
    <2>8. ReportTrue(l)'
        BY <1>3, <2>1
    <2> QED BY <1>0, <2>1, <2>6, <2>7, <2>8 DEF ResultInv
<1> QED BY <1>5, <1>6, <1>7, <1>8, <1>9, <1>10 DEF SingletonStep, ManagerStep

(***************************************************************************)
(* The largest of finitely bounded naturals: what Max returns.             *)
(***************************************************************************)
LEMMA MaxOfBounded ==
    ASSUME NEW S \in SUBSET Nat, S # {}, NEW b \in Nat, \A x \in S : x <= b
    PROVE  Max(S) \in S /\ \A x \in S : x <= Max(S)
<1> DEFINE Bounds == {y \in Nat : \A x \in S : x <= y}
<1>1. Bounds \in SUBSET Nat /\ b \in Bounds
    OBVIOUS
<1>2. PICK y \in Bounds : \A z \in Bounds : y <= z
    BY <1>1, LeastNatural
<1>3. y \in S
    <2> SUFFICES ASSUME y \notin S PROVE FALSE
        OBVIOUS
    <2>1. \A x \in S : x < y
        BY <1>2
    <2>2. PICK x \in S : TRUE
        OBVIOUS
    <2>3. y - 1 \in Bounds
        BY <1>2, <2>1, <2>2
    <2> QED BY <1>2, <2>3
<1>4. y \in S /\ \A x \in S : y >= x
    BY <1>2, <1>3
<1> HIDE DEF Bounds
<1> QED BY <1>4 DEF Max

(***************************************************************************)
(* The listener never goes back on a result: once the result of the last   *)
(* accepted submission of an id was handed out, it does not report the id  *)
(* as yet to be processed.  One listener, not restarted; managers that do  *)
(* not die; ids may be purged and used again.                              *)
(***************************************************************************)
THEOREM OneListenerReportsTruly ==
    ASSUME NEW l, Listeners = {l}, Deathless, NeverRestarted
    PROVE  Spec => []NoPendingAfterResult
<1>1. Init => ServedInv /\ ResultInv
    <2> SUFFICES ASSUME Init PROVE ServedInv /\ ResultInv
        OBVIOUS
    <2>1. ServedInv
        BY InitOrder DEF Init, StoreInit, PlacedInv, ServedInv
    <2>2. /\ \A i \in WoIds : woResponses[i] = 0 /\ delivered = {}
          /\ \A w \in Workers : woScheduled[w] = <<>>
          /\ \A m \in Managers : mpc[m] = "boot"
          /\ \A k \in Listeners : lpc[k] = "boot"
        BY DEF Init, StoreInit, ListenerInit, ManagerInit
    <2>3. \A i : ~Unanswered(i)
        BY <2>2 DEF Unanswered, IsScheduled, Handling, ToSet
    <2>4. \A k \in Listeners : ReportTrue(k)
        BY <2>2 DEF ReportTrue
    <2>5. delivered = {}
        BY DEF Init, ListenerInit
    <2> QED BY <2>1, <2>2, <2>3, <2>4, <2>5 DEF ResultInv
<1>2. ServedInv /\ ResultInv /\ [Next]_vars => ServedInv' /\ ResultInv'
    <2> SUFFICES ASSUME ServedInv, ResultInv, [Next]_vars PROVE ServedInv' /\ ResultInv'
        OBVIOUS
    <2>1. ServedInv'
        BY NextServed
    <2>2. /\ TypeInv /\ PlacesInv /\ PromiseInv /\ Undisturbed /\ ListedKeptInv /\ PlacedInv
        BY NotRestarted DEF OrderInv, ServedInv
    <2>3. CASE UNCHANGED vars
        <3>1. UNCHANGED <<woTimestamps, woRequests, woResponses, lpc, lreq, lreply, woScheduled,
                          accepted, delivered, answered, mpc, mwo>>
            BY <2>3 DEF vars, storeVars, orderVars, queueVars, listenerVars, scanVars, clientVars,
                        managerVars, managerLocals, runVars
        <3>2. ReportTrue(l)' /\ \A i, n : Promised(i, n)' <=> Promised(i, n)
            BY <3>1 DEF ReportTrue, LatestDue, ResultInv, Promised
        <3>3. \A i : Unanswered(i)' => Unanswered(i)
            BY <3>1 DEF Unanswered, IsScheduled, Handling
        <3>4. ResultInv'
            BY <2>2, <3>1, <3>2, <3>3, ResultFrame
        <3> QED BY <2>1, <3>4
    <2>4. CASE (ListenerStep(l) \/ ClientRequest(l) \/ ListenerRestart(l)) /\ UNCHANGED managerVars
        <3>1. lrestarts = 0 /\ lrestarts' = 0
            BY <2>1, NotRestarted DEF NeverRestarted, OrderInv, TypeInv, TypeOK, ListenerTypeOK, ServedInv
        <3>2. ~ListenerRestart(l)
            BY <3>1 DEF ListenerRestart
        <3> QED BY <2>1, <2>2, <2>4, <3>2, ResultByListener
    <2>5. ASSUME NEW m \in Managers, SingletonStep(m) \/ ManagerCrash(m), UNCHANGED listenerVars
          PROVE  ResultInv'
        BY <2>2, <2>5, ResultByManager
    <2> QED BY <2>1, <2>3, <2>4, <2>5 DEF Next
<1>3. ServedInv /\ ResultInv => NoPendingAfterResult
    <2> SUFFICES ASSUME ServedInv, ResultInv, NEW k \in Listeners,
                        lpc[k] = "reply", lreply[k] = "PENDING", AcceptedOf(lreq[k].id) # {}
                 PROVE  <<lreq[k].id, Max(AcceptedOf(lreq[k].id))>> \notin delivered
        BY DEF NoPendingAfterResult
    <2>1. PICK i \in WoIds : i = lreq[k].id
        BY DEF ServedInv, OrderInv, TypeInv, ListenerFormed
    <2>2. \A s \in accepted : s = <<s[1], s[2]>> /\ s[2] \in Nat
        BY DEF ServedInv, OrderInv, TypeInv, TypeOK, ListenerTypeOK
    <2>3. \A n : n \in AcceptedOf(i) <=> <<i, n>> \in accepted
        BY <2>2 DEF AcceptedOf
    <2>4. AcceptedOf(i) \in SUBSET Nat
        BY <2>2 DEF AcceptedOf
    <2>5. submits[i] \in Nat /\ PromiseInv
        BY NotRestarted DEF ServedInv, OrderInv, TypeInv, TypeOK, ListenerTypeOK
    <2>6. \A n \in AcceptedOf(i) : n <= submits[i]
        BY <2>3, <2>4, <2>5 DEF PromiseInv, PromiseKept, Promised
    <2>7. Max(AcceptedOf(i)) \in AcceptedOf(i) /\ \A n \in AcceptedOf(i) : n <= Max(AcceptedOf(i))
        BY <2>1, <2>4, <2>5, <2>6, MaxOfBounded
    <2>8. LatestDue(i)
        BY <2>1 DEF ResultInv, ReportTrue
    <2> QED BY <2>1, <2>3, <2>4, <2>7, <2>8 DEF LatestDue
<1> QED BY <1>1, <1>2, <1>3, PTL DEF Spec


-----------------------------------------------------------------------------
(* Requests stay within reach of the clean-ups                             *)

\* What is listed as processed, or being cleaned up, has run.
CleanedRan ==
    /\ \A m \in Managers : mpc[m] \in {"receipt", "persist", "append"} => Ran(mwo[m])
    /\ \A w \in Workers : \A i \in ToSet(woProcessed[w]) : Ran(i)
    /\ \A m \in Managers : \A i \in ToSet(mids[m]) : Ran(i)

\* No clean-up is about to remove the order that is being submitted.
SubmissionSpared ==
    \A l \in Listeners, m \in Managers : InSubmission(l) => lreq[l].id \notin ToSet(mids[m])

\* The request is written after the timestamp and removed before it, by the
\* purge, by the boot flow and by the clean-ups.
RequestInv ==
    /\ RequestHasTimestamp
    /\ \A l \in Listeners :
           /\ lpc[l] = "set_request" => lreq[l].id \in woTimestamps
           /\ lpc[l] \in {"purge_remove", "boot_reap"} /\ lstep[l] >= 2 => woRequests[lvictim[l]] = 0
    /\ \A m \in Managers : mpc[m] = "clean" /\ mstep[m] >= 3 => woRequests[Head(mids[m])] = 0

(***************************************************************************)
(* Only orders that have run are listed and cleaned up, whatever crashes.  *)
(***************************************************************************)
LEMMA CleanedRanKept ==
    ASSUME TypeInv, CleanedRan, [Next]_vars
    PROVE  CleanedRan'
<1>0. StoreTypeOK /\ ListenerTypeOK /\ ManagerTypeOK
    BY DEF TypeInv, TypeOK
<1>1. executed \subseteq executed' /\
      \A m \in Managers : mpc'[m] \in {"receipt", "persist", "append"} =>
          \/ mpc[m] \in {"receipt", "persist", "append"} /\ mwo'[m] = mwo[m]
          \/ <<mwo'[m], mreq[m]>> \in executed'
    BY RanGrows
<1>2. \A i : Ran(i) => Ran(i)'
    BY <1>1 DEF Ran
<1>3. \A m \in Managers : mpc'[m] \in {"receipt", "persist", "append"} => Ran(mwo[m])'
    BY <1>1, <1>2 DEF CleanedRan, Ran
<1>4. ASSUME \A w \in Workers : ToSet(woProcessed'[w]) \subseteq ToSet(woProcessed[w]),
             \A m \in Managers : ToSet(mids'[m]) \subseteq ToSet(mids[m])
      PROVE  CleanedRan'
    BY <1>2, <1>3, <1>4 DEF CleanedRan
<1>5. ASSUME UNCHANGED <<woProcessed, mids>> PROVE CleanedRan'
    BY <1>4, <1>5
<1>6. CASE UNCHANGED vars
    BY <1>5, <1>6 DEF vars, storeVars, queueVars, managerVars, managerLocals
<1>7. ASSUME NEW l \in Listeners, ListenerStep(l) \/ ClientRequest(l) \/ ListenerRestart(l),
             UNCHANGED managerVars
      PROVE  CleanedRan'
    <2> USE DEF storeVars, queueVars, managerVars, managerLocals
    <2>1. CASE PurgeUnlist(l)
        <3>1. PICK w \in Workers : woProcessed' = CsvSearchDelete(woProcessed, w, lvictim[l])
            BY <2>1 DEF PurgeUnlist
        <3>2. ToSet(RemoveFirst(woProcessed[w], lvictim[l])) \subseteq ToSet(woProcessed[w])
            BY <1>0, RemoveFirstProperties DEF StoreTypeOK
        <3>3. \A v \in Workers : ToSet(woProcessed'[v]) \subseteq ToSet(woProcessed[v])
            BY <1>0, <3>1, <3>2 DEF CsvSearchDelete, StoreTypeOK
        <3> QED BY <1>4, <1>7, <3>3
    <2>2. CASE BootLookup(l) \/ BootLookupPool(l) \/ BootRead(l) \/ BootKeep(l) \/ BootDiscard(l)
               \/ BootReap(l) \/ BootDone(l) \/ ListenerRestart(l)
        BY <1>5, <1>7, <2>2 DEF BootLookup, BootLookupPool, BootRead, BootKeep, BootDiscard,
                                BootReap, BootDone, ListenerRestart
    <2>3. CASE PurgeLookupPool(l) \/ PurgeRead(l) \/ PurgeSelect(l) \/ PurgeRemove(l) \/ PurgeFinish(l)
        BY <1>5, <1>7, <2>3 DEF PurgeLookupPool, PurgeRead, PurgeSelect, PurgeRemove, PurgeFinish
    <2>4. CASE SubmitCheck(l) \/ SubmitTimestamp(l) \/ SubmitRequest(l) \/ SubmitSchedule(l)
               \/ GetResultTimestamp(l) \/ ReceiptStore(l) \/ Reply(l)
        BY <1>5, <1>7, <2>4 DEF SubmitCheck, SubmitTimestamp, SubmitRequest, SubmitSchedule,
                                GetResultTimestamp, ReceiptStore, Reply
    <2>5. ASSUME NEW i \in WoIds, GetResult(l, i) \/ ReceiptCreate(l, i)
          PROVE  CleanedRan'
        BY <1>5, <1>7, <2>5 DEF GetResult, ReceiptCreate
    <2>6. ASSUME NEW i \in WoIds, NEW w \in Workers, SubmitReceive(l, i, w)
          PROVE  CleanedRan'
        BY <1>5, <1>7, <2>6 DEF SubmitReceive
    <2> QED BY <1>7, <2>1, <2>2, <2>3, <2>4, <2>5, <2>6 DEF ListenerStep, ClientRequest
<1>8. ASSUME NEW m \in Managers, SingletonStep(m) \/ ManagerCrash(m)
      PROVE  CleanedRan'
    <2> USE DEF storeVars, queueVars, managerLocals, MGoTo
    <2>0. m \in Workers /\ WorkerOf[m] = m /\ ManagerFormed(m)
        BY SingletonAssumption DEF TypeInv
    <2>1. CASE BootAddWorker(m) \/ JoinPool(m) \/ ManagerRestart(m) \/ Pop(m) \/ ReadRequest(m)
               \/ MarkProcessing(m) \/ Execute(m) \/ PersistResponse(m) \/ ClearProcessing(m)
        BY <1>5, <2>1 DEF BootAddWorker, JoinPool, ManagerRestart, Pop, ReadRequest,
               MarkProcessing, Execute, PersistResponse, ClearProcessing
    <2>2. CASE EnclaveRaises(m) \/ ManagerCrash(m) \/ UpdateReceipt(m)
        <3>1. woProcessed' = woProcessed /\ \A k \in Managers : mids'[k] \in {<<>>, mids[k]}
            BY <1>0, <2>2 DEF EnclaveRaises, ManagerCrash, UpdateReceipt, Exit, ManagerTypeOK
        <3>2. ToSet(<<>>) = {}
            BY DEF ToSet
        <3>3. \A k \in Managers : ToSet(mids'[k]) \subseteq ToSet(mids[k])
            BY <3>1, <3>2
        <3> QED BY <1>4, <3>1, <3>3
    <2>3. CASE CleanupUnlist(m, "poll")
        <3>1. mids' = mids /\ \A w \in Workers : woProcessed'[w] \in {<<>>, woProcessed[w]}
            BY <1>0, <2>0, <2>3 DEF CleanupUnlist, StoreTypeOK
        <3>2. ToSet(<<>>) = {}
            BY DEF ToSet
        <3>3. \A w \in Workers : ToSet(woProcessed'[w]) \subseteq ToSet(woProcessed[w])
            BY <3>1, <3>2
        <3> QED BY <1>4, <3>1, <3>3
    <2>4. CASE CleanupRemove(m)
        <3>1. /\ woProcessed' = woProcessed /\ mids[m] # <<>> /\ mids[m] \in Seq(WoIds)
              /\ \A k \in Managers : mids'[k] = mids[k] \/ (k = m /\ mids'[k] = Tail(mids[m]))
            BY <1>0, <2>0, <2>4 DEF CleanupRemove, ManagerTypeOK, ManagerFormed
        <3>2. ToSet(Tail(mids[m])) \subseteq ToSet(mids[m])
            BY <3>1, PopProperties
        <3>3. \A k \in Managers : ToSet(mids'[k]) \subseteq ToSet(mids[k])
            BY <3>1, <3>2
        <3> QED BY <1>4, <3>1, <3>3
    <2>5. CASE CleanupRead(m, "poll")
        <3>1. /\ woProcessed' = woProcessed
              /\ \A k \in Managers : mids'[k] = mids[k] \/ mids'[k] = woProcessed[m]
            BY <1>0, <2>0, <2>5 DEF CleanupRead, ManagerTypeOK
        <3>2. \A k \in Managers : \A i \in ToSet(mids'[k]) : Ran(i)
            BY <2>0, <3>1 DEF CleanedRan
        <3> QED BY <1>2, <1>3, <3>1, <3>2 DEF CleanedRan
    <2>6. CASE AppendProcessed(m)
        <3>1. /\ mids' = mids /\ mpc[m] = "append" /\ mwo[m] \in WoIds /\ woProcessed[m] \in Seq(WoIds)
              /\ woProcessed'[m] = Append(woProcessed[m], mwo[m])
              /\ \A w \in Workers \ {m} : woProcessed'[w] = woProcessed[w]
            BY <1>0, <2>0, <2>6 DEF AppendProcessed, CsvAppend, ManagerTypeOK, ManagerFormed, StoreTypeOK
        <3>2. ToSet(woProcessed'[m]) = ToSet(woProcessed[m]) \cup {mwo[m]}
            BY <3>1, AppendToSet
        <3>3. \A w \in Workers : \A i \in ToSet(woProcessed'[w]) : Ran(i)
            BY <3>1, <3>2 DEF CleanedRan
        <3> QED BY <1>2, <1>3, <3>1, <3>3 DEF CleanedRan
    <2> QED BY <1>8, <2>1, <2>2, <2>3, <2>4, <2>5, <2>6 DEF SingletonStep, ManagerStep
<1> QED BY <1>6, <1>7, <1>8 DEF Next

(***************************************************************************)
(* The listener writes requests after timestamps and removes them before.  *)
(***************************************************************************)
LEMMA RequestByListener ==
    ASSUME TypeInv, RequestInv, SubmissionSpared, NEW l, Listeners = {l},
           ListenerStep(l) \/ ClientRequest(l) \/ ListenerRestart(l), UNCHANGED managerVars
    PROVE  RequestInv'
<1> USE DEF GoTo, storeVars, orderVars, scanVars, managerVars, managerLocals, Answer
<1>0. /\ l \in Listeners /\ StoreTypeOK /\ ListenerTypeOK /\ ListenerFormed(l)
      /\ UNCHANGED <<mpc, mids, mstep>>
    BY DEF TypeInv, TypeOK
<1>1. ASSUME UNCHANGED <<woTimestamps, woRequests>>, lpc'[l] # "set_request",
             lpc'[l] \notin {"purge_remove", "boot_reap"} \/ lstep'[l] = 1
      PROVE  RequestInv'
    BY <1>0, <1>1 DEF RequestInv, RequestHasTimestamp
<1>2. CASE BootLookup(l) \/ BootLookupPool(l) \/ BootRead(l) \/ BootKeep(l) \/ BootDone(l)
    <2>1. /\ UNCHANGED <<woTimestamps, woRequests>>
          /\ lpc'[l] \in {"boot_pool", "boot_read", "boot_next", "idle"}
        BY <1>0, <1>2 DEF BootLookup, BootLookupPool, BootRead, BootKeep, BootDone, ListenerTypeOK
    <2> QED BY <1>1, <2>1
<1>3. CASE BootDiscard(l) \/ PurgeUnlist(l)
    <2>1. /\ UNCHANGED <<woTimestamps, woRequests>>
          /\ lpc'[l] \in {"boot_reap", "purge_remove"} /\ lstep'[l] = 1
        BY <1>0, <1>3 DEF BootDiscard, PurgeUnlist, ListenerTypeOK
    <2> QED BY <1>1, <2>1
<1>4. CASE BootReap(l) \/ PurgeRemove(l) \/ PurgeFinish(l)
    <2> DEFINE i == lvictim[l]
    <2>1. /\ lpc[l] \in {"boot_reap", "purge_remove"} /\ i \in WoIds /\ lstep[l] \in 1..4
          /\ woRequests' = IF lstep[l] = 1 THEN [woRequests EXCEPT ![i] = 0] ELSE woRequests
          /\ woTimestamps' = IF lstep[l] = 4 THEN woTimestamps \ {i} ELSE woTimestamps
          /\ lpc'[l] # "set_request"
          /\ lpc'[l] \in {"purge_remove", "boot_reap"} => lstep[l] < 4 /\ lvictim'[l] = i
        <3>1. CASE BootReap(l)
            BY <1>0, <3>1 DEF BootReap, RemoveRecord, BootReapOrder, ListenerFormed, ListenerTypeOK
        <3>2. CASE PurgeRemove(l)
            BY <1>0, <3>2 DEF PurgeRemove, RemoveRecord, PurgeOrder, ListenerFormed, ListenerTypeOK
        <3>3. CASE PurgeFinish(l)
            BY <1>0, <3>3 DEF PurgeFinish, RemoveRecord, PurgeOrder, ListenerFormed, ListenerTypeOK
        <3> QED BY <1>4, <3>1, <3>2, <3>3
    <2>2. lstep[l] >= 2 => woRequests[i] = 0
        BY <2>1 DEF RequestInv
    <2>3. woRequests'[i] = 0
        BY <1>0, <2>1, <2>2 DEF StoreTypeOK
    <2>4. \A j \in WoIds : woRequests'[j] \in {0, woRequests[j]}
        BY <1>0, <2>1 DEF StoreTypeOK
    <2>5. RequestHasTimestamp'
        BY <2>1, <2>3, <2>4 DEF RequestInv, RequestHasTimestamp
    <2>6. ASSUME NEW m \in Managers, mpc[m] = "clean", mstep[m] >= 3
          PROVE  woRequests'[Head(mids[m])] = 0
        <3>1. woRequests[Head(mids[m])] = 0 /\ Head(mids[m]) \in WoIds
            BY <2>6, PopProperties DEF RequestInv, TypeInv, TypeOK, ManagerTypeOK, ManagerFormed
        <3> QED BY <2>4, <3>1
    <2>7. lpc'[l] \in {"purge_remove", "boot_reap"} => woRequests'[lvictim'[l]] = 0
        BY <2>1, <2>3
    <2> QED BY <1>0, <2>1, <2>5, <2>6, <2>7 DEF RequestInv
<1>5. CASE PurgeLookupPool(l) \/ PurgeRead(l) \/ PurgeSelect(l)
    <2>1. /\ UNCHANGED <<woTimestamps, woRequests>>
          /\ lpc'[l] \in {"purge_read", "purge_unlist", "purge_select", "reply"}
        <3>1. CASE PurgeLookupPool(l) \/ PurgeRead(l)
            BY <1>0, <3>1 DEF PurgeLookupPool, PurgeRead, ListenerTypeOK
        <3>2. CASE PurgeSelect(l)
            BY <1>0, <3>2 DEF PurgeSelect, ListenerTypeOK
        <3> QED BY <1>5, <3>1, <3>2
    <2> QED BY <1>1, <2>1
<1>6. CASE SubmitTimestamp(l)
    <2>1. /\ lpc'[l] = "set_request" /\ UNCHANGED <<woRequests, lreq>>
          /\ woTimestamps' = woTimestamps \cup {lreq[l].id}
        BY <1>0, <1>6 DEF SubmitTimestamp, ListenerTypeOK
    <2> QED BY <1>0, <2>1 DEF RequestInv, RequestHasTimestamp
<1>7. CASE SubmitRequest(l)
    <2> DEFINE i == lreq[l].id
    <2>1. /\ lpc[l] = "set_request" /\ lpc'[l] = "schedule" /\ UNCHANGED woTimestamps
          /\ \A j \in WoIds \ {i} : woRequests'[j] = woRequests[j]
        BY <1>0, <1>7 DEF SubmitRequest, ListenerTypeOK, StoreTypeOK
    <2>2. RequestHasTimestamp'
        BY <2>1 DEF RequestInv, RequestHasTimestamp
    <2>3. ASSUME NEW m \in Managers, mpc[m] = "clean", mstep[m] >= 3
          PROVE  woRequests'[Head(mids[m])] = 0
        <3>1. /\ woRequests[Head(mids[m])] = 0 /\ Head(mids[m]) \in WoIds
              /\ Head(mids[m]) \in ToSet(mids[m])
            BY <2>3, PopProperties DEF RequestInv, TypeInv, TypeOK, ManagerTypeOK, ManagerFormed
        <3>2. i \notin ToSet(mids[m])
            BY <2>1 DEF SubmissionSpared, InSubmission
        <3> QED BY <2>1, <3>1, <3>2
    <2> QED BY <1>0, <2>1, <2>2, <2>3 DEF RequestInv
<1>8. CASE SubmitCheck(l) \/ SubmitSchedule(l) \/ GetResultTimestamp(l) \/ ReceiptStore(l)
    <2>1. /\ UNCHANGED <<woTimestamps, woRequests>> /\ lpc'[l] \in {"reply", "set_timestamp"}
        <3>1. CASE SubmitCheck(l) \/ SubmitSchedule(l)
            BY <1>0, <3>1 DEF SubmitCheck, SubmitSchedule, ListenerTypeOK
        <3>2. CASE GetResultTimestamp(l) \/ ReceiptStore(l)
            BY <1>0, <3>2 DEF GetResultTimestamp, ReceiptStore, ListenerTypeOK
        <3> QED BY <1>8, <3>1, <3>2
    <2> QED BY <1>1, <2>1
<1>9. CASE Reply(l) \/ ListenerRestart(l)
    <2>1. UNCHANGED <<woTimestamps, woRequests>> /\ lpc'[l] \in {"idle", "boot"}
        BY <1>0, <1>9 DEF Reply, ListenerRestart, ListenerTypeOK
    <2> QED BY <1>1, <2>1
<1>10. ASSUME NEW i \in WoIds, GetResult(l, i) \/ ReceiptCreate(l, i)
       PROVE  RequestInv'
    <2>1. /\ UNCHANGED <<woTimestamps, woRequests>>
          /\ lpc'[l] \in {"reply", "get_timestamp", "store_receipt"}
        BY <1>0, <1>10 DEF GetResult, ReceiptCreate, ListenerTypeOK
    <2> QED BY <1>1, <2>1
<1>11. ASSUME NEW i \in WoIds, NEW w \in Workers, SubmitReceive(l, i, w)
       PROVE  RequestInv'
    <2>1. UNCHANGED <<woTimestamps, woRequests>> /\ lpc'[l] \in {"reply", "purge_pool", "check"}
        BY <1>0, <1>11 DEF SubmitReceive, ListenerTypeOK
    <2> QED BY <1>1, <2>1
<1> QED BY <1>2, <1>3, <1>4, <1>5, <1>6, <1>7, <1>8, <1>9, <1>10, <1>11 DEF ListenerStep, ClientRequest

(***************************************************************************)
(* A clean-up removes the request before the timestamp.                    *)
(***************************************************************************)
LEMMA RequestByManager ==
    ASSUME TypeInv, RequestInv, SubmissionSpared, NEW m \in Managers,
           SingletonStep(m) \/ ManagerCrash(m), UNCHANGED listenerVars
    PROVE  RequestInv'
<1> USE DEF MGoTo, storeVars, orderVars, managerLocals, listenerVars, scanVars
<1>0. /\ StoreTypeOK /\ ManagerTypeOK /\ ManagerFormed(m)
      /\ UNCHANGED <<lpc, lreq, lstep, lvictim>>
    BY DEF TypeInv, TypeOK
<1>1. ASSUME UNCHANGED <<woTimestamps, woRequests>>,
             \A k \in Managers \ {m} : mpc'[k] = mpc[k] /\ mids'[k] = mids[k] /\ mstep'[k] = mstep[k],
             mpc'[m] # "clean" \/ mstep'[m] = 1
      PROVE  RequestInv'
    BY <1>0, <1>1 DEF RequestInv, RequestHasTimestamp
<1>2. CASE BootAddWorker(m) \/ JoinPool(m) \/ ManagerRestart(m) \/ Pop(m) \/ ReadRequest(m)
           \/ MarkProcessing(m) \/ Execute(m)
    <2>1. /\ UNCHANGED <<woTimestamps, woRequests, mids, mstep>> /\ mpc'[m] # "clean"
          /\ \A k \in Managers \ {m} : mpc'[k] = mpc[k]
        BY <1>0, <1>2 DEF BootAddWorker, JoinPool, ManagerRestart, Pop, ReadRequest,
               MarkProcessing, Execute, ManagerTypeOK
    <2> QED BY <1>1, <2>1
<1>3. CASE PersistResponse(m) \/ ClearProcessing(m) \/ AppendProcessed(m) \/ CleanupUnlist(m, "poll")
    <2>1. /\ UNCHANGED <<woTimestamps, woRequests, mids, mstep>> /\ mpc'[m] # "clean"
          /\ \A k \in Managers \ {m} : mpc'[k] = mpc[k]
        BY <1>0, <1>3 DEF PersistResponse, ClearProcessing, AppendProcessed, CleanupUnlist, ManagerTypeOK
    <2> QED BY <1>1, <2>1
<1>4. CASE EnclaveRaises(m) \/ ManagerCrash(m) \/ UpdateReceipt(m) \/ CleanupRead(m, "poll")
    <2>1. /\ UNCHANGED <<woTimestamps, woRequests>>
          /\ mpc'[m] # "clean" \/ mstep'[m] = 1
          /\ \A k \in Managers \ {m} : mpc'[k] = mpc[k] /\ mids'[k] = mids[k] /\ mstep'[k] = mstep[k]
        <3>1. CASE EnclaveRaises(m) \/ ManagerCrash(m)
            BY <1>0, <3>1 DEF EnclaveRaises, ManagerCrash, Exit, ManagerTypeOK
        <3>2. CASE UpdateReceipt(m)
            BY <1>0, <3>2 DEF UpdateReceipt, Exit, ManagerTypeOK
        <3>3. CASE CleanupRead(m, "poll")
            BY <1>0, <3>3 DEF CleanupRead, ManagerTypeOK
        <3> QED BY <1>4, <3>1, <3>2, <3>3
    <2> QED BY <1>1, <2>1
<1>5. CASE CleanupRemove(m)
    <2> DEFINE i == Head(mids[m])
    <2>1. /\ mpc[m] = "clean" /\ mstep[m] \in 1..4 /\ mids[m] \in Seq(WoIds) /\ mids[m] # <<>>
          /\ woRequests' = IF mstep[m] = 2 THEN [woRequests EXCEPT ![i] = 0] ELSE woRequests
          /\ woTimestamps' = IF mstep[m] = 4 THEN woTimestamps \ {i} ELSE woTimestamps
          /\ \A k \in Managers \ {m} : mpc'[k] = mpc[k] /\ mids'[k] = mids[k] /\ mstep'[k] = mstep[k]
          /\ mpc'[m] = "clean" => \/ mstep'[m] = 1
                                  \/ mstep[m] < 4 /\ mids'[m] = mids[m] /\ mstep'[m] = mstep[m] + 1
        BY <1>0, <1>5 DEF CleanupRemove, RemoveRecord, CleanupOrder, ManagerFormed, ManagerTypeOK
    <2>2. i \in WoIds /\ i \in ToSet(mids[m])
        BY <2>1, PopProperties
    <2>3. mstep[m] >= 3 => woRequests[i] = 0
        BY <2>1 DEF RequestInv
    <2>4. mstep[m] >= 2 => woRequests'[i] = 0
        BY <1>0, <2>1, <2>2, <2>3 DEF StoreTypeOK
    <2>5. \A j \in WoIds : woRequests'[j] \in {0, woRequests[j]}
        BY <1>0, <2>1 DEF StoreTypeOK
    <2>6. \A l \in Listeners : lpc[l] = "set_request" => lreq[l].id # i
        BY <2>2 DEF SubmissionSpared, InSubmission
    <2>7. mpc'[m] = "clean" /\ mstep'[m] >= 3 => woRequests'[Head(mids'[m])] = 0
        BY <2>1, <2>4
    <2> HIDE DEF i
    <2>8. RequestHasTimestamp'
        BY <2>1, <2>2, <2>4, <2>5 DEF RequestInv, RequestHasTimestamp
    <2>9. \A l \in Listeners : lpc'[l] = "set_request" => lreq'[l].id \in woTimestamps'
        BY <1>0, <2>1, <2>6 DEF RequestInv
    <2>10. ASSUME NEW l \in Listeners, lpc'[l] \in {"purge_remove", "boot_reap"}, lstep'[l] >= 2
           PROVE  woRequests'[lvictim'[l]] = 0
        <3>1. woRequests[lvictim[l]] = 0 /\ lvictim[l] \in WoIds
            BY <1>0, <2>10 DEF RequestInv, TypeInv, ListenerFormed
        <3> QED BY <1>0, <2>5, <3>1
    <2>11. ASSUME NEW k \in Managers, mpc'[k] = "clean", mstep'[k] >= 3
           PROVE  woRequests'[Head(mids'[k])] = 0
        <3>1. CASE k = m
            BY <2>7, <2>11, <3>1
        <3>2. CASE k # m
            <4>1. woRequests[Head(mids[k])] = 0 /\ Head(mids[k]) \in WoIds
                BY <2>1, <2>11, <3>2, PopProperties DEF RequestInv, TypeInv, TypeOK, ManagerTypeOK,
                       ManagerFormed
            <4> QED BY <2>1, <2>5, <3>2, <4>1
        <3> QED BY <3>1, <3>2
    <2> QED BY <2>8, <2>9, <2>10, <2>11 DEF RequestInv
<1> QED BY <1>2, <1>3, <1>4, <1>5 DEF SingletonStep, ManagerStep

\* The same, with what spares submissions from the clean-ups.
ReachInv ==
    /\ TypeInv /\ RequestInv /\ CleanedRan
    /\ MaxSubmits <= 1 => OnceInv
    /\ Deathless => Undisturbed

(***************************************************************************)
(* Every request in the store has its timestamp, so it can be reported,    *)
(* purged and cleaned up: one listener, restarted at any point; managers   *)
(* that die at any point when every id is used once, or ids used again     *)
(* when the managers do not die.                                           *)
(***************************************************************************)
THEOREM OneListenerReachesRequests ==
    ASSUME NEW l, Listeners = {l}, MaxSubmits <= 1 \/ Deathless
    PROVE  Spec => []RequestHasTimestamp
<1>1. Init => ReachInv
    <2> SUFFICES ASSUME Init PROVE ReachInv
        OBVIOUS
    <2>1. TypeInv /\ OnceInv /\ Undisturbed
        BY InitTypes, InitOnce, SingletonAssumption
        DEF Init, ListenerInit, ManagerInit, StoreInit, Undisturbed
    <2>2. RequestInv
        BY DEF Init, StoreInit, ListenerInit, ManagerInit, RequestInv, RequestHasTimestamp
    <2>3. CleanedRan
        BY DEF Init, StoreInit, ManagerInit, CleanedRan, ToSet
    <2> QED BY <2>1, <2>2, <2>3 DEF ReachInv
<1>2. ReachInv /\ [Next]_vars => ReachInv'
    <2> SUFFICES ASSUME ReachInv, [Next]_vars PROVE ReachInv'
        OBVIOUS
    <2>1. TypeInv /\ TypeInv' /\ CleanedRan'
        BY NextTypes, CleanedRanKept DEF ReachInv
    <2>2. MaxSubmits <= 1 => OnceInv'
        BY NextOnce DEF ReachInv
    <2>3. Deathless => Undisturbed'
        BY UndisturbedKept DEF ReachInv
    <2>4. SubmissionSpared
        <3> SUFFICES ASSUME NEW m \in Managers, InSubmission(l), lreq[l].id \in ToSet(mids[m])
                     PROVE  FALSE
            BY DEF SubmissionSpared
        <3>1. CASE MaxSubmits <= 1
            <4>1. Ran(lreq[l].id)
                BY DEF ReachInv, CleanedRan
            <4>2. SubmissionAlone(l)
                BY <3>1 DEF ReachInv, OnceInv
            <4> QED BY <4>1, <4>2 DEF SubmissionAlone
        <3>2. CASE Deathless
            <4>1. mids[m] = <<>>
                BY <3>2 DEF ReachInv, Undisturbed
            <4> QED BY <4>1 DEF ToSet
        <3> QED BY <3>1, <3>2
    <2>5. RequestInv'
        <3>1. CASE UNCHANGED vars
            BY <3>1 DEF vars, storeVars, orderVars, listenerVars, scanVars, managerVars, managerLocals,
                   ReachInv, RequestInv, RequestHasTimestamp
        <3>2. CASE (ListenerStep(l) \/ ClientRequest(l) \/ ListenerRestart(l)) /\ UNCHANGED managerVars
            BY <2>1, <2>4, <3>2, RequestByListener DEF ReachInv
        <3>3. ASSUME NEW m \in Managers, SingletonStep(m) \/ ManagerCrash(m), UNCHANGED listenerVars
              PROVE  RequestInv'
            BY <2>1, <2>4, <3>3, RequestByManager DEF ReachInv
        <3> QED BY <3>1, <3>2, <3>3 DEF Next
    <2> QED BY <2>1, <2>2, <2>3, <2>5 DEF ReachInv
<1>3. ReachInv => RequestHasTimestamp
    BY DEF ReachInv, RequestInv
<1> QED BY <1>1, <1>2, <1>3, PTL DEF Spec

-----------------------------------------------------------------------------
(***************************************************************************)
(* Synchronous mode with one listener, any number of workers, ids and      *)
(* managers. With two listeners in front of one zmq_url both properties    *)
(* fail: one that boots removes the order the other has under way, and the *)
(* manager receives in another order than the queue holds.                 *)
(***************************************************************************)

(***************************************************************************)
(* The inductive invariant                                                 *)
(***************************************************************************)

\* The request the listener has sent, or is about to.
Sent(l) == [from |-> l, id |-> lreq[l].id, num |-> lreq[l].num]

TargetQueue == woScheduled[WorkerOf[ZmqTarget]]

InSyncSubmission(l) ==
    lpc[l] \in {"purge_pool", "purge_select", "purge_unlist", "purge_remove", "check",
                "set_timestamp", "set_request", "schedule", "zmq_send", "zmq_wait",
                "sync_get"}

\* What the tables and the processes hold is keyed as their variables say.
SyncShape ==
    /\ DOMAIN woRequests = WoIds /\ DOMAIN woResponses = WoIds
    /\ DOMAIN woScheduled = Workers /\ DOMAIN woProcessed = Workers
    /\ DOMAIN lpc = Listeners /\ DOMAIN lreq = Listeners
    /\ DOMAIN mpc = Managers /\ DOMAIN mwo = Managers /\ DOMAIN mreq = Managers
    /\ DOMAIN serving = Managers /\ DOMAIN zmqOut = Listeners
    /\ submits \in [WoIds -> Nat]
    /\ lrestarts \in Nat

\* The one request in flight is on the way, being served, or replied to.
OneRequest(l) ==
    /\ InSyncSubmission(l) => lreq[l].id \in WoIds /\ lreq[l].num \in Nat \ {0}
    /\ lpc[l] # "zmq_wait" => zmqIn = <<>> /\ serving[ZmqTarget] = NoServe /\ ~zmqOut[l]
    /\ zmqIn \in {<<>>, <<Sent(l)>>}
    /\ serving[ZmqTarget] \in {NoServe, Sent(l)}
    /\ zmqIn # <<>> => serving[ZmqTarget] = NoServe /\ ~zmqOut[l]
    /\ serving[ZmqTarget] # NoServe => ~zmqOut[l]
    /\ zmqOut[l] \in BOOLEAN
    /\ \A m \in Managers \ {ZmqTarget} : serving[m] = NoServe
    /\ \A m \in Managers : mpc[m] = "match" => m = ZmqTarget /\ serving[m] # NoServe

\* The target's queue holds the order in flight from its scheduling until
\* csv_match_pop takes it, and nothing else.
QueueInFlight(l) ==
    /\ TargetQueue \in {<<>>, <<lreq[l].id>>}
    /\ TargetQueue # <<>> => ForTarget(l) /\ lpc[l] \in {"zmq_send", "zmq_wait"}
    /\ serving[ZmqTarget] # NoServe /\ mpc[ZmqTarget] # "match" => TargetQueue = <<>>
    /\ zmqOut[l] => TargetQueue = <<>>
    /\ /\ ForTarget(l)
       /\ lpc[l] = "zmq_send" \/ zmqIn # <<>> \/ mpc[ZmqTarget] = "match"
       => TargetQueue # <<>>

\* While no manager has died, the clean-ups find nothing to remove, and the
\* target works on the request in flight and on no other.
SyncUndisturbed(l) ==
    /\ \A m \in Managers :
           /\ mpc[m] \notin {"down", "clean", "clean_unlist"}
           /\ mpc[m] \in {"boot", "join", "clean_read"} =>
                  woProcessed[WorkerOf[m]] = <<>> /\ serving[m] = NoServe
           /\ mpc[m] \in {"read", "mark", "execute", "receipt", "persist", "append", "clear"} =>
                  m = ZmqTarget /\ serving[m] # NoServe /\ mwo[m] = lreq[l].id
           /\ mpc[m] \in {"mark", "execute", "receipt", "persist", "append", "clear"} =>
                  mreq[m] = lreq[l].num
           /\ mpc[m] \in {"append", "clear"} => Fetched(l)
    /\ lpc[l] \in {"schedule", "zmq_send", "zmq_wait"} => woRequests[lreq[l].id] = lreq[l].num
    /\ ForTarget(l) /\ serving[ZmqTarget] # NoServe /\ mpc[ZmqTarget] = "poll" => Fetched(l)
    /\ ForTarget(l) /\ (zmqOut[l] \/ lpc[l] = "sync_get") => Fetched(l)

SyncInv(l) ==
    /\ SyncShape
    /\ lrestarts = 0 => OneRequest(l) /\ QueueInFlight(l)
    /\ lrestarts = 0 /\ died = {} => SyncUndisturbed(l)

(***************************************************************************)
(* The listener                                                            *)
(***************************************************************************)

\* A step of the listener outside the exchange over the socket.
PlainStep(l) ==
    /\ lpc[l] \notin {"zmq_send", "zmq_wait", "sync_get"}
    /\ lpc'[l] \notin {"zmq_send", "zmq_wait", "sync_get"}
    /\ DOMAIN lpc' = Listeners /\ DOMAIN lreq' = Listeners
    /\ DOMAIN woRequests' = WoIds /\ DOMAIN woResponses' = WoIds
    /\ DOMAIN woProcessed' = Workers
    /\ submits' \in [WoIds -> Nat]
    /\ lrestarts = 0 /\ InSyncSubmission(l)' =>
           lreq'[l].id \in WoIds /\ lreq'[l].num \in Nat \ {0}
    /\ lrestarts = 0 /\ lpc'[l] = "schedule" => woRequests'[lreq'[l].id] = lreq'[l].num
    /\ \A w \in Workers : woProcessed[w] = <<>> => woProcessed'[w] = <<>>
    /\ UNCHANGED <<woScheduled, lrestarts, zmqVars, managerVars>>

(***************************************************************************)
(* Nothing is in flight outside the exchange, and a plain step starts none.*)
(***************************************************************************)
LEMMA PlainStepKeeps ==
    ASSUME NEW l, Listeners = {l}, SyncInv(l), PlainStep(l)
    PROVE  SyncInv(l)'
<1> USE SyncAssumption, SingletonAssumption, StoreAssumption
<1>1. SyncShape'
    BY DEF SyncInv, SyncShape, PlainStep, managerVars, managerLocals, zmqVars
<1>2. ASSUME lrestarts' = 0 PROVE OneRequest(l)' /\ QueueInFlight(l)'
    <2>1. OneRequest(l) /\ QueueInFlight(l)
        BY <1>2 DEF SyncInv, PlainStep
    <2>2. /\ zmqIn = <<>> /\ serving[ZmqTarget] = NoServe /\ ~zmqOut[l]
          /\ TargetQueue = <<>>
        BY <2>1 DEF OneRequest, QueueInFlight, PlainStep
    <2>3. UNCHANGED <<zmqIn, serving, zmqOut, mpc, woScheduled>>
        BY DEF PlainStep, zmqVars, managerVars
    <2>4. OneRequest(l)'
        BY <1>2, <2>1, <2>2, <2>3 DEF OneRequest, PlainStep
    <2>5. QueueInFlight(l)'
        BY <2>1, <2>2, <2>3 DEF OneRequest, QueueInFlight, PlainStep, TargetQueue
    <2> QED BY <2>4, <2>5
<1>3. ASSUME lrestarts' = 0, died' = {} PROVE SyncUndisturbed(l)'
    <2>1. OneRequest(l) /\ SyncUndisturbed(l)
        BY <1>3 DEF SyncInv, PlainStep, zmqVars
    <2>2. serving[ZmqTarget] = NoServe /\ ~zmqOut[l]
        BY <2>1 DEF OneRequest, PlainStep
    <2>3. UNCHANGED <<serving, zmqOut, mpc, mwo, mreq>>
        BY DEF PlainStep, zmqVars, managerVars, managerLocals
    <2>4. \A m \in Managers : WorkerOf[m] \in Workers
        OBVIOUS
    <2> QED BY <1>3, <2>1, <2>2, <2>3, <2>4 DEF SyncUndisturbed, PlainStep
<1> QED BY <1>1, <1>2, <1>3 DEF SyncInv

(***************************************************************************)
(* Every other step of the listener is plain.                              *)
(***************************************************************************)
LEMMA BootStepsPlain ==
    ASSUME NEW l, Listeners = {l}, SyncInv(l), UNCHANGED <<managerVars, zmqVars>>,
           \/ BootLookup(l) \/ BootLookupPool(l) \/ BootRead(l) \/ BootKeep(l)
           \/ BootDiscard(l) \/ BootReap(l) \/ BootDone(l)
    PROVE  PlainStep(l)
<1> USE DEF GoTo, clientVars, storeVars, orderVars, queueVars
<1>0. SyncShape
    BY DEF SyncInv
<1>1. CASE BootLookup(l)
    BY <1>0, <1>1 DEF BootLookup, PlainStep, SyncShape, InSyncSubmission
<1>2. CASE BootLookupPool(l)
    BY <1>0, <1>2 DEF BootLookupPool, PlainStep, SyncShape, InSyncSubmission
<1>3. CASE BootRead(l)
    BY <1>0, <1>3 DEF BootRead, PlainStep, SyncShape, InSyncSubmission
<1>4. CASE BootKeep(l)
    BY <1>0, <1>4 DEF BootKeep, PlainStep, SyncShape, InSyncSubmission
<1>5. CASE BootDiscard(l)
    BY <1>0, <1>5 DEF BootDiscard, PlainStep, SyncShape, InSyncSubmission
<1>6. CASE BootReap(l)
    <2>1. lpc'[l] \in {"boot_reap", "boot_next"} /\ DOMAIN lpc' = Listeners
        BY <1>0, <1>6 DEF BootReap, SyncShape
    <2>2. DOMAIN woRequests' = WoIds /\ DOMAIN woResponses' = WoIds
        BY <1>0, <1>6 DEF BootReap, SyncShape, RemoveRecord
    <2> QED BY <1>0, <1>6, <2>1, <2>2 DEF BootReap, PlainStep, SyncShape, InSyncSubmission
<1>7. CASE BootDone(l)
    BY <1>0, <1>7 DEF BootDone, PlainStep, SyncShape, InSyncSubmission
<1> QED BY <1>1, <1>2, <1>3, <1>4, <1>5, <1>6, <1>7

LEMMA PurgeStepsPlain ==
    ASSUME NEW l, Listeners = {l}, SyncInv(l), UNCHANGED <<managerVars, zmqVars>>,
           \/ SyncPurgeRead(l) \/ PurgeSelect(l) \/ PurgeUnlist(l)
           \/ PurgeRemove(l) \/ PurgeFinish(l)
    PROVE  PlainStep(l)
<1> USE DEF GoTo, clientVars, storeVars, orderVars, queueVars
<1>0. SyncShape /\ (lrestarts = 0 => OneRequest(l))
    BY DEF SyncInv
<1>1. InSyncSubmission(l) /\ lreq' = lreq
    BY DEF InSyncSubmission, SyncPurgeRead, PurgeSelect, PurgeUnlist, PurgeRemove, PurgeFinish
<1>2. lrestarts = 0 => lreq'[l].id \in WoIds /\ lreq'[l].num \in Nat \ {0}
    BY <1>0, <1>1 DEF OneRequest
<1>3. CASE SyncPurgeRead(l)
    BY <1>0, <1>2, <1>3 DEF SyncPurgeRead, PlainStep, SyncShape
<1>4. CASE PurgeSelect(l)
    <2>1. lpc'[l] \in {"reply", "purge_unlist"} /\ DOMAIN lpc' = Listeners
        BY <1>0, <1>4 DEF PurgeSelect, Answer, SyncShape
    <2> QED BY <1>0, <1>2, <1>4, <2>1 DEF PurgeSelect, PlainStep, SyncShape
<1>5. CASE PurgeUnlist(l)
    <2>1. PICK w \in Workers : woProcessed' = CsvSearchDelete(woProcessed, w, lvictim[l])
        BY <1>5 DEF PurgeUnlist
    <2>2. DOMAIN woProcessed' = Workers
        BY <1>0, <2>1 DEF CsvSearchDelete, SyncShape
    <2>3. RemoveFirst(<<>>, lvictim[l]) = <<>>
        BY DEF RemoveFirst
    <2>4. \A v \in Workers : woProcessed[v] = <<>> => woProcessed'[v] = <<>>
        BY <1>0, <2>1, <2>3 DEF CsvSearchDelete, SyncShape
    <2> QED BY <1>0, <1>2, <1>5, <2>2, <2>4 DEF PurgeUnlist, PlainStep, SyncShape
<1>6. CASE PurgeRemove(l)
    <2>1. DOMAIN woRequests' = WoIds /\ DOMAIN woResponses' = WoIds
        BY <1>0, <1>6 DEF PurgeRemove, SyncShape, RemoveRecord
    <2> QED BY <1>0, <1>2, <1>6, <2>1 DEF PurgeRemove, PlainStep, SyncShape
<1>7. CASE PurgeFinish(l)
    <2>1. DOMAIN woRequests' = WoIds /\ DOMAIN woResponses' = WoIds
        BY <1>0, <1>7 DEF PurgeFinish, SyncShape, RemoveRecord
    <2>2. lpc'[l] \in {"reply", "check"} /\ DOMAIN lpc' = Listeners
        BY <1>0, <1>7 DEF PurgeFinish, Answer, SyncShape
    <2> QED BY <1>0, <1>2, <1>7, <2>1, <2>2 DEF PurgeFinish, PlainStep, SyncShape
<1> QED BY <1>3, <1>4, <1>5, <1>6, <1>7

LEMMA SubmitStepsPlain ==
    ASSUME NEW l, Listeners = {l}, SyncInv(l), UNCHANGED <<managerVars, zmqVars>>,
           SubmitCheck(l) \/ SubmitTimestamp(l) \/ SubmitRequest(l)
    PROVE  PlainStep(l)
<1> USE DEF GoTo, clientVars, storeVars, orderVars, queueVars
<1>0. SyncShape /\ (lrestarts = 0 => OneRequest(l))
    BY DEF SyncInv
<1>1. InSyncSubmission(l) /\ lreq' = lreq
    BY DEF InSyncSubmission, SubmitCheck, SubmitTimestamp, SubmitRequest
<1>2. lrestarts = 0 => lreq'[l].id \in WoIds /\ lreq'[l].num \in Nat \ {0}
    BY <1>0, <1>1 DEF OneRequest
<1>3. CASE SubmitCheck(l)
    <2>1. lpc'[l] \in {"reply", "set_timestamp"} /\ DOMAIN lpc' = Listeners
        BY <1>0, <1>3 DEF SubmitCheck, Answer, SyncShape
    <2> QED BY <1>0, <1>2, <1>3, <2>1 DEF SubmitCheck, PlainStep, SyncShape
<1>4. CASE SubmitTimestamp(l)
    BY <1>0, <1>2, <1>4 DEF SubmitTimestamp, PlainStep, SyncShape
<1>5. CASE SubmitRequest(l)
    <2>1. /\ lrestarts = 0 => woRequests'[lreq'[l].id] = lreq'[l].num
          /\ DOMAIN woRequests' = WoIds
        BY <1>0, <1>1, <1>2, <1>5 DEF SubmitRequest, SyncShape
    <2> QED BY <1>0, <1>2, <1>5, <2>1 DEF SubmitRequest, PlainStep, SyncShape
<1> QED BY <1>3, <1>4, <1>5

LEMMA OtherStepsPlain ==
    ASSUME NEW l, Listeners = {l}, SyncInv(l), UNCHANGED <<managerVars, zmqVars>>,
           GetResultTimestamp(l) \/ ReceiptStore(l) \/ Reply(l) \/ ClientRequest(l)
    PROVE  PlainStep(l)
<1> USE DEF GoTo, Answer, clientVars, storeVars, orderVars, queueVars
<1>0. SyncShape
    BY DEF SyncInv
<1>1. CASE GetResultTimestamp(l)
    BY <1>0, <1>1 DEF GetResultTimestamp, PlainStep, SyncShape, InSyncSubmission
<1>2. CASE ReceiptStore(l)
    BY <1>0, <1>2 DEF ReceiptStore, PlainStep, SyncShape, InSyncSubmission
<1>3. CASE Reply(l)
    BY <1>0, <1>3 DEF Reply, PlainStep, SyncShape, InSyncSubmission
<1>4. ASSUME NEW i \in WoIds, NEW w \in Workers, SubmitReceive(l, i, w) PROVE PlainStep(l)
    <2>1. /\ lpc[l] = "idle"
          /\ lpc'[l] \in {"reply", "purge_pool", "check"} /\ DOMAIN lpc' = Listeners
        BY <1>0, <1>4 DEF SubmitReceive, SyncShape
    <2>2. submits[i] \in Nat /\ submits' \in [WoIds -> Nat]
        BY <1>0, <1>4 DEF SubmitReceive, SyncShape
    <2>3. /\ DOMAIN lreq' = Listeners
          /\ lreq'[l] = [id |-> i, worker |-> w, num |-> submits[i] + 1]
        BY <1>0, <1>4 DEF SubmitReceive, SyncShape
    <2>4. lreq'[l].id \in WoIds /\ lreq'[l].num \in Nat \ {0}
        BY <2>2, <2>3
    <2> QED BY <1>0, <1>4, <2>1, <2>2, <2>3, <2>4 DEF SubmitReceive, PlainStep, SyncShape
<1>5. ASSUME NEW i \in WoIds, GetResult(l, i) PROVE PlainStep(l)
    <2>1. lpc'[l] \in {"reply", "get_timestamp"} /\ DOMAIN lpc' = Listeners
        BY <1>0, <1>5 DEF GetResult, SyncShape
    <2> QED BY <1>0, <1>5, <2>1 DEF GetResult, PlainStep, SyncShape, InSyncSubmission
<1>6. ASSUME NEW i \in WoIds, ReceiptCreate(l, i) PROVE PlainStep(l)
    <2>1. lpc'[l] \in {"reply", "store_receipt"} /\ DOMAIN lpc' = Listeners
        BY <1>0, <1>6 DEF ReceiptCreate, SyncShape
    <2> QED BY <1>0, <1>6, <2>1 DEF ReceiptCreate, PlainStep, SyncShape, InSyncSubmission
<1> QED BY <1>1, <1>2, <1>3, <1>4, <1>5, <1>6 DEF ClientRequest

(***************************************************************************)
(* The exchange over the socket, on the side of the listener.              *)
(***************************************************************************)
LEMMA ExchangeKeeps ==
    ASSUME NEW l, Listeners = {l}, SyncInv(l), UNCHANGED managerVars,
           SyncSchedule(l) \/ ZmqSend(l) \/ ZmqRecv(l) \/ SyncGet(l)
    PROVE  SyncInv(l)'
<1> USE SyncAssumption, SingletonAssumption, StoreAssumption
<1> USE DEF GoTo, Answer, clientVars, storeVars, orderVars, queueVars, zmqVars,
            managerVars, managerLocals
<1>0. SyncShape /\ UNCHANGED <<lrestarts, died, mpc, mwo, mreq, serving, woProcessed,
                               woRequests, woResponses, submits>>
    BY DEF SyncInv, SyncSchedule, ZmqSend, ZmqRecv, SyncGet
<1>1. SyncShape'
    <2>1. CASE SyncSchedule(l)
        BY <1>0, <2>1 DEF SyncSchedule, CsvAppend, SyncShape
    <2>2. CASE ZmqSend(l)
        BY <1>0, <2>2 DEF ZmqSend, SyncShape
    <2>3. CASE ZmqRecv(l)
        BY <1>0, <2>3 DEF ZmqRecv, SyncShape
    <2>4. CASE SyncGet(l)
        BY <1>0, <2>4 DEF SyncGet, SyncShape
    <2> QED BY <2>1, <2>2, <2>3, <2>4
<1>2. ASSUME lrestarts' = 0
      PROVE  /\ OneRequest(l)' /\ QueueInFlight(l)'
             /\ died' = {} => SyncUndisturbed(l)'
    <2>0. OneRequest(l) /\ QueueInFlight(l) /\ (died = {} => SyncUndisturbed(l))
        BY <1>0, <1>2 DEF SyncInv
    <2>1. CASE SyncSchedule(l)
        <3>1. /\ lpc[l] = "schedule" /\ lpc'[l] = "zmq_send"
              /\ UNCHANGED <<lreq, zmqIn, zmqOut>>
            BY <1>0, <2>1 DEF SyncSchedule, SyncShape
        <3>2. /\ zmqIn = <<>> /\ serving[ZmqTarget] = NoServe /\ ~zmqOut[l]
              /\ TargetQueue = <<>>
              /\ lreq[l].id \in WoIds /\ lreq[l].num \in Nat \ {0}
            BY <2>0, <3>1 DEF OneRequest, QueueInFlight, InSyncSubmission
        <3>3. OneRequest(l)'
            BY <1>0, <2>0, <3>1, <3>2 DEF OneRequest, InSyncSubmission, Sent
        <3>4. TargetQueue' = IF ForTarget(l) THEN <<lreq[l].id>> ELSE <<>>
            <4>1. woScheduled' = [woScheduled EXCEPT ![lreq[l].worker] = Append(@, lreq[l].id)]
                BY <2>1 DEF SyncSchedule, CsvAppend
            <4>2. Append(<<>>, lreq[l].id) = <<lreq[l].id>>
                OBVIOUS
            <4> QED BY <1>0, <3>2, <4>1, <4>2 DEF TargetQueue, ForTarget, SyncShape
        <3>5. QueueInFlight(l)'
            BY <1>0, <2>0, <3>1, <3>2, <3>4 DEF QueueInFlight, OneRequest, ForTarget
        <3>6. ASSUME died' = {} PROVE SyncUndisturbed(l)'
            BY <1>0, <2>0, <3>1, <3>2, <3>6 DEF SyncUndisturbed, Fetched, ForTarget
        <3> QED BY <3>3, <3>5, <3>6
    <2>2. CASE ZmqSend(l)
        <3>1. /\ lpc[l] = "zmq_send" /\ lpc'[l] = "zmq_wait"
              /\ UNCHANGED <<lreq, zmqOut, woScheduled>>
            BY <1>0, <2>2 DEF ZmqSend, SyncShape
        <3>2. /\ zmqIn = <<>> /\ serving[ZmqTarget] = NoServe /\ ~zmqOut[l]
              /\ lreq[l].id \in WoIds /\ lreq[l].num \in Nat \ {0}
            BY <2>0, <3>1 DEF OneRequest, InSyncSubmission
        <3>3. zmqIn' = <<Sent(l)>> /\ Sent(l)' = Sent(l)
            BY <2>2, <3>1, <3>2 DEF ZmqSend, Sent
        <3>4. OneRequest(l)'
            BY <1>0, <2>0, <3>1, <3>2, <3>3 DEF OneRequest
        <3>5. QueueInFlight(l)'
            BY <1>0, <2>0, <3>1, <3>2 DEF QueueInFlight, OneRequest, ForTarget, TargetQueue
        <3>6. ASSUME died' = {} PROVE SyncUndisturbed(l)'
            BY <1>0, <2>0, <3>1, <3>2, <3>6 DEF SyncUndisturbed, Fetched, ForTarget
        <3> QED BY <3>4, <3>5, <3>6
    <2>3. CASE ZmqRecv(l)
        <3>1. /\ lpc[l] = "zmq_wait" /\ lpc'[l] = "sync_get" /\ zmqOut[l] /\ zmqOut'[l] = FALSE
              /\ UNCHANGED <<lreq, zmqIn, woScheduled>>
            BY <1>0, <2>3 DEF ZmqRecv, SyncShape
        <3>2. /\ zmqIn = <<>> /\ serving[ZmqTarget] = NoServe /\ TargetQueue = <<>>
              /\ lreq[l].id \in WoIds /\ lreq[l].num \in Nat \ {0}
            BY <2>0, <3>1 DEF OneRequest, QueueInFlight, InSyncSubmission
        <3>4. OneRequest(l)'
            BY <1>0, <2>0, <3>1, <3>2 DEF OneRequest, Sent
        <3>5. QueueInFlight(l)'
            BY <1>0, <2>0, <3>1, <3>2 DEF QueueInFlight, OneRequest, ForTarget, TargetQueue
        <3>6. ASSUME died' = {} PROVE SyncUndisturbed(l)'
            BY <1>0, <2>0, <3>1, <3>2, <3>6 DEF SyncUndisturbed, Fetched, ForTarget
        <3> QED BY <3>4, <3>5, <3>6
    <2>4. CASE SyncGet(l)
        <3>1. /\ lpc[l] = "sync_get" /\ lpc'[l] = "reply"
              /\ UNCHANGED <<zmqIn, zmqOut, woScheduled>>
            BY <1>0, <2>4 DEF SyncGet, SyncShape
        <3>2. /\ zmqIn = <<>> /\ serving[ZmqTarget] = NoServe /\ ~zmqOut[l]
              /\ TargetQueue = <<>>
            BY <2>0, <3>1 DEF OneRequest, QueueInFlight
        <3>4. OneRequest(l)'
            BY <1>0, <2>0, <3>1, <3>2 DEF OneRequest, InSyncSubmission
        <3>5. QueueInFlight(l)'
            BY <1>0, <2>0, <3>1, <3>2 DEF QueueInFlight, OneRequest, TargetQueue
        <3>6. ASSUME died' = {} PROVE SyncUndisturbed(l)'
            BY <1>0, <2>0, <3>1, <3>2, <3>6 DEF SyncUndisturbed
        <3> QED BY <3>4, <3>5, <3>6
    <2> QED BY <2>1, <2>2, <2>3, <2>4
<1> QED BY <1>1, <1>2 DEF SyncInv

(***************************************************************************)
(* The invariant claims nothing of a listener that has restarted.          *)
(***************************************************************************)
LEMMA RestartKeeps ==
    ASSUME NEW l, Listeners = {l}, SyncInv(l), UNCHANGED managerVars, SyncListenerRestart(l)
    PROVE  SyncInv(l)'
<1>1. lrestarts' = lrestarts + 1 /\ lrestarts \in Nat
    BY DEF SyncInv, SyncShape, SyncListenerRestart, ListenerRestart
<1>2. SyncShape'
    BY <1>1 DEF SyncInv, SyncShape, SyncListenerRestart, ListenerRestart, GoTo, managerVars,
                managerLocals, storeVars, orderVars, queueVars, clientVars
<1> QED BY <1>1, <1>2 DEF SyncInv

(***************************************************************************)
(* The manager                                                             *)
(***************************************************************************)

(***************************************************************************)
(* Booting, cleaning up and the processing of an order.                    *)
(***************************************************************************)
LEMMA ProcessKeeps ==
    ASSUME NEW l, Listeners = {l}, SyncInv(l), UNCHANGED listenerVars,
           NEW m \in Managers, SyncProcess(m)
    PROVE  SyncInv(l)'
<1> USE SyncAssumption, SingletonAssumption, StoreAssumption
<1> USE DEF MGoTo, storeVars, orderVars, queueVars, zmqVars, managerLocals
<1>0. /\ SyncShape /\ UNCHANGED <<lrestarts, lpc, lreq, submits>>
      /\ UNCHANGED <<zmqIn, serving, zmqOut, died>>
    BY DEF SyncInv, SyncProcess, listenerVars, clientVars
<1>A. \/ BootAddWorker(m) \/ JoinPool(m)
      \/ CleanupRead(m, "poll") \/ CleanupRemove(m) \/ CleanupUnlist(m, "poll")
      \/ ReadRequest(m) \/ MarkProcessing(m) \/ Execute(m)
      \/ UpdateReceipt(m) /\ mpc'[m] # "down"
      \/ PersistResponse(m) \/ AppendProcessed(m) \/ ClearProcessing(m)
      \/ ManagerRestart(m)
    BY DEF SyncProcess
<1>1. /\ woScheduled' = woScheduled
      /\ DOMAIN mpc' = Managers /\ mpc[m] # "match" /\ mpc'[m] # "match"
      /\ \A k \in Managers \ {m} : mpc'[k] = mpc[k] /\ mwo'[k] = mwo[k] /\ mreq'[k] = mreq[k]
      /\ DOMAIN mwo' = Managers /\ DOMAIN mreq' = Managers
      /\ DOMAIN woRequests' = WoIds /\ DOMAIN woResponses' = WoIds
      /\ DOMAIN woProcessed' = Workers
    <2> USE <1>0 DEF SyncShape
    <2>1. CASE BootAddWorker(m) BY <2>1 DEF BootAddWorker
    <2>2. CASE JoinPool(m) BY <2>2 DEF JoinPool
    <2>3. CASE CleanupRead(m, "poll") BY <2>3 DEF CleanupRead
    <2>4. CASE CleanupRemove(m) BY <2>4 DEF CleanupRemove, RemoveRecord
    <2>5. CASE CleanupUnlist(m, "poll") BY <2>5 DEF CleanupUnlist
    <2>6. CASE ReadRequest(m) BY <2>6 DEF ReadRequest
    <2>7. CASE MarkProcessing(m) BY <2>7 DEF MarkProcessing
    <2>8. CASE Execute(m) BY <2>8 DEF Execute
    <2>9. CASE UpdateReceipt(m) /\ mpc'[m] # "down"
        BY <2>9 DEF UpdateReceipt, Exit
    <2>10. CASE PersistResponse(m) BY <2>10 DEF PersistResponse
    <2>11. CASE AppendProcessed(m) BY <2>11 DEF AppendProcessed, CsvAppend
    <2>12. CASE ClearProcessing(m) BY <2>12 DEF ClearProcessing
    <2>13. CASE ManagerRestart(m) BY <2>13 DEF ManagerRestart
    <2> QED BY <1>A, <2>1, <2>2, <2>3, <2>4, <2>5, <2>6, <2>7, <2>8, <2>9, <2>10, <2>11,
               <2>12, <2>13
<1>2. SyncShape'
    BY <1>0, <1>1 DEF SyncShape
<1>3. ASSUME lrestarts' = 0 PROVE OneRequest(l)' /\ QueueInFlight(l)'
    <2>0. OneRequest(l) /\ QueueInFlight(l)
        BY <1>0, <1>3 DEF SyncInv
    <2>1. OneRequest(l)'
        BY <1>0, <1>1, <2>0 DEF OneRequest, InSyncSubmission, Sent
    <2>2. QueueInFlight(l)'
        BY <1>0, <1>1, <2>0 DEF QueueInFlight, TargetQueue, ForTarget
    <2> QED BY <2>1, <2>2
<1>4. ASSUME lrestarts' = 0, died' = {} PROVE SyncUndisturbed(l)'
    <2>0. OneRequest(l) /\ QueueInFlight(l) /\ SyncUndisturbed(l)
        BY <1>0, <1>4 DEF SyncInv
    <2>1. CASE BootAddWorker(m)
        BY <1>0, <1>1, <2>0, <2>1 DEF BootAddWorker, SyncUndisturbed, Fetched, ForTarget, SyncShape
    <2>2. CASE JoinPool(m)
        BY <1>0, <1>1, <2>0, <2>2 DEF JoinPool, SyncUndisturbed, Fetched, ForTarget, SyncShape
    <2>3. CASE CleanupRead(m, "poll")
        <3>1. mpc'[m] = "poll" /\ serving[m] = NoServe
            BY <1>0, <2>0, <2>3 DEF CleanupRead, SyncUndisturbed, SyncShape
        <3> QED BY <1>0, <1>1, <2>0, <2>3, <3>1 DEF CleanupRead, SyncUndisturbed, Fetched, ForTarget, SyncShape
    <2>4. CASE CleanupRemove(m)
        BY <2>0, <2>4 DEF CleanupRemove, SyncUndisturbed
    <2>5. CASE CleanupUnlist(m, "poll")
        BY <2>0, <2>5 DEF CleanupUnlist, SyncUndisturbed
    <2>6. CASE ReadRequest(m)
        <3>1. m = ZmqTarget /\ serving[m] # NoServe /\ mwo[m] = lreq[l].id
            BY <2>0, <2>6 DEF ReadRequest, SyncUndisturbed
        <3>2. lpc[l] = "zmq_wait"
            BY <2>0, <3>1 DEF OneRequest
        <3>3. woRequests[mwo[m]] = lreq[l].num /\ lreq[l].num # 0
            BY <2>0, <3>1, <3>2 DEF OneRequest, InSyncSubmission, SyncUndisturbed
        <3>4. mpc'[m] = "mark" /\ mreq'[m] = lreq[l].num /\ mwo' = mwo
            BY <1>0, <2>6, <3>3 DEF ReadRequest, SyncShape
        <3> QED BY <1>0, <1>1, <2>0, <2>6, <3>1, <3>4
                DEF ReadRequest, SyncUndisturbed, Fetched, ForTarget
    <2>7. CASE MarkProcessing(m)
        BY <1>0, <1>1, <2>0, <2>7 DEF MarkProcessing, SyncUndisturbed, Fetched, ForTarget, SyncShape
    <2>8. CASE Execute(m)
        BY <1>0, <1>1, <2>0, <2>8 DEF Execute, SyncUndisturbed, Fetched, ForTarget, SyncShape
    <2>9. CASE UpdateReceipt(m) /\ mpc'[m] # "down"
        BY <1>0, <1>1, <2>0, <2>9 DEF UpdateReceipt, Exit, SyncUndisturbed, Fetched, ForTarget, SyncShape
    <2>10. CASE PersistResponse(m)
        <3>1. /\ m = ZmqTarget /\ serving[m] # NoServe
              /\ mwo[m] = lreq[l].id /\ mreq[m] = lreq[l].num
            BY <2>0, <2>10 DEF PersistResponse, SyncUndisturbed
        <3>2. lpc[l] = "zmq_wait" /\ lreq[l].id \in WoIds
            BY <2>0, <3>1 DEF OneRequest, InSyncSubmission
        <3>3. Fetched(l)'
            BY <1>0, <2>10, <3>1, <3>2 DEF PersistResponse, SyncShape, Fetched
        <3>4. mpc'[m] = "append" /\ UNCHANGED <<mwo, mreq, woRequests, woProcessed>>
            BY <1>0, <2>10 DEF PersistResponse, SyncShape
        <3> QED BY <1>0, <1>1, <2>0, <3>1, <3>3, <3>4 DEF SyncUndisturbed, ForTarget
    <2>11. CASE AppendProcessed(m)
        <3>1. mpc[m] = "append" /\ mpc'[m] = "clear"
            BY <1>0, <2>11 DEF AppendProcessed, SyncShape
        <3>2. \A k \in Managers \ {m} : woProcessed'[WorkerOf[k]] = woProcessed[WorkerOf[k]]
            BY <1>0, <2>11 DEF AppendProcessed, CsvAppend, SyncShape
        <3>3. UNCHANGED <<mwo, mreq, woRequests, woResponses>>
            BY <2>11 DEF AppendProcessed
        <3> QED BY <1>0, <1>1, <2>0, <3>1, <3>2, <3>3 DEF SyncUndisturbed, ForTarget, Fetched
    <2>12. CASE ClearProcessing(m)
        BY <1>0, <1>1, <2>0, <2>12 DEF ClearProcessing, SyncUndisturbed, Fetched, ForTarget, SyncShape
    <2>13. CASE ManagerRestart(m)
        BY <2>0, <2>13 DEF ManagerRestart, SyncUndisturbed
    <2> QED BY <1>A, <2>1, <2>2, <2>3, <2>4, <2>5, <2>6, <2>7, <2>8, <2>9, <2>10, <2>11,
               <2>12, <2>13
<1> QED BY <1>2, <1>3, <1>4 DEF SyncInv

(***************************************************************************)
(* Receiving a request, csv_match_pop and the reply.                       *)
(***************************************************************************)
LEMMA ServeKeeps ==
    ASSUME NEW l, Listeners = {l}, SyncInv(l), UNCHANGED listenerVars,
           NEW m \in Managers, SyncReceive(m) \/ MatchPop(m) \/ SyncSendReply(m)
    PROVE  SyncInv(l)'
<1> USE SyncAssumption, SingletonAssumption, StoreAssumption
<1> USE DEF MGoTo, storeVars, orderVars, queueVars, zmqVars, managerLocals
<1>0. /\ SyncShape /\ UNCHANGED <<lrestarts, lpc, lreq, submits>>
      /\ UNCHANGED <<died, woRequests, woResponses, woProcessed, mreq>>
    BY DEF SyncInv, SyncReceive, MatchPop, SyncSendReply, listenerVars, clientVars
<1>1. SyncShape'
    <2>1. CASE SyncReceive(m)
        BY <1>0, <2>1 DEF SyncReceive, SyncShape
    <2>2. CASE MatchPop(m)
        BY <1>0, <2>2 DEF MatchPop, CsvPop, SyncShape
    <2>3. CASE SyncSendReply(m)
        BY <1>0, <2>3 DEF SyncSendReply, SyncShape
    <2> QED BY <2>1, <2>2, <2>3
<1>2. ASSUME lrestarts' = 0
      PROVE  /\ OneRequest(l)' /\ QueueInFlight(l)'
             /\ died' = {} => SyncUndisturbed(l)'
    <2>0. OneRequest(l) /\ QueueInFlight(l) /\ (died = {} => SyncUndisturbed(l))
        BY <1>0, <1>2 DEF SyncInv
    <2>1. CASE SyncReceive(m)
        <3>1. /\ m = ZmqTarget /\ mpc[m] = "poll" /\ serving[m] = NoServe /\ zmqIn # <<>>
              /\ mpc' = [mpc EXCEPT ![m] = "match"]
              /\ UNCHANGED <<woScheduled, zmqOut, mwo>>
            BY <2>1 DEF SyncReceive
        <3>2. /\ zmqIn = <<Sent(l)>> /\ ~zmqOut[l] /\ lpc[l] = "zmq_wait"
              /\ lreq[l].id \in WoIds
            BY <2>0, <3>1 DEF OneRequest, InSyncSubmission
        <3>3. /\ zmqIn' = <<>> /\ serving' = [serving EXCEPT ![m] = Sent(l)]
              /\ Sent(l)' = Sent(l)
            BY <1>0, <2>1, <3>2 DEF SyncReceive, Sent
        <3>4. Sent(l) # NoServe
            BY <3>2 DEF Sent, NoServe
        <3>5. OneRequest(l)'
            <4> HIDE DEF Sent, NoServe
            <4> QED BY <1>0, <2>0, <3>1, <3>2, <3>3, <3>4 DEF OneRequest, InSyncSubmission, SyncShape
        <3>6. QueueInFlight(l)'
            BY <1>0, <2>0, <3>1, <3>2, <3>3 DEF QueueInFlight, TargetQueue, ForTarget, SyncShape
        <3>7. ASSUME died' = {} PROVE SyncUndisturbed(l)'
            BY <1>0, <2>0, <3>1, <3>2, <3>3, <3>7 DEF SyncUndisturbed, ForTarget, Fetched, SyncShape
        <3> QED BY <3>5, <3>6, <3>7
    <2>2. CASE MatchPop(m)
        <3>1. m = ZmqTarget /\ mpc[m] = "match" /\ serving[m] # NoServe
            BY <2>0, <2>2 DEF MatchPop, OneRequest
        <3>2. /\ serving[m] = Sent(l) /\ lpc[l] = "zmq_wait" /\ zmqIn = <<>> /\ ~zmqOut[l]
              /\ serving[m].id = lreq[l].id
              /\ UNCHANGED <<zmqIn, serving, zmqOut>>
            BY <2>0, <2>2, <3>1 DEF OneRequest, MatchPop, Sent
        <3>3. CASE TargetQueue = <<>>
            <4>1. /\ mpc' = [mpc EXCEPT ![m] = "poll"]
                  /\ mwo' = [mwo EXCEPT ![m] = 0]
                  /\ woScheduled' = woScheduled
                BY <2>2, <3>1, <3>3 DEF MatchPop, TargetQueue
            <4>2. ~ForTarget(l)
                BY <2>0, <3>1, <3>3 DEF QueueInFlight
            <4>3. OneRequest(l)'
                BY <1>0, <2>0, <3>1, <3>2, <4>1 DEF OneRequest, InSyncSubmission, Sent, SyncShape
            <4>4. QueueInFlight(l)'
                BY <1>0, <2>0, <3>1, <3>2, <3>3, <4>1, <4>2
                   DEF QueueInFlight, TargetQueue, ForTarget, SyncShape
            <4>5. ASSUME died' = {} PROVE SyncUndisturbed(l)'
                BY <1>0, <2>0, <3>1, <3>2, <4>1, <4>2, <4>5
                   DEF SyncUndisturbed, ForTarget, Fetched, SyncShape
            <4> QED BY <4>3, <4>4, <4>5
        <3>4. CASE TargetQueue = <<lreq[l].id>>
            <4>1. TargetQueue # <<>> /\ Head(TargetQueue) = serving[m].id
                BY <3>2, <3>4
            <4>2. /\ mpc' = [mpc EXCEPT ![m] = "read"]
                  /\ mwo' = [mwo EXCEPT ![m] = serving[m].id]
                  /\ woScheduled' = [woScheduled EXCEPT ![WorkerOf[m]] = Tail(@)]
                BY <2>2, <3>1, <4>1 DEF MatchPop, TargetQueue, CsvPop
            <4>3. TargetQueue' = <<>>
                <5>1. Tail(<<lreq[l].id>>) = <<>>
                    OBVIOUS
                <5> QED BY <1>0, <3>1, <3>4, <4>2, <5>1 DEF TargetQueue, SyncShape
            <4>4. OneRequest(l)'
                BY <1>0, <2>0, <3>1, <3>2, <4>2 DEF OneRequest, InSyncSubmission, Sent, SyncShape
            <4>5. QueueInFlight(l)'
                BY <1>0, <2>0, <3>1, <3>2, <4>2, <4>3 DEF QueueInFlight, ForTarget, SyncShape
            <4>6. ASSUME died' = {} PROVE SyncUndisturbed(l)'
                BY <1>0, <2>0, <3>1, <3>2, <4>2, <4>6
                   DEF SyncUndisturbed, ForTarget, Fetched, SyncShape
            <4> QED BY <4>4, <4>5, <4>6
        <3> QED BY <2>0, <3>3, <3>4 DEF QueueInFlight
    <2>3. CASE SyncSendReply(m)
        <3>1. /\ m = ZmqTarget /\ mpc[m] = "poll" /\ serving[m] # NoServe
              /\ UNCHANGED <<mpc, mwo, woScheduled, zmqIn>>
            BY <2>0, <2>3 DEF SyncSendReply, OneRequest
        <3>2. /\ serving[m] = Sent(l) /\ lpc[l] = "zmq_wait" /\ zmqIn = <<>> /\ ~zmqOut[l]
              /\ TargetQueue = <<>>
            BY <2>0, <3>1 DEF OneRequest, QueueInFlight
        <3>3. /\ serving' = [serving EXCEPT ![m] = NoServe]
              /\ zmqOut' = [zmqOut EXCEPT ![l] = TRUE]
            BY <2>3, <3>2 DEF SyncSendReply, Sent
        <3>4. OneRequest(l)'
            BY <1>0, <2>0, <3>1, <3>2, <3>3 DEF OneRequest, InSyncSubmission, SyncShape
        <3>5. QueueInFlight(l)'
            BY <1>0, <2>0, <3>1, <3>2, <3>3 DEF QueueInFlight, TargetQueue, ForTarget, SyncShape
        <3>6. ASSUME died' = {} PROVE SyncUndisturbed(l)'
            BY <1>0, <2>0, <3>1, <3>2, <3>3, <3>6 DEF SyncUndisturbed, ForTarget, Fetched, SyncShape
        <3> QED BY <3>4, <3>5, <3>6
    <2> QED BY <2>1, <2>2, <2>3
<1> QED BY <1>1, <1>2 DEF SyncInv

(***************************************************************************)
(* A manager that dies loses its request; the queue stays as it is.        *)
(***************************************************************************)
LEMMA DeathKeeps ==
    ASSUME NEW l, Listeners = {l}, SyncInv(l), UNCHANGED listenerVars,
           NEW m \in Managers, SyncExit(m) \/ (ManagerCrash(m) /\ LoseRequests(m))
    PROVE  SyncInv(l)'
<1> USE SyncAssumption, SingletonAssumption, StoreAssumption
<1> USE DEF storeVars, orderVars, queueVars
<1>0. /\ SyncShape /\ UNCHANGED <<lrestarts, lpc, lreq, submits>>
      /\ UNCHANGED <<woScheduled, woRequests, woResponses, woProcessed, zmqOut>>
      /\ died' # {}
    BY DEF SyncInv, SyncExit, EnclaveRaises, UpdateReceipt, ManagerCrash, LoseRequests,
           listenerVars, clientVars
<1>1. Exit(m)
    BY <1>0 DEF SyncExit, EnclaveRaises, UpdateReceipt, ManagerCrash, MGoTo, SyncShape
<1>2. /\ mpc' = [mpc EXCEPT ![m] = "down"]
      /\ DOMAIN mwo' = Managers /\ DOMAIN mreq' = Managers
      /\ serving' = [serving EXCEPT ![m] = NoServe]
    BY <1>0, <1>1 DEF Exit, MGoTo, SyncShape, SyncExit, LoseRequests
<1>3. SyncShape'
    BY <1>0, <1>2 DEF SyncShape
<1>4. ASSUME lrestarts' = 0 PROVE OneRequest(l)' /\ QueueInFlight(l)'
    <2>0. OneRequest(l) /\ QueueInFlight(l)
        BY <1>0, <1>4 DEF SyncInv
    <2>1. zmqIn' \in {<<>>, zmqIn}
        <3>1. PICK k \in 0..Len(zmqIn) :
                  zmqIn' = IF m = ZmqTarget THEN SubSeq(zmqIn, k + 1, Len(zmqIn)) ELSE zmqIn
            BY DEF SyncExit, LoseRequests
        <3>2. CASE zmqIn = <<>>
            BY <3>1, <3>2
        <3>3. CASE zmqIn = <<Sent(l)>>
            <4>1. k \in {0, 1}
                BY <3>1, <3>3
            <4> DEFINE r == Sent(l)
            <4> HIDE DEF r
            <4>2. SubSeq(<<r>>, 1, 1) = <<r>>
                BY <<r>> \in Seq({r}), Len(<<r>>) = 1, SubSeqFull
            <4>3. SubSeq(<<r>>, 2, 1) = <<>>
                BY <<r>> \in Seq({r}), SubSeqProperties
            <4> QED BY <3>1, <3>3, <4>1, <4>2, <4>3 DEF r
        <3> QED BY <2>0, <3>2, <3>3 DEF OneRequest
    <2>2. OneRequest(l)'
        BY <1>0, <1>2, <2>0, <2>1 DEF OneRequest, InSyncSubmission, Sent, SyncShape
    <2>3. QueueInFlight(l)'
        BY <1>0, <1>2, <2>0, <2>1 DEF QueueInFlight, OneRequest, TargetQueue, ForTarget, SyncShape
    <2> QED BY <2>2, <2>3
<1> QED BY <1>0, <1>3, <1>4 DEF SyncInv

-----------------------------------------------------------------------------
LEMMA SyncInitially ==
    ASSUME NEW l, Listeners = {l}
    PROVE  SyncInit => SyncInv(l)
<1> SUFFICES ASSUME SyncInit PROVE SyncInv(l)
    OBVIOUS
<1> USE SyncAssumption, SingletonAssumption, StoreAssumption
<1> USE DEF SyncInit, Init, StoreInit, ListenerInit, ManagerInit
<1>1. SyncShape
    BY DEF SyncShape
<1>2. OneRequest(l)
    BY DEF OneRequest, InSyncSubmission
<1>3. QueueInFlight(l)
    BY DEF QueueInFlight, TargetQueue
<1>4. SyncUndisturbed(l)
    BY DEF SyncUndisturbed
<1> QED BY <1>1, <1>2, <1>3, <1>4 DEF SyncInv

LEMMA SyncStepKeeps ==
    ASSUME NEW l, Listeners = {l}, SyncInv(l), [SyncNext]_syncVars
    PROVE  SyncInv(l)'
<1>1. CASE UNCHANGED syncVars
    BY <1>1 DEF syncVars, vars, zmqVars, storeVars, orderVars, queueVars, listenerVars,
                clientVars, managerVars, managerLocals, SyncInv, SyncShape, OneRequest,
                QueueInFlight, SyncUndisturbed, InSyncSubmission, Sent, TargetQueue, ForTarget, Fetched
<1>2. ASSUME UNCHANGED managerVars, SyncListenerStep(l) PROVE SyncInv(l)'
    <2>1. CASE UNCHANGED zmqVars /\ (\/ BootLookup(l) \/ BootLookupPool(l) \/ BootRead(l)
                                     \/ BootKeep(l) \/ BootDiscard(l) \/ BootReap(l)
                                     \/ BootDone(l))
        BY <1>2, <2>1, BootStepsPlain, PlainStepKeeps
    <2>2. CASE UNCHANGED zmqVars /\ (\/ PurgeSelect(l) \/ PurgeUnlist(l) \/ PurgeRemove(l)
                                     \/ PurgeFinish(l))
        BY <1>2, <2>2, PurgeStepsPlain, PlainStepKeeps
    <2>3. CASE UNCHANGED zmqVars /\ (\/ SubmitCheck(l) \/ SubmitTimestamp(l)
                                     \/ SubmitRequest(l))
        BY <1>2, <2>3, SubmitStepsPlain, PlainStepKeeps
    <2>4. CASE UNCHANGED zmqVars /\ (\/ GetResultTimestamp(l) \/ ReceiptStore(l)
                                     \/ Reply(l))
        BY <1>2, <2>4, OtherStepsPlain, PlainStepKeeps
    <2>5. CASE SyncPurgeRead(l)
        <3>1. UNCHANGED zmqVars
            BY <2>5 DEF SyncPurgeRead, zmqVars
        <3> QED BY <1>2, <2>5, <3>1, PurgeStepsPlain, PlainStepKeeps
    <2>6. CASE SyncSchedule(l) \/ ZmqSend(l) \/ ZmqRecv(l) \/ SyncGet(l)
        BY <1>2, <2>6, ExchangeKeeps
    <2> QED BY <1>2, <2>1, <2>2, <2>3, <2>4, <2>5, <2>6 DEF SyncListenerStep
<1>3. ASSUME UNCHANGED managerVars, ClientRequest(l), UNCHANGED zmqVars PROVE SyncInv(l)'
    BY <1>3, OtherStepsPlain, PlainStepKeeps
<1>4. ASSUME UNCHANGED managerVars, SyncListenerRestart(l) PROVE SyncInv(l)'
    BY <1>4, RestartKeeps
<1>5. ASSUME NEW m \in Managers, UNCHANGED listenerVars,
             SyncManagerStep(m) \/ (ManagerCrash(m) /\ LoseRequests(m))
      PROVE  SyncInv(l)'
    BY <1>5, ProcessKeeps, ServeKeeps, DeathKeeps DEF SyncManagerStep
<1> QED BY <1>1, <1>2, <1>3, <1>4, <1>5 DEF SyncNext

(***************************************************************************)
(* In synchronous mode with one listener, whatever the number of workers,  *)
(* ids and submissions: as long as no process has died, a listener that    *)
(* got a reply finds the response to its own submission in the store.      *)
(***************************************************************************)
THEOREM SyncListenerReadsItsResult ==
    ASSUME NEW l, Listeners = {l}
    PROVE  SyncSpec => []SyncReturnsResult
<1>1. SyncInit => SyncInv(l)
    BY SyncInitially
<1>2. SyncInv(l) /\ [SyncNext]_syncVars => SyncInv(l)'
    BY SyncStepKeeps
<1>3. SyncInv(l) => SyncReturnsResult
    BY DEF SyncInv, SyncUndisturbed, SyncReturnsResult
<1> QED BY <1>1, <1>2, <1>3, PTL DEF SyncSpec

(***************************************************************************)
(* In synchronous mode with one listener, however often the managers die   *)
(* and in whatever step: until the listener restarts, the queue of the     *)
(* worker behind zmq_url holds no order but the one in flight.             *)
(***************************************************************************)
THEOREM SyncQueueHoldsNoLeftOver ==
    ASSUME NEW l, Listeners = {l}
    PROVE  SyncSpec => []NoHeadOfLineBlocking
<1>1. SyncInit => SyncInv(l)
    BY SyncInitially
<1>2. SyncInv(l) /\ [SyncNext]_syncVars => SyncInv(l)'
    BY SyncStepKeeps
<1>3. SyncInv(l) => NoHeadOfLineBlocking
    <2> SUFFICES ASSUME SyncInv(l), lrestarts = 0, NEW i \in ToSet(TargetQueue)
                 PROVE  lpc[l] \in {"zmq_send", "zmq_wait"} /\ lreq[l].id = i
        BY DEF NoHeadOfLineBlocking, TargetQueue
    <2>1. TargetQueue = <<>> \/ TargetQueue = <<lreq[l].id>>
        BY DEF SyncInv, QueueInFlight
    <2>2. ToSet(<<>>) = {} /\ ToSet(<<lreq[l].id>>) = {lreq[l].id}
        BY DEF ToSet
    <2>3. TargetQueue # <<>>
        BY <2>2
    <2> QED BY <2>1, <2>2, <2>3 DEF SyncInv, QueueInFlight
<1> QED BY <1>1, <1>2, <1>3, PTL DEF SyncSpec
=============================================================================
