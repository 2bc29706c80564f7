--------------------------- MODULE ComponentProofs ---------------------------
(***************************************************************************)
(* Type correctness of the listener and of the enclave manager, and of     *)
(* what they do to the store, whatever deployment they belong to.          *)
(***************************************************************************)
EXTENDS WorkOrderListener, EnclaveManager, SequenceLemmas

(***************************************************************************)
(* Removing a record keeps the tables well typed and adds no timestamp.    *)
(***************************************************************************)
LEMMA RemoveRecordTypes ==
    ASSUME StoreTypeOK, NEW table, NEW i \in WoIds, RemoveRecord(table, i)
    PROVE  /\ woTimestamps' \in SUBSET woTimestamps
           /\ woRequests' \in [WoIds -> Nat]
           /\ woResponses' \in [WoIds -> Nat]
           /\ woReceipts' \in SUBSET WoIds
BY DEF StoreTypeOK, RemoveRecord

(***************************************************************************)
(* The first key of a non-empty set of ids is one of them.                 *)
(***************************************************************************)
LEMMA FirstKeyMember ==
    ASSUME NEW keys \in SUBSET WoIds, keys # {}
    PROVE  FirstKey(keys) \in keys
<1>1. keys \in SUBSET Nat
    BY StoreAssumption
<1>2. \E x \in keys : \A y \in keys : x <= y
    BY <1>1, LeastNatural
<1> QED BY <1>2 DEF FirstKey

(***************************************************************************)
(* A scan reads ids, and the reads it makes next are reads.                *)
(***************************************************************************)
LEMMA ScanTypes ==
    ASSUME StoreTypeOK, NEW item \in ScanItems
    PROVE  /\ ReadIds(item) \in SUBSET (WoIds \X Workers)
           /\ BootFollow(item) \in Seq(ScanItems)
<1>0. \/ item[1] \in {"wo-worker-scheduled", "wo-worker-processed", "worker-pool"}
             /\ item[2] \in Workers
      \/ item[1] = "wo-worker-processing" /\ item[2] \in Managers
    BY DEF ScanItems
<1>1. CASE item[1] = "wo-worker-scheduled"
    <2>1. item[2] \in Workers
        BY <1>0, <1>1
    <2>2. ToSet(woScheduled[item[2]]) \subseteq WoIds
        BY <2>1, ToSetBound DEF StoreTypeOK
    <2>3. ReadIds(item) = ToSet(woScheduled[item[2]]) \X {item[2]}
        BY <1>1 DEF ReadIds
    <2>4. BootFollow(item) = <<<<"wo-worker-processed", item[2]>>, <<"worker-pool", item[2]>>>>
        BY <1>1 DEF BootFollow
    <2>5. /\ <<"wo-worker-processed", item[2]>> \in ScanItems
          /\ <<"worker-pool", item[2]>> \in ScanItems
        BY <2>1 DEF ScanItems
    <2> QED BY <2>1, <2>2, <2>3, <2>4, <2>5
<1>2. CASE item[1] = "wo-worker-processed"
    <2>1. item[2] \in Workers
        BY <1>0, <1>2
    <2>2. ToSet(woProcessed[item[2]]) \subseteq WoIds
        BY <2>1, ToSetBound DEF StoreTypeOK
    <2>3. ReadIds(item) = ToSet(woProcessed[item[2]]) \X {item[2]}
        BY <1>2 DEF ReadIds
    <2>4. BootFollow(item) = <<>>
        BY <1>2 DEF BootFollow
    <2> QED BY <2>1, <2>2, <2>3, <2>4
<1>3. CASE item[1] = "wo-worker-processing"
    <2>1. item[2] \in Managers
        BY <1>0, <1>3
    <2>2. WorkerOf[item[2]] \in Workers /\ woProcessing[item[2]] \in WoIds \cup {0}
        BY <2>1, StoreAssumption DEF StoreTypeOK
    <2>3. ReadIds(item) = ({woProcessing[item[2]]} \ {0}) \X {WorkerOf[item[2]]}
        BY <1>3 DEF ReadIds
    <2>4. BootFollow(item) = <<>>
        BY <1>3 DEF BootFollow
    <2> QED BY <2>2, <2>3, <2>4
<1>4. CASE item[1] = "worker-pool"
    <2> DEFINE pool == workerPool[item[2]]
    <2>1. pool \in Seq(Managers)
        BY <1>0, <1>4 DEF StoreTypeOK
    <2>2. ReadIds(item) = {}
        BY <1>4 DEF ReadIds
    <2>3. BootFollow(item) = [k \in 1..Len(pool) |-> <<"wo-worker-processing", pool[k]>>]
        BY <1>4 DEF BootFollow
    <2> HIDE DEF pool
    <2>4. \A k \in 1..Len(pool) : <<"wo-worker-processing", pool[k]>> \in ScanItems
        BY <2>1 DEF ScanItems
    <2>5. Len(pool) \in Nat
        BY <2>1
    <2> QED BY <2>2, <2>3, <2>4, <2>5
<1> QED BY <1>0, <1>1, <1>2, <1>3, <1>4

(***************************************************************************)
(* lookup("worker-pool") returns the workers in some order.                *)
(***************************************************************************)
LEMMA LookupPoolTypes ==
    ASSUME StoreTypeOK, ListenerTypeOK, NEW l \in Listeners,
           NEW table \in {"wo-worker-scheduled", "wo-worker-processed"},
           LookupPool(l, table)
    PROVE  /\ lscan' \in [Listeners -> Seq(ScanItems)]
           /\ CsvKeys(workerPool) # {} => lscan'[l] # <<>>
           /\ \A k \in Listeners \ {l} : lscan'[k] = lscan[k]
<1> DEFINE K == CsvKeys(workerPool)
<1>1. K \subseteq Workers /\ IsFiniteSet(K) /\ Cardinality(K) \in Nat
    <2>1. K \subseteq Workers
        BY DEF CsvKeys, StoreTypeOK
    <2> QED BY <2>1, ListenerAssumption, FS_Subset, FS_CardinalityType
<1>2. K # {} => Cardinality(K) # 0
    BY <1>1, FS_EmptySet
<1>3. PICK ws \in SetToSeqs(K) :
          lscan' = [lscan EXCEPT ![l] = [k \in 1..Len(ws) |-> <<table, ws[k]>>]]
    BY DEF LookupPool
<1>4. ws \in [1..Cardinality(K) -> K]
    BY <1>3 DEF SetToSeqs
<1> HIDE DEF K
<1>5. ws \in Seq(Workers) /\ Len(ws) = Cardinality(K)
    BY <1>1, <1>4
<1>6. \A k \in 1..Len(ws) : <<table, ws[k]>> \in ScanItems
    BY <1>5 DEF ScanItems
<1> DEFINE reads == [k \in 1..Len(ws) |-> <<table, ws[k]>>]
<1>7. reads \in Seq(ScanItems) /\ Len(reads) = Len(ws)
    BY <1>5, <1>6
<1> HIDE DEF reads
<1>8. lscan' = [lscan EXCEPT ![l] = reads]
    BY <1>3 DEF reads
<1>9. K # {} => reads # <<>>
    BY <1>2, <1>5, <1>7
<1>10. lscan' \in [Listeners -> Seq(ScanItems)]
    BY <1>7, <1>8 DEF ListenerTypeOK
<1>11. lscan'[l] = reads /\ \A k \in Listeners \ {l} : lscan'[k] = lscan[k]
    BY <1>8 DEF ListenerTypeOK
<1> QED BY <1>9, <1>10, <1>11 DEF K

(***************************************************************************)
(* The end of a scan leaves its locals well typed.                         *)
(***************************************************************************)
LEMMA EndScanTypes ==
    ASSUME ListenerTypeOK, NEW l \in Listeners, EndScan(l)
    PROVE  /\ lids' \in [Listeners -> SUBSET WoIds]
           /\ lscan' \in [Listeners -> Seq(ScanItems)]
           /\ lfound' \in [Listeners -> SUBSET (WoIds \X Workers)]
           /\ lvictim' \in [Listeners -> WoIds \cup {0}]
           /\ lstep' \in [Listeners -> 0..4]
<1>1. lids' \in [Listeners -> SUBSET WoIds]
    BY DEF EndScan, ListenerTypeOK
<1>2. lscan' \in [Listeners -> Seq(ScanItems)]
    BY DEF EndScan, ListenerTypeOK
<1>3. lfound' \in [Listeners -> SUBSET (WoIds \X Workers)]
    BY DEF EndScan, ListenerTypeOK
<1>4. lvictim' \in [Listeners -> WoIds \cup {0}] /\ lstep' \in [Listeners -> 0..4]
    BY DEF EndScan, ListenerTypeOK
<1> QED BY <1>1, <1>2, <1>3, <1>4

(***************************************************************************)
(* Every step of a listener keeps its own state well formed.               *)
(***************************************************************************)
LEMMA ListenerStepTypes ==
    ASSUME StoreTypeOK, ListenerTypeOK, \A k \in Listeners : ListenerFormed(k),
           NEW l \in Listeners,
           ListenerStep(l) \/ ClientRequest(l) \/ ListenerRestart(l)
    PROVE  ListenerTypeOK' /\ \A k \in Listeners : ListenerFormed(k)'
<1> USE DEF ListenerTypeOK, GoTo, scanVars, memVars, clientVars, ListenerPCs
<1>0. StoreTypeOK /\ ListenerTypeOK /\ \A k \in Listeners : ListenerFormed(k)
    OBVIOUS
<1>1. CASE BootLookup(l)
    BY <1>0, <1>1 DEF BootLookup, ListenerFormed, StoreTypeOK
<1>2. CASE BootLookupPool(l)
    <2>1. /\ lscan' \in [Listeners -> Seq(ScanItems)]
          /\ CsvKeys(workerPool) # {} => lscan'[l] # <<>>
          /\ \A k \in Listeners \ {l} : lscan'[k] = lscan[k]
        BY <1>0, <1>2, LookupPoolTypes DEF BootLookupPool
    <2>2. ListenerTypeOK'
        BY <1>0, <1>2, <2>1 DEF BootLookupPool, ListenerFormed
    <2>3. \A k \in Listeners : ListenerFormed(k)'
        BY <1>0, <1>2, <2>1 DEF BootLookupPool, ListenerFormed
    <2> QED BY <2>2, <2>3
<1>3. CASE BootRead(l)
    <2> DEFINE item == Head(lscan[l])
               rest == BootFollow(item) \o Tail(lscan[l])
    <2>1. item \in ScanItems /\ Tail(lscan[l]) \in Seq(ScanItems)
        BY <1>0, <1>3, HeadTailProperties DEF BootRead, ListenerFormed
    <2>2. ReadIds(item) \in SUBSET (WoIds \X Workers) /\ rest \in Seq(ScanItems)
        BY <1>0, <2>1, ScanTypes, ConcatProperties
    <2>3. Override(lfound[l], ReadIds(item)) \in SUBSET (WoIds \X Workers)
        BY <1>0, <2>2 DEF Override
    <2>4. /\ lfound' = [lfound EXCEPT ![l] = Override(lfound[l], ReadIds(item))]
          /\ lscan' = [lscan EXCEPT ![l] = rest]
          /\ lpc' = [lpc EXCEPT ![l] = IF rest = <<>> THEN "boot_next" ELSE "boot_read"]
          /\ UNCHANGED <<lreq, lreply, lids, lvictim, lstep, memVars, lrestarts, clientVars>>
        BY <1>0, <1>3 DEF BootRead
    <2> HIDE DEF item, rest
    <2>5. ListenerTypeOK'
        BY <1>0, <2>2, <2>3, <2>4 DEF ListenerFormed
    <2>6. \A k \in Listeners : ListenerFormed(k)'
        BY <1>0, <2>2, <2>3, <2>4 DEF ListenerFormed
    <2> QED BY <2>5, <2>6
<1>4. CASE BootKeep(l)
    <2>1. FirstKey(lids[l]) \in WoIds
        BY <1>0, <1>4, FirstKeyMember DEF BootKeep
    <2>2. /\ Append(woList[l], FirstKey(lids[l])) \in Seq(WoIds)
          /\ Len(Append(woList[l], FirstKey(lids[l]))) = Len(woList[l]) + 1
        BY <1>0, <2>1, AppendToSet
    <2>3. ListenerTypeOK'
        BY <1>0, <1>4, <2>1, <2>2, SMTT(60) DEF BootKeep, ListenerFormed
    <2>4. \A k \in Listeners : ListenerFormed(k)'
        BY <1>0, <1>4, <2>1, <2>2 DEF BootKeep, ListenerFormed
    <2> QED BY <2>3, <2>4
<1>5. CASE BootDiscard(l)
    <2>1. FirstKey(lids[l]) \in WoIds
        BY <1>0, <1>5, FirstKeyMember DEF BootDiscard
    <2>2. ListenerTypeOK'
        BY <1>0, <1>5, <2>1, SMTT(60) DEF BootDiscard, ListenerFormed
    <2>3. \A k \in Listeners : ListenerFormed(k)'
        BY <1>0, <1>5, <2>1 DEF BootDiscard, ListenerFormed
    <2> QED BY <2>2, <2>3
<1>6. CASE BootReap(l)
    <2>1. lstep[l] \in 1..4 /\ lvictim[l] \in WoIds
        BY <1>0, <1>6 DEF BootReap, ListenerFormed
    <2>2. \/ /\ lstep[l] + 1 \in 1..4
             /\ lstep' = [lstep EXCEPT ![l] = lstep[l] + 1]
             /\ UNCHANGED <<lpc, lvictim>>
          \/ /\ lstep' = [lstep EXCEPT ![l] = 0]
             /\ lvictim' = [lvictim EXCEPT ![l] = 0]
             /\ lpc' = [lpc EXCEPT ![l] = "boot_next"]
        BY <1>0, <1>6, <2>1 DEF BootReap
    <2>3. /\ lpc[l] = "boot_reap"
          /\ UNCHANGED <<lreq, lreply, lids, lscan, lfound, memVars, lrestarts, clientVars>>
        BY <1>0, <1>6 DEF BootReap
    <2>4. ListenerTypeOK'
        <3>0. PICK e \in 0..4 : lstep' = [lstep EXCEPT ![l] = e]
            BY <2>2
        <3>1. lstep' \in [Listeners -> 0..4]
            BY <1>0, <3>0
        <3>2. lvictim' \in [Listeners -> WoIds \cup {0}] /\ lpc' \in [Listeners -> ListenerPCs]
            BY <1>0, <2>2
        <3> QED BY <1>0, <2>3, <3>1, <3>2
    <2>5. \A k \in Listeners : ListenerFormed(k)'
        <3>1. ListenerFormed(l)'
            BY <1>0, <2>1, <2>2, <2>3 DEF ListenerFormed
        <3>2. ASSUME NEW k \in Listeners, k # l
              PROVE  ListenerFormed(k)'
            <4>1. /\ lpc'[k] = lpc[k] /\ lvictim'[k] = lvictim[k] /\ lstep'[k] = lstep[k]
                  /\ UNCHANGED <<lscan, lreq, woList, woCount>>
                BY <1>0, <2>2, <2>3, <3>2
            <4> QED BY <1>0, <4>1 DEF ListenerFormed
        <3> QED BY <3>1, <3>2
    <2> QED BY <2>4, <2>5
<1>7. CASE BootDone(l)
    <2>1. ListenerTypeOK'
        BY <1>0, <1>7, SMTT(60) DEF BootDone, ListenerFormed, EndScan
    <2>2. \A k \in Listeners : ListenerFormed(k)'
        BY <1>0, <1>7 DEF BootDone, ListenerFormed, EndScan
    <2> QED BY <2>1, <2>2
<1>8. CASE PurgeLookupPool(l)
    <2>1. /\ lscan' \in [Listeners -> Seq(ScanItems)]
          /\ CsvKeys(workerPool) # {} => lscan'[l] # <<>>
          /\ \A k \in Listeners \ {l} : lscan'[k] = lscan[k]
        BY <1>0, <1>8, LookupPoolTypes DEF PurgeLookupPool
    <2>2. ListenerTypeOK'
        BY <1>0, <1>8, <2>1 DEF PurgeLookupPool, ListenerFormed
    <2>3. \A k \in Listeners : ListenerFormed(k)'
        BY <1>0, <1>8, <2>1 DEF PurgeLookupPool, ListenerFormed
    <2> QED BY <2>2, <2>3
<1>9. CASE PurgeRead(l)
    <2> DEFINE item == Head(lscan[l])
    <2>1. item \in ScanItems /\ Tail(lscan[l]) \in Seq(ScanItems)
        BY <1>0, <1>9, HeadTailProperties DEF PurgeRead, ListenerFormed
    <2>2. ReadIds(item) \in SUBSET (WoIds \X Workers)
        BY <1>0, <2>1, ScanTypes
    <2>3. Override(lfound[l], ReadIds(item)) \in SUBSET (WoIds \X Workers)
        BY <1>0, <2>2 DEF Override
    <2>4. lfound' = [lfound EXCEPT ![l] = Override(lfound[l], ReadIds(item))]
        BY <1>0, <1>9 DEF PurgeRead
    <2> HIDE DEF item
    <2>5. ListenerTypeOK'
        BY <1>0, <1>9, <2>1, <2>3, <2>4 DEF PurgeRead, ListenerFormed
    <2>6. \A k \in Listeners : ListenerFormed(k)'
        BY <1>0, <1>9, <2>1, <2>3, <2>4 DEF PurgeRead, ListenerFormed
    <2> QED BY <2>5, <2>6
<1>10. CASE PurgeSelect(l)
    <2>1. PurgeCandidates(l) \in SUBSET WoIds
        BY <1>0 DEF PurgeCandidates, StoreTypeOK
    <2>2. PurgeCandidates(l) # {} => FirstKey(PurgeCandidates(l)) \in WoIds
        BY <1>0, <2>1, FirstKeyMember
    <2>3. ListenerTypeOK'
        <3>1. CASE PurgeCandidates(l) = {}
            <4>1. /\ lpc' = [lpc EXCEPT ![l] = "reply"]
                  /\ lreply' = [lreply EXCEPT ![l] = "BUSY"]
                  /\ EndScan(l)
                  /\ UNCHANGED <<lreq, memVars, lrestarts, clientVars>>
                BY <1>10, <3>1 DEF PurgeSelect, Answer
            <4> QED BY <1>0, <4>1, SMTT(60) DEF EndScan, Replies
        <3>2. CASE PurgeCandidates(l) # {}
            <4>1. /\ lvictim' = [lvictim EXCEPT ![l] = FirstKey(PurgeCandidates(l))]
                  /\ lpc' = [lpc EXCEPT ![l] = "purge_unlist"]
                  /\ UNCHANGED <<lreply, lids, lscan, lfound, lstep, lreq, memVars,
                                 lrestarts, clientVars>>
                BY <1>10, <3>2 DEF PurgeSelect
            <4> QED BY <1>0, <2>2, <3>2, <4>1
        <3> QED BY <3>1, <3>2
    <2>4. \A k \in Listeners : ListenerFormed(k)'
        BY <1>0, <1>10, <2>2, SMTT(60) DEF PurgeSelect, ListenerFormed, Answer, EndScan, Replies
    <2> QED BY <2>3, <2>4
<1>11. CASE PurgeUnlist(l)
    <2>1. ListenerTypeOK'
        BY <1>0, <1>11, SMTT(60) DEF PurgeUnlist, ListenerFormed
    <2>2. \A k \in Listeners : ListenerFormed(k)'
        BY <1>0, <1>11 DEF PurgeUnlist, ListenerFormed
    <2> QED BY <2>1, <2>2
<1>12. CASE PurgeRemove(l)
    <2>1. lstep[l] \in 1..4 /\ lstep[l] + 1 \in 1..4
        BY <1>0, <1>12 DEF PurgeRemove, ListenerFormed
    <2>2. ListenerTypeOK'
        BY <1>0, <1>12, <2>1, SMTT(60) DEF PurgeRemove, ListenerFormed
    <2>3. \A k \in Listeners : ListenerFormed(k)'
        BY <1>0, <1>12, <2>1 DEF PurgeRemove, ListenerFormed
    <2> QED BY <2>2, <2>3
<1>13. CASE PurgeFinish(l)
    <2>1. /\ RemoveFirst(woList[l], lvictim[l]) \in Seq(WoIds)
          /\ lvictim[l] \in ToSet(woList[l]) =>
                 Len(RemoveFirst(woList[l], lvictim[l])) = Len(woList[l]) - 1
        BY <1>0, RemoveFirstProperties
    <2>2. Len(RemoveFirst(woList[l], lvictim[l])) \in Nat
        BY <1>0, <2>1, LenProperties
    <2>3. \/ UNCHANGED memVars
          \/ /\ lvictim[l] \in ToSet(woList[l])
             /\ woList' = [woList EXCEPT ![l] = RemoveFirst(woList[l], lvictim[l])]
             /\ woCount' = [woCount EXCEPT ![l] = woCount[l] - 1]
        BY <1>0, <1>13 DEF PurgeFinish
    <2>4. /\ UNCHANGED <<lreq, lrestarts, clientVars>>
          /\ \E label \in {"reply", "check"} : lpc' = [lpc EXCEPT ![l] = label]
          /\ \E kind \in {lreply[l], "BUSY", "ERROR"} : lreply' = [lreply EXCEPT ![l] = kind]
          /\ lreq[l].id \in WoIds
          /\ EndScan(l)
        BY <1>0, <1>13 DEF PurgeFinish, Answer, ListenerFormed
    <2>5. /\ woList' \in [Listeners -> Seq(WoIds)] /\ woCount' \in [Listeners -> Nat]
          /\ \A k \in Listeners : woCount'[k] = Len(woList'[k])
        <3>1. \A k \in Listeners : woCount[k] = Len(woList[k])
            BY <1>0 DEF ListenerFormed
        <3>2. CASE UNCHANGED memVars
            BY <1>0, <3>1, <3>2
        <3>3. CASE /\ lvictim[l] \in ToSet(woList[l])
                   /\ woList' = [woList EXCEPT ![l] = RemoveFirst(woList[l], lvictim[l])]
                   /\ woCount' = [woCount EXCEPT ![l] = woCount[l] - 1]
            BY <1>0, <2>1, <2>2, <3>1, <3>3
        <3> QED BY <2>3, <3>2, <3>3
    <2>6. ListenerTypeOK'
        <3>1. /\ lids' \in [Listeners -> SUBSET WoIds]
              /\ lscan' \in [Listeners -> Seq(ScanItems)]
              /\ lfound' \in [Listeners -> SUBSET (WoIds \X Workers)]
              /\ lvictim' \in [Listeners -> WoIds \cup {0}]
              /\ lstep' \in [Listeners -> 0..4]
            BY <1>0, <2>4, EndScanTypes
        <3>2. lpc' \in [Listeners -> ListenerPCs] /\ lreply' \in [Listeners -> Replies]
            <4>1. PICK label \in {"reply", "check"} : lpc' = [lpc EXCEPT ![l] = label]
                BY <2>4
            <4>2. PICK kind \in {lreply[l], "BUSY", "ERROR"} :
                      lreply' = [lreply EXCEPT ![l] = kind]
                BY <2>4
            <4>3. lreply[l] \in Replies
                BY <1>0
            <4>4. kind \in Replies
                BY <4>3 DEF Replies
            <4> QED BY <1>0, <4>1, <4>2, <4>4
        <3>3. UNCHANGED <<lreq, lrestarts, clientVars>>
            BY <2>4
        <3> HIDE DEF ListenerPCs
        <3> QED BY <1>0, <2>5, <3>1, <3>2, <3>3
    <2>7. \A k \in Listeners : ListenerFormed(k)'
        BY <1>0, <2>4, <2>5 DEF ListenerFormed, EndScan
    <2> QED BY <2>6, <2>7
<1>14. CASE SubmitCheck(l)
    BY <1>0, <1>14, ZenonT(60) DEF SubmitCheck, ListenerFormed, Answer, Replies
<1>15. CASE SubmitTimestamp(l)
    BY <1>0, <1>15 DEF SubmitTimestamp, ListenerFormed
<1>16. CASE SubmitRequest(l)
    BY <1>0, <1>16 DEF SubmitRequest, ListenerFormed
<1>17. CASE SubmitSchedule(l)
    <2>1. lreq[l].id \in WoIds
        BY <1>0, <1>17 DEF SubmitSchedule, ListenerFormed
    <2>2. /\ Append(woList[l], lreq[l].id) \in Seq(WoIds)
          /\ Len(Append(woList[l], lreq[l].id)) = Len(woList[l]) + 1
        BY <1>0, <2>1, AppendToSet
    <2>3. ListenerTypeOK'
        BY <1>0, <1>17, <2>1, <2>2, SMTT(60) DEF SubmitSchedule, ListenerFormed, Answer, Replies
    <2>4. \A k \in Listeners : ListenerFormed(k)'
        BY <1>0, <1>17, <2>1, <2>2 DEF SubmitSchedule, ListenerFormed, Answer, Replies
    <2> QED BY <2>3, <2>4
<1>18. CASE GetResultTimestamp(l)
    BY <1>0, <1>18 DEF GetResultTimestamp, ListenerFormed, Answer, Replies
<1>19. CASE ReceiptStore(l)
    BY <1>0, <1>19 DEF ReceiptStore, ListenerFormed, Answer, Replies
<1>20. CASE Reply(l)
    <2>1. NoRequest \in [id : WoIds \cup {0}, worker : Workers, num : Nat]
        BY <1>0, ListenerAssumption DEF NoRequest
    <2>2. <<lreq[l].id, lreq[l].num>> \in WoIds \X Nat
        BY <1>0, <1>20 DEF Reply, ListenerFormed
    <2>3. ListenerTypeOK'
        BY <1>0, <1>20, <2>1, <2>2 DEF Reply, ListenerFormed, Replies
    <2>4. \A k \in Listeners : ListenerFormed(k)'
        BY <1>0, <1>20, <2>1, <2>2 DEF Reply, ListenerFormed, Replies
    <2> QED BY <2>3, <2>4
<1>21. CASE ClientRequest(l)
    <2> NoRequest \in [id : WoIds \cup {0}, worker : Workers, num : Nat]
        BY ListenerAssumption DEF NoRequest
    <2> USE DEF ListenerFormed, Answer, Replies
    <2>1. ASSUME NEW i \in WoIds, NEW w \in Workers, SubmitReceive(l, i, w)
          PROVE  ListenerTypeOK' /\ \A k \in Listeners : ListenerFormed(k)'
        <3>1. submits[i] + 1 \in 0..MaxSubmits /\ submits[i] + 1 \in Nat
            BY <1>0, <2>1, ListenerAssumption DEF SubmitReceive
        <3>2. /\ lreq' = [lreq EXCEPT ![l] = [id |-> i, worker |-> w, num |-> submits[i] + 1]]
              /\ submits' = [submits EXCEPT ![i] = submits[i] + 1]
              /\ UNCHANGED <<scanVars, memVars, lrestarts, accepted, delivered>>
              /\ \E label \in {"reply", "purge_pool", "check"} :
                     lpc' = [lpc EXCEPT ![l] = label]
              /\ lreply' = lreply \/ lreply' = [lreply EXCEPT ![l] = "NO_WORKER"]
            BY <2>1 DEF SubmitReceive
        <3>3. ListenerTypeOK'
            BY <1>0, <3>1, <3>2, ZenonT(60)
        <3>4. \A k \in Listeners : ListenerFormed(k)'
            BY <1>0, <3>1, <3>2
        <3> QED BY <3>3, <3>4
    <2>2. ASSUME NEW i \in WoIds, GetResult(l, i)
          PROVE  ListenerTypeOK' /\ \A k \in Listeners : ListenerFormed(k)'
        <3> DEFINE r == [NoRequest EXCEPT !.id = i, !.num = woResponses[i]]
        <3>1. r \in [id : WoIds \cup {0}, worker : Workers, num : Nat] /\ r.id = i
            BY <1>0 DEF StoreTypeOK
        <3>2. /\ lreq' = [lreq EXCEPT ![l] = r]
              /\ UNCHANGED <<scanVars, memVars, lrestarts, clientVars>>
              /\ \E label \in {"reply", "get_timestamp"} : lpc' = [lpc EXCEPT ![l] = label]
              /\ lreply' = lreply \/ lreply' = [lreply EXCEPT ![l] = "RESULT"]
            BY <2>2 DEF GetResult
        <3> HIDE DEF r
        <3>3. ListenerTypeOK'
            <4>1. lreq' \in [Listeners -> [id : WoIds \cup {0}, worker : Workers, num : Nat]]
                BY <1>0, <3>1, <3>2
            <4>2. lpc' \in [Listeners -> ListenerPCs] /\ lreply' \in [Listeners -> Replies]
                BY <1>0, <3>2, ZenonT(60)
            <4> HIDE DEF ListenerFormed, Replies, ListenerPCs
            <4> QED BY <1>0, <3>2, <4>1, <4>2
        <3>4. \A k \in Listeners : ListenerFormed(k)'
            BY <1>0, <3>1, <3>2
        <3> QED BY <3>3, <3>4
    <2>3. ASSUME NEW i \in WoIds, ReceiptCreate(l, i)
          PROVE  ListenerTypeOK' /\ \A k \in Listeners : ListenerFormed(k)'
        <3> DEFINE r == [NoRequest EXCEPT !.id = i]
        <3>1. r \in [id : WoIds \cup {0}, worker : Workers, num : Nat] /\ r.id = i
            OBVIOUS
        <3>2. /\ lreq' = [lreq EXCEPT ![l] = r]
              /\ UNCHANGED <<scanVars, memVars, lrestarts, clientVars>>
              /\ \E label \in {"reply", "store_receipt"} : lpc' = [lpc EXCEPT ![l] = label]
              /\ lreply' = lreply \/ lreply' = [lreply EXCEPT ![l] = "INVALID"]
            BY <2>3 DEF ReceiptCreate
        <3> HIDE DEF r
        <3>3. ListenerTypeOK'
            <4>1. lreq' \in [Listeners -> [id : WoIds \cup {0}, worker : Workers, num : Nat]]
                BY <1>0, <3>1, <3>2
            <4>2. lpc' \in [Listeners -> ListenerPCs] /\ lreply' \in [Listeners -> Replies]
                BY <1>0, <3>2, ZenonT(60)
            <4> HIDE DEF ListenerFormed, Replies, ListenerPCs
            <4> QED BY <1>0, <3>2, <4>1, <4>2
        <3>4. \A k \in Listeners : ListenerFormed(k)'
            BY <1>0, <3>1, <3>2
        <3> QED BY <3>3, <3>4
    <2> QED BY <1>21, <2>1, <2>2, <2>3 DEF ClientRequest
<1>22. CASE ListenerRestart(l)
    <2> NoRequest \in [id : WoIds \cup {0}, worker : Workers, num : Nat]
        BY ListenerAssumption DEF NoRequest
    <2>1. ListenerTypeOK'
        BY <1>0, <1>22, ListenerAssumption, SMTT(60) DEF ListenerRestart, EndScan, Replies
    <2>2. \A k \in Listeners : ListenerFormed(k)'
        BY <1>0, <1>22 DEF ListenerRestart, EndScan, ListenerFormed
    <2> QED BY <2>1, <2>2
<1> QED
    BY <1>1, <1>2, <1>3, <1>4, <1>5, <1>6, <1>7, <1>8, <1>9, <1>10, <1>11, <1>12, <1>13, <1>14, <1>15, <1>16, <1>17, <1>18, <1>19, <1>20, <1>21, <1>22 DEF ListenerStep

(***************************************************************************)
(* Every step of a listener keeps the tables of the store well typed.      *)
(***************************************************************************)
LEMMA ListenerStoreTypes ==
    ASSUME StoreTypeOK, ListenerTypeOK, \A k \in Listeners : ListenerFormed(k),
           NEW l \in Listeners,
           ListenerStep(l) \/ ClientRequest(l) \/ ListenerRestart(l)
    PROVE  StoreTypeOK'
<1> USE DEF storeVars, orderVars, queueVars, registryVars
<1>0. StoreTypeOK /\ ListenerTypeOK /\ ListenerFormed(l)
    OBVIOUS
<1>1. CASE UNCHANGED storeVars
    BY <1>0, <1>1 DEF StoreTypeOK
<1>2. CASE \/ BootLookup(l) \/ BootLookupPool(l) \/ BootRead(l) \/ BootKeep(l)
           \/ BootDiscard(l) \/ BootDone(l) \/ PurgeLookupPool(l) \/ PurgeRead(l)
           \/ PurgeSelect(l) \/ SubmitCheck(l) \/ GetResultTimestamp(l) \/ Reply(l)
           \/ ClientRequest(l) \/ ListenerRestart(l)
    BY <1>1, <1>2 DEF BootLookup, BootLookupPool, BootRead, BootKeep, BootDiscard, BootDone, PurgeLookupPool, PurgeRead, PurgeSelect, SubmitCheck, GetResultTimestamp, Reply,
        ClientRequest, SubmitReceive, GetResult, ReceiptCreate, ListenerRestart
<1>3. CASE BootReap(l)
    BY <1>0, <1>3, RemoveRecordTypes DEF BootReap, StoreTypeOK, ListenerFormed
<1>4. CASE PurgeRemove(l)
    BY <1>0, <1>4, RemoveRecordTypes DEF PurgeRemove, StoreTypeOK, ListenerFormed
<1>5. CASE PurgeFinish(l)
    BY <1>0, <1>5, RemoveRecordTypes DEF PurgeFinish, StoreTypeOK, ListenerFormed
<1>6. CASE PurgeUnlist(l)
    <2>1. PICK w \in Workers : woProcessed' = CsvSearchDelete(woProcessed, w, lvictim[l])
        BY <1>6 DEF PurgeUnlist
    <2>2. RemoveFirst(woProcessed[w], lvictim[l]) \in Seq(WoIds)
        BY <1>0, RemoveFirstProperties DEF StoreTypeOK
    <2> QED BY <1>0, <1>6, <2>1, <2>2 DEF PurgeUnlist, StoreTypeOK, CsvSearchDelete
<1>7. CASE SubmitTimestamp(l)
    BY <1>0, <1>7 DEF SubmitTimestamp, StoreTypeOK, ListenerFormed
<1>8. CASE SubmitRequest(l)
    BY <1>0, <1>8 DEF SubmitRequest, StoreTypeOK, ListenerFormed, ListenerTypeOK
<1>9. CASE SubmitSchedule(l)
    <2>1. lreq[l].id \in WoIds /\ lreq[l].worker \in Workers
        BY <1>0, <1>9 DEF SubmitSchedule, ListenerFormed, ListenerTypeOK
    <2>2. woScheduled' \in [Workers -> Seq(WoIds)]
        BY <1>0, <1>9, <2>1 DEF SubmitSchedule, CsvAppend, StoreTypeOK
    <2> QED BY <1>0, <1>9, <2>2 DEF SubmitSchedule, StoreTypeOK
<1>10. CASE ReceiptStore(l)
    BY <1>0, <1>10 DEF ReceiptStore, StoreTypeOK, ListenerFormed
<1> QED
    BY <1>2, <1>3, <1>4, <1>5, <1>6, <1>7, <1>8, <1>9, <1>10 DEF ListenerStep

(***************************************************************************)
(* The types of a manager's state when it may be at one of PCs.            *)
(***************************************************************************)
ManagerTypesWith(PCs) ==
    /\ mpc \in [Managers -> PCs]
    /\ mwo \in [Managers -> WoIds \cup {0}]
    /\ mreq \in [Managers -> Nat]
    /\ mids \in [Managers -> Seq(WoIds)]
    /\ mstep \in [Managers -> 0..4]
    /\ mcrashes \in 0..MaxManagerCrashes
    /\ executed \in SUBSET (WoIds \X Nat)
    /\ repeated \in SUBSET (WoIds \X Nat)
    /\ answered \in SUBSET (WoIds \X Nat)

(***************************************************************************)
(* Whatever else a manager does at boot, its clean-up, the processing of   *)
(* work orders and its death keep its state and the store well formed, and *)
(* add no timestamp.                                                       *)
(***************************************************************************)
LEMMA ProcessingTypes ==
    ASSUME NEW PCs, ManagerPCs \subseteq PCs, NEW next \in PCs, next \in {"poll", "clear_pool"},
           StoreTypeOK, ManagerTypesWith(PCs), \A k \in Managers : ManagerFormed(k),
           NEW m \in Managers,
           CleanupRead(m, next) \/ CleanupUnlist(m, next) \/ ManagerStep(m) \/ ManagerCrash(m)
    PROVE  /\ StoreTypeOK' /\ ManagerTypesWith(PCs)'
           /\ \A k \in Managers : ManagerFormed(k)'
           /\ woTimestamps' \subseteq woTimestamps
<1> USE DEF storeVars, orderVars, queueVars, registryVars, managerLocals, runVars,
            MGoTo, ManagerPCs, ManagerFormed
<1>0. /\ StoreTypeOK /\ ManagerTypesWith(PCs) /\ \A k \in Managers : ManagerFormed(k)
      /\ WorkerOf[m] \in Workers
    BY StoreAssumption
<1>3. CASE CleanupRead(m, next)
    <2>1. woProcessed[WorkerOf[m]] \in Seq(WoIds)
        BY <1>0 DEF StoreTypeOK
    <2>2. StoreTypeOK' /\ woTimestamps' \subseteq woTimestamps
        BY <1>0, <1>3 DEF CleanupRead, StoreTypeOK
    <2>3. ManagerTypesWith(PCs)'
        <3>1. CASE woProcessed[WorkerOf[m]] = <<>>
            BY <1>0, <1>3, <3>1 DEF CleanupRead, ManagerTypesWith
        <3>2. CASE woProcessed[WorkerOf[m]] # <<>>
            <4>1. /\ mpc' = [mpc EXCEPT ![m] = "clean"]
                  /\ mids' = [mids EXCEPT ![m] = woProcessed[WorkerOf[m]]]
                  /\ mstep' = [mstep EXCEPT ![m] = 1]
                  /\ UNCHANGED <<mwo, mreq, mcrashes, runVars>>
                BY <1>3, <3>2 DEF CleanupRead
            <4> QED BY <1>0, <2>1, <4>1 DEF ManagerTypesWith
        <3> QED BY <3>1, <3>2
    <2>4. \A k \in Managers : ManagerFormed(k)'
        BY <1>0, <1>3, <2>1, SMTT(60) DEF CleanupRead, ManagerTypesWith
    <2> QED BY <2>2, <2>3, <2>4
<1>4. CASE CleanupUnlist(m, next)
    <2>1. woProcessed' \in [Workers -> Seq(WoIds)]
        BY <1>0, <1>4 DEF CleanupUnlist, StoreTypeOK
    <2>2. StoreTypeOK' /\ woTimestamps' \subseteq woTimestamps
        BY <1>0, <1>4, <2>1 DEF CleanupUnlist, StoreTypeOK
    <2>3. ManagerTypesWith(PCs)'
        BY <1>0, <1>4 DEF CleanupUnlist, ManagerTypesWith
    <2>4. \A k \in Managers : ManagerFormed(k)'
        BY <1>0, <1>4 DEF CleanupUnlist, ManagerTypesWith
    <2> QED BY <2>2, <2>3, <2>4
<1>5. CASE CleanupRemove(m)
    <2>1. Head(mids[m]) \in WoIds /\ Tail(mids[m]) \in Seq(WoIds) /\ mstep[m] \in 1..4
        BY <1>0, <1>5, HeadTailProperties DEF CleanupRemove, ManagerTypesWith
    <2>2. /\ woTimestamps' \in SUBSET woTimestamps
          /\ woRequests' \in [WoIds -> Nat]
          /\ woResponses' \in [WoIds -> Nat]
          /\ woReceipts' \in SUBSET WoIds
        BY <1>0, <1>5, <2>1, RemoveRecordTypes DEF CleanupRemove
    <2>3. StoreTypeOK' /\ woTimestamps' \subseteq woTimestamps
        BY <1>0, <1>5, <2>2 DEF CleanupRemove, StoreTypeOK
    <2>4. /\ mpc[m] = "clean"
          /\ UNCHANGED <<mwo, mreq, mcrashes, runVars>>
        BY <1>5 DEF CleanupRemove
    <2>5. CASE mstep[m] < 4
        <3>1. PICK e \in 1..4 : mstep' = [mstep EXCEPT ![m] = e]
            BY <1>5, <2>1, <2>5 DEF CleanupRemove
        <3>2. UNCHANGED <<mpc, mids>>
            BY <1>5, <2>5 DEF CleanupRemove
        <3>3. ManagerTypesWith(PCs)' /\ \A k \in Managers : ManagerFormed(k)'
            BY <1>0, <2>4, <3>1, <3>2, SMTT(60) DEF ManagerTypesWith
        <3> QED BY <2>3, <3>3
    <2>6. CASE ~(mstep[m] < 4)
        <3>1. mids' = [mids EXCEPT ![m] = Tail(mids[m])]
            BY <1>5, <2>6 DEF CleanupRemove
        <3>2. \/ /\ Tail(mids[m]) = <<>>
                 /\ mpc' = [mpc EXCEPT ![m] = "clean_unlist"]
                 /\ mstep' = [mstep EXCEPT ![m] = 0]
              \/ /\ Tail(mids[m]) # <<>>
                 /\ mpc' = mpc
                 /\ mstep' = [mstep EXCEPT ![m] = 1]
            BY <1>5, <2>6 DEF CleanupRemove
        <3>3. ManagerTypesWith(PCs)'
            <4>0. PICK e \in 0..4 : mstep' = [mstep EXCEPT ![m] = e]
                BY <3>2
            <4>1. mstep' \in [Managers -> 0..4] /\ mpc' \in [Managers -> PCs]
                BY <1>0, <3>2, <4>0 DEF ManagerTypesWith
            <4>2. mids' \in [Managers -> Seq(WoIds)]
                BY <1>0, <2>1, <3>1 DEF ManagerTypesWith
            <4> QED BY <1>0, <2>4, <4>1, <4>2 DEF ManagerTypesWith
        <3>4. \A k \in Managers : ManagerFormed(k)'
            <4>1. /\ mids'[m] = Tail(mids[m])
                  /\ \/ mpc'[m] = "clean_unlist"
                     \/ mpc'[m] = "clean" /\ Tail(mids[m]) # <<>> /\ mstep'[m] = 1
                BY <1>0, <2>4, <3>1, <3>2 DEF ManagerTypesWith
            <4>2. ManagerFormed(m)'
                BY <4>1
            <4>3. ASSUME NEW k \in Managers, k # m
                  PROVE  ManagerFormed(k)'
                <5>1. /\ mpc'[k] = mpc[k] /\ mids'[k] = mids[k] /\ mstep'[k] = mstep[k]
                      /\ mwo' = mwo
                    BY <1>0, <2>4, <3>1, <3>2, <4>3 DEF ManagerTypesWith
                <5> QED BY <1>0, <5>1
            <4> QED BY <4>2, <4>3
        <3> QED BY <2>3, <3>3, <3>4
    <2> QED BY <2>5, <2>6
<1>6. CASE Pop(m)
    <2>1. /\ Head(woScheduled[WorkerOf[m]]) \in WoIds
          /\ Tail(woScheduled[WorkerOf[m]]) \in Seq(WoIds)
        BY <1>0, <1>6, HeadTailProperties DEF Pop, StoreTypeOK
    <2>2. StoreTypeOK' /\ woTimestamps' \subseteq woTimestamps
        BY <1>0, <1>6, <2>1 DEF Pop, CsvPop, StoreTypeOK
    <2>3. ManagerTypesWith(PCs)'
        BY <1>0, <1>6, <2>1 DEF Pop, CsvPop, ManagerTypesWith
    <2>4. \A k \in Managers : ManagerFormed(k)'
        BY <1>0, <1>6, <2>1 DEF Pop, CsvPop, ManagerTypesWith
    <2> QED BY <2>2, <2>3, <2>4
<1>7. CASE ReadRequest(m)
    BY <1>0, <1>7 DEF ReadRequest, StoreTypeOK, ManagerTypesWith
<1>8. CASE MarkProcessing(m)
    BY <1>0, <1>8 DEF MarkProcessing, StoreTypeOK, ManagerTypesWith
<1>9. CASE Execute(m)
    <2>1. <<mwo[m], mreq[m]>> \in WoIds \X Nat
        BY <1>0, <1>9 DEF Execute, ManagerTypesWith
    <2>2. StoreTypeOK' /\ woTimestamps' \subseteq woTimestamps
        BY <1>0, <1>9 DEF Execute, StoreTypeOK
    <2>3. ManagerTypesWith(PCs)'
        BY <1>0, <1>9, <2>1 DEF Execute, ManagerTypesWith
    <2>4. \A k \in Managers : ManagerFormed(k)'
        BY <1>0, <1>9, <2>1 DEF Execute, ManagerTypesWith
    <2> QED BY <2>2, <2>3, <2>4
<1>10. CASE EnclaveRaises(m)
    <2>1. StoreTypeOK' /\ woTimestamps' \subseteq woTimestamps
        BY <1>0, <1>10 DEF EnclaveRaises, Exit, StoreTypeOK
    <2>2. ManagerTypesWith(PCs)'
        BY <1>0, <1>10 DEF EnclaveRaises, Exit, ManagerTypesWith
    <2>3. \A k \in Managers : ManagerFormed(k)'
        BY <1>0, <1>10 DEF EnclaveRaises, Exit, ManagerTypesWith
    <2> QED BY <2>1, <2>2, <2>3
<1>11. CASE UpdateReceipt(m)
    <2>1. StoreTypeOK' /\ woTimestamps' \subseteq woTimestamps
        BY <1>0, <1>11 DEF UpdateReceipt, Exit, StoreTypeOK
    <2>2. UNCHANGED <<mcrashes, runVars>> /\ mwo[m] \in WoIds
        BY <1>0, <1>11 DEF UpdateReceipt
    <2>3. ManagerTypesWith(PCs)' /\ \A k \in Managers : ManagerFormed(k)'
        <3>1. CASE Exit(m)
            BY <1>0, <2>2, <3>1 DEF Exit, ManagerTypesWith
        <3>2. CASE MGoTo(m, "persist") /\ UNCHANGED managerLocals
            BY <1>0, <2>2, <3>2 DEF ManagerTypesWith
        <3> QED BY <1>11, <3>1, <3>2 DEF UpdateReceipt
    <2> QED BY <2>1, <2>3
<1>12. CASE PersistResponse(m)
    <2>1. mwo[m] \in WoIds /\ mreq[m] \in Nat
        BY <1>0, <1>12 DEF PersistResponse, ManagerTypesWith
    <2>2. StoreTypeOK' /\ woTimestamps' \subseteq woTimestamps
        BY <1>0, <1>12, <2>1 DEF PersistResponse, StoreTypeOK
    <2>3. ManagerTypesWith(PCs)'
        BY <1>0, <1>12, <2>1 DEF PersistResponse, ManagerTypesWith
    <2>4. \A k \in Managers : ManagerFormed(k)'
        BY <1>0, <1>12, <2>1 DEF PersistResponse, ManagerTypesWith
    <2> QED BY <2>2, <2>3, <2>4
<1>13. CASE AppendProcessed(m)
    <2>1. woProcessed' \in [Workers -> Seq(WoIds)]
        BY <1>0, <1>13 DEF AppendProcessed, CsvAppend, StoreTypeOK
    <2>2. StoreTypeOK' /\ woTimestamps' \subseteq woTimestamps
        BY <1>0, <1>13, <2>1 DEF AppendProcessed, StoreTypeOK
    <2>3. ManagerTypesWith(PCs)'
        BY <1>0, <1>13 DEF AppendProcessed, ManagerTypesWith
    <2>4. \A k \in Managers : ManagerFormed(k)'
        BY <1>0, <1>13 DEF AppendProcessed, ManagerTypesWith
    <2> QED BY <2>2, <2>3, <2>4
<1>14. CASE ClearProcessing(m)
    BY <1>0, <1>14 DEF ClearProcessing, StoreTypeOK, ManagerTypesWith
<1>15. CASE ManagerRestart(m)
    <2>1. StoreTypeOK' /\ woTimestamps' \subseteq woTimestamps
        BY <1>0, <1>15 DEF ManagerRestart, StoreTypeOK
    <2>2. ManagerTypesWith(PCs)'
        BY <1>0, <1>15, SMTT(60) DEF ManagerRestart, ManagerTypesWith
    <2>3. \A k \in Managers : ManagerFormed(k)'
        BY <1>0, <1>15 DEF ManagerRestart, ManagerTypesWith
    <2> QED BY <2>1, <2>2, <2>3
<1>16. CASE ManagerCrash(m)
    <2>1. StoreTypeOK' /\ woTimestamps' \subseteq woTimestamps
        BY <1>0, <1>16 DEF ManagerCrash, Exit, StoreTypeOK
    <2>2. ManagerTypesWith(PCs)'
        BY <1>0, <1>16, ManagerAssumption DEF ManagerCrash, Exit, ManagerTypesWith
    <2>3. \A k \in Managers : ManagerFormed(k)'
        BY <1>0, <1>16, ManagerAssumption DEF ManagerCrash, Exit, ManagerTypesWith
    <2> QED BY <2>1, <2>2, <2>3
<1> QED
    BY <1>3, <1>4, <1>5, <1>6, <1>7, <1>8, <1>9, <1>10, <1>11, <1>12, <1>13, <1>14, <1>15, <1>16
    DEF ManagerStep
=============================================================================
