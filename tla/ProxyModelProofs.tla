-------------------------- MODULE ProxyModelProofs --------------------------
(***************************************************************************)
(* Proofs about the proxy model, for any number of workers, orders and     *)
(* faults, on either chain.                                                *)
(***************************************************************************)
EXTENDS ProxyModel, SequenceLemmas

OrderKeys == {"order"} \X Orders
WorkerKeys == {"worker"} \X Workers

SubmitTxs == [fn : {"submit"}, key : OrderKeys, arg : Workers, reads : BOOLEAN, stale : BOOLEAN]
CompleteTxs == [fn : {"complete"}, key : OrderKeys, arg : {"result", "error"},
                reads : BOOLEAN, stale : BOOLEAN]
DetailTxs == [fn : {"register", "update"}, key : WorkerKeys, arg : Nat,
              reads : BOOLEAN, stale : BOOLEAN]
StatusTxs == [fn : {"status"}, key : WorkerKeys, arg : {"active", "decommissioned"},
              reads : BOOLEAN, stale : BOOLEAN]
Txs == SubmitTxs \cup CompleteTxs \cup DetailTxs \cup StatusTxs

SubmittedEvents == [name : {"submitted"}, id : Orders, worker : Workers]
CompletedEvents == [name : {"completed"}, id : Orders, resp : {"result", "error"}]
Events == {NoEvent} \cup SubmittedEvents \cup CompletedEvents

Hands == {Idle} \cup [pc : {"submit"}, id : Orders, worker : Workers]
                \cup [pc : {"poll"}, id : Orders]
                \cup [pc : {"complete"}, id : Orders, resp : {"result", "error"}]

ClientStates ==
    [pc : {"start", "query", "listen"}]
    \cup [pc : {"submit"}, worker : Workers]
    \cup [pc : {"wait"}, mail : {"none", "result", "error"}]
    \cup [pc : {"end"}, resp : {"result", "error", "failed"}]

\* The synchronization round.
Rounds == [pc : {"lookup", "chain", "each", "status", "stale", "sleep", "exited"},
           seen : SUBSET Workers, todo : SUBSET Workers, cur : SUBSET Workers,
           over : BOOLEAN]

\* What the listener and the workers make of an order, and what of it is an error.
OrderStates == {"none", "refused", "pending", "done", "failed", "gone", "lost"}
Failing == {"refused", "failed", "gone"}

WorkerRecords == [status : {"none", "active", "decommissioned"}, details : Nat]
OrderRecords == [status : {"none", "submitted", "completed"}, worker : Workers \cup {0},
                 resp : {"none", "result", "error"}]

LedgerTypes ==
    /\ wreg \in [Workers -> WorkerRecords] /\ oreg \in [Orders -> OrderRecords]
    /\ txs \in Seq(Txs) /\ newest \in Events /\ nfaults \in Nat

ConnectorTypes ==
    /\ kv \in [Workers -> Nat] /\ avalon \in [Orders -> OrderStates]
    /\ sync \in Rounds /\ active \in SUBSET Workers /\ dmap \in [Workers -> Nat]
    /\ events \in {"off", "on", "over"} /\ inbox \in Seq(SubmittedEvents) /\ hand \in Hands
    /\ nkv \in Nat /\ ncrash \in Nat /\ overtaken \in BOOLEAN

ProxyTypeInv == LedgerTypes /\ ConnectorTypes /\ client \in [Orders -> ClientStates]

(***************************************************************************)
(* Where an order is, from its client to its answer.                       *)
(***************************************************************************)
Before(o) == client[o].pc \in {"start", "submit"}
TxOf(o, i) == i \in DOMAIN txs /\ txs[i].key = <<"order", o>>
InPool(o) == \E i \in DOMAIN txs : TxOf(o, i)
Announced(o) == \/ events = "off" /\ newest.name = "submitted" /\ newest.id = o
                \/ \E i \in DOMAIN inbox : inbox[i].id = o
InHand(o) == hand # Idle /\ hand.id = o
Responded(o) == oreg[o].resp # "none"

\* The listener has yet to get the order.
ToSubmit(o) == \/ Before(o) \/ Announced(o)
               \/ \E i \in DOMAIN txs : TxOf(o, i) /\ txs[i].fn = "submit"
               \/ InHand(o) /\ hand.pc = "submit"

(***************************************************************************)
(* An order is in one of these places at most, and once: it is handled     *)
(* once, and nothing overwrites its answer.  The listener gets it once.    *)
(***************************************************************************)
OncePlaced(o) ==
    /\ Before(o) => ~ InPool(o) /\ ~ Announced(o) /\ ~ InHand(o) /\ ~ Responded(o)
    /\ InPool(o) => ~ Announced(o) /\ ~ InHand(o) /\ ~ Responded(o)
    /\ Announced(o) => ~ InHand(o) /\ ~ Responded(o)
    /\ InHand(o) => ~ Responded(o)
    /\ \A i, j \in DOMAIN txs : TxOf(o, i) /\ TxOf(o, j) => i = j
    /\ \A i, j \in DOMAIN inbox : inbox[i].id = o /\ inbox[j].id = o => i = j
    /\ ToSubmit(o) => avalon[o] = "none"

\* What clients and the newest block have of an answer is what the chain has.
TrueAnswers ==
    /\ newest.name = "completed" => oreg[newest.id].resp = newest.resp
    /\ \A o \in Orders :
        /\ client[o].pc = "wait" /\ client[o].mail # "none" => oreg[o].resp = client[o].mail
        /\ client[o].pc = "end" /\ client[o].resp # "failed" => oreg[o].resp = client[o].resp

\* An error that the handler holds, that waits in the pool or that is on the chain
\* is one of the listener's or of a worker's.
Caused ==
    /\ hand # Idle /\ hand.pc = "complete" /\ hand.resp = "error" => avalon[hand.id] \in Failing
    /\ \A i \in DOMAIN txs : txs[i].fn = "complete" /\ txs[i].arg = "error"
                                => avalon[txs[i].key[2]] \in Failing
    /\ \A o \in Orders : oreg[o].resp = "error" => avalon[o] \in Failing

\* Only workers and managers came and went.
ErrorInv ==
    /\ ncrash + nkv <= nfaults
    /\ nfaults = nkv => Caused

OrderInv ==
    /\ ProxyTypeInv /\ ErrorInv
    /\ events # "on" => inbox = <<>>
    /\ events = "on" => chain = "fabric"
    /\ ncrash = 0 => TrueAnswers /\ \A o \in Orders : OncePlaced(o)


-----------------------------------------------------------------------------

(***************************************************************************)
(* The transactions the SDK sends.                                         *)
(***************************************************************************)
LEMMA TxKinds ==
    /\ \A o \in Orders, w \in Workers : workOrderSubmit(o, w) \in SubmitTxs
    /\ \A o \in Orders, r \in {"result", "error"} : workOrderComplete(o, r) \in CompleteTxs
    /\ \A f \in {"register", "update"}, w \in Workers, v \in Nat :
           WorkerTx(f, w, v) \in DetailTxs
    /\ \A w \in Workers, v \in {"active", "decommissioned"} :
           WorkerTx("status", w, v) \in StatusTxs
<1>1. \A o \in Orders, w \in Workers : workOrderSubmit(o, w) \in SubmitTxs
    BY DEF workOrderSubmit, FabricSubmit, EthereumSubmit, Tx, SubmitTxs, OrderKeys
<1>2. \A o \in Orders, r \in {"result", "error"} : workOrderComplete(o, r) \in CompleteTxs
    BY DEF workOrderComplete, Tx, CompleteTxs, OrderKeys
<1>3. \A f \in {"register", "update"}, w \in Workers, v \in Nat :
          WorkerTx(f, w, v) \in DetailTxs
    BY DEF WorkerTx, FabricWorker, EthereumWorker, Tx, DetailTxs, WorkerKeys
<1>4. \A w \in Workers, v \in {"active", "decommissioned"} :
          WorkerTx("status", w, v) \in StatusTxs
    BY DEF WorkerTx, FabricWorker, EthereumWorker, Tx, StatusTxs, WorkerKeys
<1> QED BY <1>1, <1>2, <1>3, <1>4

(***************************************************************************)
(* The fields of a transaction of each kind.                               *)
(***************************************************************************)
LEMMA TxFields ==
    ASSUME NEW t \in Txs
    PROVE  /\ t.stale \in BOOLEAN /\ t.reads \in BOOLEAN
           /\ t.fn = "submit" => /\ t.key = <<"order", t.key[2]>> /\ t.key[2] \in Orders
                                 /\ t.arg \in Workers
           /\ t.fn = "complete" => /\ t.key = <<"order", t.key[2]>> /\ t.key[2] \in Orders
                                   /\ t.arg \in {"result", "error"}
           /\ t.fn \in {"register", "update"} =>
                  t.key = <<"worker", t.key[2]>> /\ t.key[2] \in Workers /\ t.arg \in Nat
           /\ t.fn = "status" => /\ t.key = <<"worker", t.key[2]>> /\ t.key[2] \in Workers
                                 /\ t.arg \in {"active", "decommissioned"}
           /\ t.fn \in {"submit", "complete", "register", "update", "status"}
           /\ t.key[1] = "order" <=> t.fn \in {"submit", "complete"}
           /\ t.key[1] = "worker" <=> t.fn \in {"register", "update", "status"}
<1>1. CASE t \in SubmitTxs
    BY <1>1 DEF SubmitTxs, OrderKeys
<1>2. CASE t \in CompleteTxs
    BY <1>2 DEF CompleteTxs, OrderKeys
<1>3. CASE t \in DetailTxs
    BY <1>3 DEF DetailTxs, WorkerKeys
<1>4. CASE t \in StatusTxs
    BY <1>4 DEF StatusTxs, WorkerKeys
<1> QED BY <1>1, <1>2, <1>3, <1>4 DEF Txs

(***************************************************************************)
(* Marking transactions as out of date changes nothing else of them.       *)
(***************************************************************************)
LEMMA MarkStaleTypes ==
    ASSUME NEW ts \in Seq(Txs), NEW t \in Txs
    PROVE  /\ MarkStale(ts, t) \in Seq(Txs) /\ DOMAIN MarkStale(ts, t) = DOMAIN ts
           /\ \A i \in DOMAIN ts :
                  /\ MarkStale(ts, t)[i].fn = ts[i].fn /\ MarkStale(ts, t)[i].key = ts[i].key
                  /\ MarkStale(ts, t)[i].arg = ts[i].arg
                  /\ MarkStale(ts, t)[i].reads = ts[i].reads
                  /\ MarkStale(ts, t)[i].stale <=>
                         ts[i].stale \/ (ts[i].reads /\ ts[i].key = t.key)
<1> DEFINE b(i) == ts[i].stale \/ (ts[i].reads /\ ts[i].key = t.key)
           u(i) == [ts[i] EXCEPT !.stale = b(i)]
<1>1. DOMAIN ts = 1..Len(ts) /\ Len(ts) \in Nat /\ \A i \in DOMAIN ts : ts[i] \in Txs
    BY LenProperties, ElementOfSeq
<1>2. MarkStale(ts, t) = [i \in DOMAIN ts |-> u(i)]
    BY DEF MarkStale
<1>3. ASSUME NEW i \in DOMAIN ts
      PROVE  /\ u(i) \in Txs /\ u(i).fn = ts[i].fn /\ u(i).key = ts[i].key
             /\ u(i).arg = ts[i].arg /\ u(i).reads = ts[i].reads /\ u(i).stale = b(i)
    <2>1. b(i) \in BOOLEAN
        BY <1>1, TxFields
    <2> HIDE DEF b
    <2>2. CASE ts[i] \in SubmitTxs
        BY <2>1, <2>2 DEF SubmitTxs, Txs
    <2>3. CASE ts[i] \in CompleteTxs
        BY <2>1, <2>3 DEF CompleteTxs, Txs
    <2>4. CASE ts[i] \in DetailTxs
        BY <2>1, <2>4 DEF DetailTxs, Txs
    <2>5. CASE ts[i] \in StatusTxs
        BY <2>1, <2>5 DEF StatusTxs, Txs
    <2> QED BY <1>1, <2>2, <2>3, <2>4, <2>5 DEF Txs
<1> HIDE DEF u
<1>4. MarkStale(ts, t) \in [1..Len(ts) -> Txs]
    BY <1>1, <1>2, <1>3
<1>5. MarkStale(ts, t) \in Seq(Txs)
    BY <1>1, <1>4, SeqDef
<1> QED BY <1>2, <1>3, <1>5

(***************************************************************************)
(* A write keeps the records of the chain well formed, and touches only    *)
(* the table and the record of the transaction's key.                      *)
(***************************************************************************)
LEMMA WriteTypes ==
    ASSUME LedgerTypes, NEW t \in Txs, Write(t)
    PROVE  /\ wreg' \in [Workers -> WorkerRecords] /\ oreg' \in [Orders -> OrderRecords]
           /\ t.key[1] = "worker" => oreg' = oreg
           /\ t.key[1] = "order" => wreg' = wreg
           /\ \A o \in Orders : o # t.key[2] => oreg'[o] = oreg[o]
           /\ \A w \in Workers : w # t.key[2] => wreg'[w] = wreg[w]
           /\ t.fn = "submit" => oreg'[t.key[2]].resp = "none"
           /\ t.fn = "complete" => oreg'[t.key[2]].resp = t.arg
           /\ t.fn \in {"register", "update"} => wreg'[t.key[2]].details = t.arg
           /\ t.fn = "status" => wreg'[t.key[2]].details = wreg[t.key[2]].details
<1>0. wreg \in [Workers -> WorkerRecords] /\ oreg \in [Orders -> OrderRecords]
    BY DEF LedgerTypes
<1> DEFINE i == t.key[2]
<1>1. CASE t.key[1] = "worker"
    <2>1. /\ i \in Workers /\ t.fn \in {"register", "update", "status"} /\ t.key[1] # "order"
          /\ t.fn \in {"register", "update"} => t.arg \in Nat
          /\ t.fn = "status" => t.arg \in {"active", "decommissioned"}
        BY <1>1, TxFields
    <2>2. wreg' = [wreg EXCEPT ![i] = WorkerAfter(t, wreg[i])] /\ oreg' = oreg
        BY <1>1 DEF Write
    <2>3. wreg[i] \in WorkerRecords
        BY <1>0, <2>1
    <2>4. /\ WorkerAfter(t, wreg[i]) \in WorkerRecords
          /\ t.fn \in {"register", "update"} => WorkerAfter(t, wreg[i]).details = t.arg
          /\ t.fn = "status" => WorkerAfter(t, wreg[i]).details = wreg[i].details
        <3>1. CASE t.fn = "register"
            BY <2>1, <3>1 DEF WorkerAfter, WorkerRecords
        <3>2. CASE t.fn = "update"
            BY <2>1, <2>3, <3>2 DEF WorkerAfter, WorkerRecords
        <3>3. CASE t.fn = "status"
            BY <2>1, <2>3, <3>3 DEF WorkerAfter, WorkerRecords
        <3> QED BY <2>1, <3>1, <3>2, <3>3
    <2> QED BY <1>0, <2>1, <2>2, <2>4
<1>2. CASE t.key[1] # "worker"
    <2>1. /\ i \in Orders /\ t.fn \in {"submit", "complete"}
          /\ t.fn = "submit" => t.arg \in Workers
          /\ t.fn = "complete" => t.arg \in {"result", "error"}
        BY <1>2, TxFields
    <2>2. oreg' = [oreg EXCEPT ![i] = OrderAfter(t, oreg[i])] /\ wreg' = wreg
        BY <1>2 DEF Write
    <2>3. oreg[i] \in OrderRecords
        BY <1>0, <2>1
    <2>4. /\ OrderAfter(t, oreg[i]) \in OrderRecords
          /\ t.fn = "submit" => OrderAfter(t, oreg[i]).resp = "none"
          /\ t.fn = "complete" => OrderAfter(t, oreg[i]).resp = t.arg
        <3>1. CASE t.fn = "submit"
            BY <2>1, <3>1 DEF OrderAfter, OrderRecords
        <3>2. CASE t.fn = "complete"
            BY <2>1, <2>3, <3>2 DEF OrderAfter, OrderRecords
        <3> QED BY <2>1, <3>1, <3>2
    <2> QED BY <1>0, <1>2, <2>1, <2>2, <2>4
<1> QED BY <1>1, <1>2

(***************************************************************************)
(* What a call to a chain does to the ledger.  The four shapes the pool    *)
(* can take are all the order and worker proofs need to know.              *)
(***************************************************************************)
LEMMA CallTypes ==
    ASSUME LedgerTypes, NEW t \in Txs, NEW r \in Outcomes,
           Invoke(t, r) \/ FabricInvoke(t, r)
    PROVE  /\ LedgerTypes' /\ UNCHANGED <<chain, newest>>
           /\ nfaults' \in {nfaults, nfaults + 1}
           /\ \/ /\ r = "SUCCESS" /\ txs' = Append(txs, t)
                 /\ UNCHANGED <<wreg, oreg, nfaults>>
              \/ /\ r # "SUCCESS" /\ txs' = txs /\ nfaults' = nfaults + 1
                 /\ UNCHANGED <<wreg, oreg>>
              \/ /\ txs' = <<>> /\ nfaults' = nfaults
                 /\ \/ r = "SUCCESS" /\ Write(t)
                    \/ r = "ERROR" /\ UNCHANGED <<wreg, oreg>>
              \/ /\ r = "raised" /\ txs' = <<t>> /\ nfaults' = nfaults + 1
                 /\ UNCHANGED <<wreg, oreg>>
<1>0. /\ wreg \in [Workers -> WorkerRecords] /\ oreg \in [Orders -> OrderRecords]
      /\ txs \in Seq(Txs) /\ newest \in Events /\ nfaults \in Nat
    BY DEF LedgerTypes
<1>1. CASE FabricInvoke(t, r)
    <2>1. CASE r = "SUCCESS" /\ Order(t)
        <3>1. Append(txs, t) \in Seq(Txs)
            BY <1>0, AppendProperties
        <3>2. /\ txs' = Append(txs, t)
              /\ UNCHANGED <<chain, wreg, oreg, newest, nfaults>>
            BY <2>1 DEF Order
        <3>3. LedgerTypes'
            BY <1>0, <3>1, <3>2 DEF LedgerTypes
        <3> QED BY <2>1, <3>2, <3>3
    <2>2. CASE r # "SUCCESS" /\ Fault /\ UNCHANGED <<chain, wreg, oreg, txs, newest>>
        <3>1. nfaults' = nfaults + 1 /\ nfaults' \in Nat
            BY <1>0, <2>2 DEF Fault
        <3>2. LedgerTypes'
            BY <1>0, <2>2, <3>1 DEF LedgerTypes
        <3> QED BY <2>2, <3>1, <3>2
    <2> QED BY <1>1, <2>1, <2>2 DEF FabricInvoke
<1>2. CASE EthereumInvoke(t, r)
    <2>1. CASE Mined(t, r) /\ Replace(<<>>) /\ UNCHANGED <<chain, newest, nfaults>>
        <3>1. \/ r = "SUCCESS" /\ Write(t)
              \/ r = "ERROR" /\ UNCHANGED <<wreg, oreg>>
            BY <2>1 DEF Mined
        <3>2. wreg' \in [Workers -> WorkerRecords] /\ oreg' \in [Orders -> OrderRecords]
            BY <1>0, <3>1, WriteTypes
        <3>3. txs' = <<>> /\ txs' \in Seq(Txs)
            BY <2>1 DEF Replace
        <3>4. LedgerTypes'
            BY <1>0, <2>1, <3>2, <3>3 DEF LedgerTypes
        <3> QED BY <2>1, <3>1, <3>3, <3>4
    <2>2. CASE /\ r = "raised" /\ Fault /\ Replace(<<t>>)
               /\ UNCHANGED <<chain, wreg, oreg, newest>>
        <3>1. nfaults' = nfaults + 1 /\ nfaults' \in Nat
            BY <1>0, <2>2 DEF Fault
        <3>2. txs' = <<t>> /\ txs' \in Seq(Txs)
            BY <2>2 DEF Replace
        <3>3. LedgerTypes'
            BY <1>0, <2>2, <3>1, <3>2 DEF LedgerTypes
        <3> QED BY <2>2, <3>1, <3>2, <3>3
    <2> QED BY <1>2, <2>1, <2>2 DEF EthereumInvoke
<1> QED BY <1>1, <1>2 DEF Invoke


(***************************************************************************)
(* The states of a synchronization round.                                  *)
(***************************************************************************)
LEMMA RoundTypes ==
    ASSUME sync \in Rounds, active \in SUBSET Workers
    PROVE  /\ Start \in Rounds
           /\ \A s \in Rounds : Settle(s) \in Rounds
           /\ \A w \in Workers : NextWorker(w) => sync' \in Rounds /\ overtaken' = overtaken
           /\ Abort => sync' \in Rounds /\ overtaken' \in BOOLEAN /\ dmap' = dmap
<1>1. Start \in Rounds
    BY DEF Start, Rounds
<1>2. ASSUME NEW s \in Rounds PROVE Settle(s) \in Rounds
    <2> DEFINE t == IF s.pc = "each" /\ s.todo = {}
                    THEN [s EXCEPT !.pc = "stale", !.todo = s.seen \ active] ELSE s
    <2>1. t \in Rounds
        BY DEF Rounds
    <2>2. [Start EXCEPT !.pc = IF chain = "fabric" THEN "sleep" ELSE "exited"] \in Rounds
        BY DEF Rounds, Start
    <2>3. Settle(s) = IF t.pc = "stale" /\ t.todo = {}
                      THEN [Start EXCEPT !.pc = IF chain = "fabric" THEN "sleep" ELSE "exited"]
                      ELSE t
        BY DEF Settle
    <2> HIDE DEF t
    <2> QED BY <2>1, <2>2, <2>3
<1>3. ASSUME NEW w \in Workers, NextWorker(w) PROVE sync' \in Rounds /\ overtaken' = overtaken
    <2> DEFINE s == [sync EXCEPT !.pc = IF @ = "status" THEN "each" ELSE @,
                                 !.todo = @ \ {w}, !.cur = {}]
    <2>1. s \in Rounds
        BY DEF Rounds
    <2>2. sync' = Settle(s) /\ overtaken' = overtaken
        BY <1>3 DEF NextWorker
    <2> HIDE DEF s
    <2> QED BY <1>2, <2>1, <2>2
<1>4. ASSUME Abort PROVE sync' \in Rounds /\ overtaken' \in BOOLEAN /\ dmap' = dmap
    <2>1. [Start EXCEPT !.over = sync.over] \in Rounds
        BY <1>1 DEF Rounds, Start
    <2> QED BY <1>4, <2>1 DEF Abort, mapVars
<1> QED BY <1>1, <1>2, <1>3, <1>4

\* What a step of a round does to the ledger.
RoundCall == \/ UNCHANGED ledgerVars
             \/ Fault /\ UNCHANGED <<chain, wreg, oreg, txs, newest>>
             \/ \E t \in DetailTxs \cup StatusTxs, r \in Outcomes : Invoke(t, r)

(***************************************************************************)
(* A synchronization round sends transactions on workers only, and leaves  *)
(* the listener, the event being handled and the clients alone.            *)
(***************************************************************************)
LEMMA RoundSteps ==
    ASSUME ProxyTypeInv, SyncNext
    PROVE  /\ ProxyTypeInv' /\ RoundCall
           /\ UNCHANGED <<avalonVars, eventVars, ncrash, client>>
<1> USE DEF ProxyTypeInv
<1>0. /\ LedgerTypes /\ ConnectorTypes /\ client \in [Orders -> ClientStates]
      /\ sync \in Rounds /\ active \in SUBSET Workers /\ dmap \in [Workers -> Nat]
      /\ kv \in [Workers -> Nat] /\ overtaken \in BOOLEAN
    BY DEF ConnectorTypes
<1>1. /\ UNCHANGED ledgerVars => LedgerTypes'
      /\ Fault /\ UNCHANGED <<chain, wreg, oreg, txs, newest>> => LedgerTypes'
    BY <1>0 DEF LedgerTypes, ledgerVars, Fault
<1>2. ASSUME NEW t \in DetailTxs \cup StatusTxs, NEW r \in Outcomes, Invoke(t, r)
      PROVE  LedgerTypes' /\ RoundCall
    BY <1>0, <1>2, CallTypes DEF RoundCall, Txs
<1>3. ASSUME sync' \in Rounds, active' \in SUBSET Workers, dmap' \in [Workers -> Nat],
             overtaken' \in BOOLEAN, UNCHANGED <<avalonVars, eventVars, ncrash>>
      PROVE  ConnectorTypes'
    BY <1>0, <1>3 DEF ConnectorTypes, avalonVars, eventVars
<1>4. CASE SyncLookup
    <2>1. sync' \in Rounds /\ active' \in SUBSET Workers
        BY <1>0, <1>4 DEF SyncLookup, Rounds
    <2>2. UNCHANGED <<records, avalonVars, mapVars, eventVars, faultVars, client>>
        BY <1>4 DEF SyncLookup
    <2>3. nfaults' = nfaults \/ Fault
        BY <1>4 DEF SyncLookup
    <2>4. LedgerTypes' /\ RoundCall
        BY <1>1, <2>2, <2>3 DEF RoundCall, records, ledgerVars
    <2>5. ConnectorTypes'
        BY <1>0, <1>3, <2>1, <2>2 DEF mapVars, faultVars
    <2> QED BY <1>0, <2>2, <2>4, <2>5 DEF faultVars
<1>5. CASE SyncChain
    <2> DEFINE s == [sync EXCEPT !.pc = "each", !.todo = active, !.seen = worker_lookup]
    <2>1. UNCHANGED <<avalonVars, active, eventVars, ncrash, client>>
        BY <1>5 DEF SyncChain
    <2>2. CASE sync' = Settle(s) /\ UNCHANGED <<ledgerVars, overtaken, mapVars>>
        <3>1. s \in Rounds
            BY <1>0 DEF Rounds, worker_lookup
        <3> HIDE DEF s
        <3>2. sync' \in Rounds
            BY <1>0, <2>2, <3>1, RoundTypes
        <3>3. active' \in SUBSET Workers /\ dmap' \in [Workers -> Nat] /\ overtaken' \in BOOLEAN
            BY <1>0, <2>1, <2>2 DEF mapVars
        <3> QED BY <1>0, <1>1, <1>3, <2>1, <2>2, <3>2, <3>3 DEF RoundCall, eventVars
    <2>3. CASE Fault /\ UNCHANGED records /\ Abort
        <3>1. sync' \in Rounds /\ dmap' \in [Workers -> Nat] /\ overtaken' \in BOOLEAN
            BY <1>0, <2>3, RoundTypes
        <3>2. active' \in SUBSET Workers
            BY <1>0, <2>1
        <3>3. LedgerTypes' /\ RoundCall
            BY <1>1, <2>3 DEF RoundCall, records
        <3> QED BY <1>0, <1>3, <2>1, <3>1, <3>2, <3>3
    <2> QED BY <1>5, <2>2, <2>3 DEF SyncChain
<1>6. ASSUME NEW w \in Workers, SyncWorker(w)
      PROVE  /\ ProxyTypeInv' /\ RoundCall
             /\ UNCHANGED <<avalonVars, eventVars, ncrash, client>>
    <2>1. /\ UNCHANGED <<avalonVars, active, eventVars, ncrash, client>>
          /\ kv[w] \in Nat /\ active' \in SUBSET Workers
        BY <1>0, <1>6 DEF SyncWorker
    <2>2. ASSUME LedgerTypes' /\ RoundCall, sync' \in Rounds, dmap' \in [Workers -> Nat],
                 overtaken' \in BOOLEAN
          PROVE  /\ ProxyTypeInv' /\ RoundCall
                 /\ UNCHANGED <<avalonVars, eventVars, ncrash, client>>
        BY <1>0, <1>3, <2>1, <2>2 DEF eventVars
    <2>3. ASSUME Abort PROVE sync' \in Rounds /\ dmap' \in [Workers -> Nat] /\ overtaken' \in BOOLEAN
        BY <1>0, <2>3, RoundTypes
    <2>4. ASSUME NextWorker(w), dmap' \in [Workers -> Nat]
          PROVE  sync' \in Rounds /\ dmap' \in [Workers -> Nat] /\ overtaken' \in BOOLEAN
        BY <1>0, <2>4, RoundTypes
    <2>5. CASE UNCHANGED ledgerVars /\ Abort
        BY <1>1, <2>2, <2>3, <2>5 DEF RoundCall
    <2>9. CASE Fault /\ UNCHANGED records /\ Abort
        <3>1. LedgerTypes' /\ RoundCall
            BY <1>1, <2>9 DEF RoundCall, records
        <3> QED BY <2>2, <2>3, <2>9, <3>1
    <2>6. CASE NextWorker(w) /\ UNCHANGED <<ledgerVars, mapVars>>
        BY <1>0, <1>1, <2>2, <2>4, <2>6 DEF RoundCall, mapVars
    <2>7. ASSUME NEW r \in Outcomes, Invoke(WorkerTx("update", w, kv[w]), r),
                 Recorded(w, r, /\ sync' = [sync EXCEPT !.pc = "status", !.cur = {w}]
                                /\ UNCHANGED <<smap, overtaken>>)
          PROVE  /\ ProxyTypeInv' /\ RoundCall
                 /\ UNCHANGED <<avalonVars, eventVars, ncrash, client>>
        <3>1. LedgerTypes' /\ RoundCall
            BY <1>2, <2>1, <2>7, TxKinds
        <3>2. CASE r = "SUCCESS"
            <4>1. /\ dmap' = [dmap EXCEPT ![w] = kv[w]] /\ overtaken' = overtaken
                  /\ sync' = [sync EXCEPT !.pc = "status", !.cur = {w}]
                BY <2>7, <3>2 DEF Recorded
            <4>2. dmap' \in [Workers -> Nat]
                BY <1>0, <2>1, <4>1
            <4>3. sync' \in Rounds
                BY <1>0, <4>1 DEF Rounds
            <4> QED BY <1>0, <2>2, <3>1, <4>1, <4>2, <4>3
        <3>3. CASE r = "ERROR"
            <4>1. NextWorker(w) /\ dmap' \in [Workers -> Nat]
                BY <1>0, <2>7, <3>3 DEF Recorded, mapVars
            <4> QED BY <2>2, <2>4, <3>1, <4>1
        <3>4. CASE r = "raised"
            <4>1. Abort
                BY <2>7, <3>4 DEF Recorded
            <4> QED BY <2>2, <2>3, <3>1, <4>1
        <3> QED BY <3>2, <3>3, <3>4 DEF Outcomes
    <2>8. ASSUME NEW r \in Outcomes, Invoke(WorkerTx("register", w, kv[w]), r),
                 Recorded(w, r, smap' = [smap EXCEPT ![w] = "active"] /\ NextWorker(w))
          PROVE  /\ ProxyTypeInv' /\ RoundCall
                 /\ UNCHANGED <<avalonVars, eventVars, ncrash, client>>
        <3>1. LedgerTypes' /\ RoundCall
            BY <1>2, <2>1, <2>8, TxKinds
        <3>2. CASE r = "SUCCESS"
            <4>1. dmap' \in [Workers -> Nat] /\ NextWorker(w)
                BY <1>0, <2>1, <2>8, <3>2 DEF Recorded
            <4> QED BY <2>2, <2>4, <3>1, <4>1
        <3>3. CASE r = "ERROR"
            <4>1. NextWorker(w) /\ dmap' \in [Workers -> Nat]
                BY <1>0, <2>8, <3>3 DEF Recorded, mapVars
            <4> QED BY <2>2, <2>4, <3>1, <4>1
        <3>4. CASE r = "raised"
            <4>1. Abort
                BY <2>8, <3>4 DEF Recorded
            <4> QED BY <2>2, <2>3, <3>1, <4>1
        <3> QED BY <3>2, <3>3, <3>4 DEF Outcomes
    <2> QED BY <1>6, <2>5, <2>6, <2>7, <2>8, <2>9 DEF SyncWorker
<1>7. CASE SyncStatus
    <2>1. PICK w \in sync.cur, r \in Outcomes :
              /\ Invoke(WorkerTx("status", w, "active"), r)
              /\ IF r = "SUCCESS"
                 THEN smap' = [smap EXCEPT ![w] = "active"] /\ NextWorker(w) /\ UNCHANGED dmap
                 ELSE Abort
        BY <1>7 DEF SyncStatus
    <2>2. w \in Workers
        BY <1>0 DEF Rounds
    <2>3. LedgerTypes' /\ RoundCall
        BY <1>2, <2>1, <2>2, TxKinds
    <2>4. sync' \in Rounds /\ dmap' \in [Workers -> Nat] /\ overtaken' \in BOOLEAN
        BY <1>0, <2>1, <2>2, RoundTypes
    <2>5. UNCHANGED <<avalonVars, active, eventVars, ncrash, client>>
        BY <1>7 DEF SyncStatus
    <2> QED BY <1>0, <1>3, <2>3, <2>4, <2>5 DEF eventVars
<1>8. ASSUME NEW w \in Workers, SyncStale(w)
      PROVE  /\ ProxyTypeInv' /\ RoundCall
             /\ UNCHANGED <<avalonVars, eventVars, ncrash, client>>
    <2>1. UNCHANGED <<avalonVars, active, eventVars, ncrash, client>>
        BY <1>8 DEF SyncStale
    <2>2. /\ LedgerTypes' /\ RoundCall
          /\ \/ Abort
             \/ NextWorker(w) /\ dmap' = dmap
        <3>1. CASE NextWorker(w) /\ UNCHANGED <<ledgerVars, mapVars>>
            BY <1>1, <3>1 DEF RoundCall, mapVars
        <3>2. ASSUME NEW r \in Outcomes, Invoke(WorkerTx("status", w, "decommissioned"), r),
                     CASE r = "SUCCESS" -> /\ smap' = [smap EXCEPT ![w] = "decommissioned"]
                                           /\ NextWorker(w) /\ UNCHANGED dmap
                       [] r = "ERROR" -> NextWorker(w) /\ UNCHANGED mapVars
                       [] r = "raised" -> Abort
              PROVE  /\ LedgerTypes' /\ RoundCall
                     /\ Abort \/ (NextWorker(w) /\ dmap' = dmap)
            <4>1. LedgerTypes' /\ RoundCall
                BY <1>2, <3>2, TxKinds
            <4>2. Abort \/ (NextWorker(w) /\ dmap' = dmap)
                BY <3>2 DEF Outcomes, mapVars
            <4> QED BY <4>1, <4>2
        <3>3. CASE Fault /\ UNCHANGED records /\ Abort
            BY <1>1, <3>3 DEF RoundCall, records
        <3> QED BY <1>8, <3>1, <3>2, <3>3 DEF SyncStale
    <2>3. sync' \in Rounds /\ dmap' \in [Workers -> Nat] /\ overtaken' \in BOOLEAN
        BY <1>0, <2>2, RoundTypes
    <2> QED BY <1>0, <1>3, <2>1, <2>2, <2>3 DEF eventVars
<1>9. CASE SyncWake
    <2>1. sync' \in Rounds /\ overtaken' \in BOOLEAN
        BY <1>9 DEF SyncWake, Rounds, Start
    <2>2. UNCHANGED <<ledgerVars, avalonVars, active, mapVars, eventVars, ncrash, client>>
        BY <1>9 DEF SyncWake
    <2> QED BY <1>0, <1>1, <1>3, <2>1, <2>2 DEF RoundCall, mapVars
<1> QED BY <1>4, <1>5, <1>6, <1>7, <1>8, <1>9 DEF SyncNext


-----------------------------------------------------------------------------
(* Orders                                                                  *)

(***************************************************************************)
(* Initially every order is with its client.                               *)
(***************************************************************************)
LEMMA InitOrders == ProxyInit => OrderInv
<1> SUFFICES ASSUME ProxyInit PROVE OrderInv
    OBVIOUS
<1> USE DEF ProxyInit, LedgerInit
<1>1. LedgerTypes
    <2>1. /\ wreg \in [Workers -> WorkerRecords] /\ oreg \in [Orders -> OrderRecords]
        BY DEF NoWorker, NoOrder, WorkerRecords, OrderRecords
    <2>2. <<>> \in Seq(Txs)
        OBVIOUS
    <2> QED BY <2>1, <2>2 DEF LedgerTypes, Events
<1>2. ConnectorTypes
    <2>1. sync \in Rounds
        BY DEF Rounds, Start
    <2>2. <<>> \in Seq(SubmittedEvents)
        OBVIOUS
    <2> QED BY <2>1, <2>2 DEF ConnectorTypes, NoDetails, Hands, OrderStates, Coroutines
<1>3. client \in [Orders -> ClientStates]
    BY DEF ClientStates
<1>4. DOMAIN txs = {} /\ DOMAIN inbox = {} /\ newest.name = "none" /\ hand = Idle
    BY DEF NoEvent
<1>5. ErrorInv
    BY <1>4 DEF ErrorInv, Caused, NoOrder
<1>6. TrueAnswers
    BY <1>4 DEF TrueAnswers
<1>7. ASSUME NEW o \in Orders PROVE OncePlaced(o)
    <2>1. ~ InPool(o) /\ ~ Announced(o) /\ ~ InHand(o) /\ ~ Responded(o) /\ avalon[o] = "none"
        BY <1>4 DEF InPool, Announced, InHand, Responded, NoOrder
    <2> QED BY <1>4, <2>1 DEF OncePlaced
<1> QED BY <1>1, <1>2, <1>3, <1>5, <1>6, <1>7 DEF OrderInv, ProxyTypeInv

(***************************************************************************)
(* An order that does not move stays in its place.                         *)
(***************************************************************************)
LEMMA StaysPlaced ==
    ASSUME NEW o \in Orders, OncePlaced(o),
           Before(o)' => Before(o), InPool(o)' => InPool(o), Announced(o)' => Announced(o),
           InHand(o)' => InHand(o), Responded(o)' => Responded(o),
           \A i, j \in DOMAIN txs' : TxOf(o, i)' /\ TxOf(o, j)' => i = j,
           \A i, j \in DOMAIN inbox' : inbox'[i].id = o /\ inbox'[j].id = o => i = j,
           ToSubmit(o)' => ToSubmit(o), avalon[o] = "none" => avalon'[o] = "none"
    PROVE  OncePlaced(o)'
BY DEF OncePlaced

(***************************************************************************)
(* The transactions of an order are the ones that were there, possibly one *)
(* place further to the front.                                             *)
(***************************************************************************)
LEMMA PoolWithin ==
    ASSUME NEW o \in Orders, OncePlaced(o), NEW d \in Nat,
           \A i \in DOMAIN txs' : txs'[i].key = <<"order", o>> =>
               /\ i \in Nat /\ i + d \in DOMAIN txs
               /\ txs[i + d].key = txs'[i].key /\ txs[i + d].fn = txs'[i].fn
    PROVE  /\ InPool(o)' => InPool(o)
           /\ \A i, j \in DOMAIN txs' : TxOf(o, i)' /\ TxOf(o, j)' => i = j
           /\ (\E i \in DOMAIN txs' : TxOf(o, i)' /\ txs'[i].fn = "submit")
                  => \E i \in DOMAIN txs : TxOf(o, i) /\ txs[i].fn = "submit"
<1>1. \A i \in DOMAIN txs' : TxOf(o, i)' => /\ i \in Nat /\ TxOf(o, i + d)
                                            /\ txs[i + d].fn = txs'[i].fn
    BY DEF TxOf
<1>2. InPool(o)' => InPool(o)
    BY <1>1 DEF InPool, TxOf
<1>3. ASSUME NEW i \in DOMAIN txs', NEW j \in DOMAIN txs', TxOf(o, i)', TxOf(o, j)'
      PROVE  i = j
    <2>1. i \in Nat /\ j \in Nat /\ TxOf(o, i + d) /\ TxOf(o, j + d)
        BY <1>1, <1>3
    <2>2. i + d = j + d
        BY <2>1 DEF OncePlaced, TxOf
    <2> QED BY <2>1, <2>2
<1> QED BY <1>1, <1>2, <1>3 DEF TxOf

(***************************************************************************)
(* A call leaves the transactions of the orders it is not about alone, or  *)
(* drops them, and adds no completion unless it is one.                    *)
(***************************************************************************)
LEMMA CallPool ==
    ASSUME LedgerTypes, NEW t \in Txs, NEW r \in Outcomes, Invoke(t, r) \/ FabricInvoke(t, r)
    PROVE  /\ \A i \in DOMAIN txs' : \/ i \in DOMAIN txs /\ i \in Nat /\ txs'[i] = txs[i]
                                     \/ txs'[i] = t
           /\ \A i, j \in DOMAIN txs' : txs'[i] = t /\ txs'[j] = t => \/ i = j
                  \/ \E k \in DOMAIN txs : txs[k].key = t.key
<1>1. txs \in Seq(Txs)
    BY DEF LedgerTypes
<1>2. CASE txs' = Append(txs, t)
    BY <1>1, <1>2, AppendAt
<1>3. CASE txs' = txs
    <2>1. DOMAIN txs = 1..Len(txs) /\ Len(txs) \in Nat
        BY <1>1, LenProperties
    <2> QED BY <1>3, <2>1
<1>4. CASE txs' = <<>>
    BY <1>4
<1>5. CASE txs' = <<t>>
    <2>1. DOMAIN txs' = {1} /\ txs'[1] = t
        BY <1>5
    <2> QED BY <2>1
<1> QED BY <1>2, <1>3, <1>4, <1>5, CallTypes

(***************************************************************************)
(* While only workers and managers come and go, nothing has crashed.       *)
(***************************************************************************)
LEMMA CausedBefore ==
    ASSUME ErrorInv, nfaults \in Nat, nkv \in Nat, ncrash \in Nat,
           nfaults' \in Nat, nfaults' >= nfaults, nkv' = nkv, nfaults' = nkv'
    PROVE  Caused /\ ncrash = 0 /\ nfaults = nkv
<1>1. nfaults = nkv /\ ncrash = 0
    BY DEF ErrorInv
<1> QED BY <1>1 DEF ErrorInv

(***************************************************************************)
(* A synchronization round does not touch orders.                          *)
(***************************************************************************)
LEMMA OrdersByRound ==
    ASSUME OrderInv, SyncNext
    PROVE  OrderInv'
<1>0. /\ ProxyTypeInv /\ ProxyTypeInv' /\ LedgerTypes
      /\ UNCHANGED <<avalonVars, eventVars, ncrash, client>>
      /\ RoundCall
    BY RoundSteps DEF OrderInv, ProxyTypeInv
<1>1. /\ oreg' = oreg /\ newest' = newest /\ chain' = chain
      /\ nfaults' \in Nat /\ nfaults' >= nfaults
      /\ \A i \in DOMAIN txs' : \/ i \in DOMAIN txs /\ i \in Nat /\ txs'[i] = txs[i]
                                \/ txs'[i] \in DetailTxs \cup StatusTxs
    <2>0. txs \in Seq(Txs) /\ nfaults \in Nat
        BY <1>0 DEF LedgerTypes
    <2>1. \A i \in DOMAIN txs : i \in Nat
        <3>1. DOMAIN txs = 1..Len(txs) /\ Len(txs) \in Nat
            BY <2>0, LenProperties
        <3> QED BY <3>1
    <2>2. CASE UNCHANGED ledgerVars
        BY <2>0, <2>1, <2>2 DEF ledgerVars
    <2>3. CASE Fault /\ UNCHANGED <<chain, wreg, oreg, txs, newest>>
        BY <2>0, <2>1, <2>3 DEF Fault
    <2>4. ASSUME NEW t \in DetailTxs \cup StatusTxs, NEW r \in Outcomes, Invoke(t, r)
          PROVE  /\ oreg' = oreg /\ newest' = newest /\ chain' = chain
                 /\ nfaults' \in Nat /\ nfaults' >= nfaults
                 /\ \A i \in DOMAIN txs' : \/ i \in DOMAIN txs /\ i \in Nat /\ txs'[i] = txs[i]
                                           \/ txs'[i] \in DetailTxs \cup StatusTxs
        <3>1. t \in Txs /\ t.key[1] = "worker"
            BY DEF Txs, DetailTxs, StatusTxs, WorkerKeys
        <3>2. oreg' = oreg
            BY <1>0, <2>4, <3>1, CallTypes, WriteTypes
        <3>3. newest' = newest /\ chain' = chain /\ nfaults' \in Nat /\ nfaults' >= nfaults
            BY <1>0, <2>0, <2>4, <3>1, CallTypes
        <3>4. \A i \in DOMAIN txs' : \/ i \in DOMAIN txs /\ i \in Nat /\ txs'[i] = txs[i]
                                     \/ txs'[i] = t
            BY <1>0, <2>4, <3>1, CallPool
        <3> QED BY <3>2, <3>3, <3>4
    <2> QED BY <1>0, <2>2, <2>3, <2>4 DEF RoundCall
<1>2. \A t \in DetailTxs \cup StatusTxs : t.fn # "complete" /\ \A o : t.key # <<"order", o>>
    BY DEF DetailTxs, StatusTxs, WorkerKeys
<1>3. ErrorInv'
    <2>1. /\ nfaults \in Nat /\ nkv \in Nat /\ ncrash \in Nat
          /\ avalon' = avalon /\ nkv' = nkv /\ ncrash' = ncrash /\ hand' = hand
        BY <1>0 DEF ProxyTypeInv, LedgerTypes, ConnectorTypes, avalonVars, eventVars
    <2>2. ASSUME nfaults' = nkv' PROVE Caused'
        <3>1. Caused
            BY <1>1, <2>1, <2>2, CausedBefore DEF OrderInv
        <3>2. \A i \in DOMAIN txs' : txs'[i].fn = "complete" => i \in DOMAIN txs /\ txs'[i] = txs[i]
            BY <1>1, <1>2
        <3> QED BY <1>1, <2>1, <3>1, <3>2 DEF Caused
    <2> QED BY <1>1, <2>1, <2>2 DEF OrderInv, ErrorInv
<1>4. ASSUME NEW o \in Orders PROVE Announced(o)' => Announced(o)
    BY <1>0, <1>1 DEF Announced, eventVars
<1>5. (events' # "on" => inbox' = <<>>) /\ (events' = "on" => chain' = "fabric")
    BY <1>0, <1>1 DEF OrderInv, eventVars
<1>6. ASSUME ncrash' = 0, NEW o \in Orders PROVE OncePlaced(o)'
    <2>1. /\ OncePlaced(o) /\ hand' = hand /\ inbox' = inbox
          /\ client' = client /\ avalon' = avalon
        BY <1>0, <1>6 DEF OrderInv, avalonVars, eventVars
    <2>2. /\ InPool(o)' => InPool(o)
          /\ \A i, j \in DOMAIN txs' : TxOf(o, i)' /\ TxOf(o, j)' => i = j
          /\ (\E i \in DOMAIN txs' : TxOf(o, i)' /\ txs'[i].fn = "submit")
                 => \E i \in DOMAIN txs : TxOf(o, i) /\ txs[i].fn = "submit"
        <3>1. \A i \in DOMAIN txs' : txs'[i].key = <<"order", o>> =>
                  /\ i \in Nat /\ i + 0 \in DOMAIN txs
                  /\ txs[i + 0].key = txs'[i].key /\ txs[i + 0].fn = txs'[i].fn
            <4>1. \A i \in DOMAIN txs' : txs'[i].key = <<"order", o>> =>
                      i \in Nat /\ i \in DOMAIN txs /\ txs[i] = txs'[i]
                BY <1>1, <1>2
            <4>2. \A i \in Nat : i + 0 = i
                OBVIOUS
            <4> QED BY <4>1, <4>2
        <3> QED BY <2>1, <3>1, PoolWithin
    <2>3. (Before(o)' => Before(o)) /\ (InHand(o)' => InHand(o))
        BY <2>1 DEF Before, InHand
    <2>4. Responded(o)' => Responded(o)
        BY <1>1 DEF Responded
    <2>5. \A i, j \in DOMAIN inbox' : inbox'[i].id = o /\ inbox'[j].id = o => i = j
        BY <2>1 DEF OncePlaced
    <2>6. ToSubmit(o)' => ToSubmit(o)
        BY <1>4, <2>1, <2>2 DEF ToSubmit, Before, InHand
    <2> QED BY <1>4, <2>1, <2>2, <2>3, <2>4, <2>5, <2>6, StaysPlaced
<1>7. ncrash' = 0 => TrueAnswers'
    BY <1>0, <1>1 DEF OrderInv, TrueAnswers
<1> QED BY <1>0, <1>3, <1>5, <1>6, <1>7 DEF OrderInv


(***************************************************************************)
(* What the handler holds.                                                 *)
(***************************************************************************)
LEMMA HandFields ==
    ASSUME hand \in Hands
    PROVE  /\ hand = Idle <=> hand.pc = "idle"
           /\ hand # Idle => hand.id \in Orders /\ hand.pc \in {"submit", "poll", "complete"}
           /\ hand.pc = "complete" => hand.resp \in {"result", "error"}
           /\ hand.pc = "submit" => hand.worker \in Workers
<1>1. CASE hand = Idle
    BY <1>1 DEF Idle
<1>2. CASE hand \in [pc : {"submit"}, id : Orders, worker : Workers]
    BY <1>2 DEF Idle
<1>4. CASE hand \in [pc : {"poll"}, id : Orders]
    BY <1>4 DEF Idle
<1>3. CASE hand \in [pc : {"complete"}, id : Orders, resp : {"result", "error"}]
    BY <1>3 DEF Idle
<1> QED BY <1>1, <1>2, <1>3, <1>4 DEF Hands

(***************************************************************************)
(* The handler goes on with its order after the listener was called: all   *)
(* the other orders stay where they are.                                   *)
(***************************************************************************)
LEMMA HandMoves ==
    ASSUME OrderInv, ncrash = 0, hand # Idle,
           hand' # Idle => hand'.id = hand.id /\ hand'.pc # "submit",
           \A o \in Orders \ {hand.id} : avalon'[o] = avalon[o],
           UNCHANGED <<oreg, txs, newest, events, inbox, client>>
    PROVE  \A o \in Orders : OncePlaced(o)'
<1> SUFFICES ASSUME NEW o \in Orders PROVE OncePlaced(o)'
    OBVIOUS
<1>1. OncePlaced(o)
    BY DEF OrderInv
<1>2. /\ Before(o)' <=> Before(o)
      /\ InPool(o)' <=> InPool(o)
      /\ Announced(o)' <=> Announced(o)
      /\ Responded(o)' <=> Responded(o)
      /\ InHand(o)' => InHand(o)
      /\ \A i : TxOf(o, i)' <=> TxOf(o, i)
    BY DEF Before, InPool, Announced, Responded, InHand, TxOf
<1>3. CASE o # hand.id
    <2>1. ToSubmit(o)' => ToSubmit(o)
        BY <1>2, <1>3 DEF ToSubmit, InHand
    <2>2. avalon'[o] = avalon[o]
        BY <1>3
    <2>3. /\ \A i, j \in DOMAIN txs' : TxOf(o, i)' /\ TxOf(o, j)' => i = j
          /\ \A i, j \in DOMAIN inbox' : inbox'[i].id = o /\ inbox'[j].id = o => i = j
        BY <1>1, <1>2 DEF OncePlaced
    <2> QED BY <1>1, <1>2, <2>1, <2>2, <2>3, StaysPlaced
<1>4. CASE o = hand.id
    <2>1. InHand(o)
        BY <1>4 DEF InHand
    <2>2. ~ Before(o) /\ ~ InPool(o) /\ ~ Announced(o) /\ ~ Responded(o)
        BY <1>1, <2>1 DEF OncePlaced
    <2>3. ~ ToSubmit(o)'
        BY <1>2, <2>2 DEF ToSubmit, InHand, InPool
    <2> QED BY <1>1, <1>2, <2>2, <2>3 DEF OncePlaced
<1> QED BY <1>3, <1>4

(***************************************************************************)
(* A work order event is taken from the queue, the order goes to the       *)
(* listener and its result is awaited.                                     *)
(***************************************************************************)
LEMMA OrdersByHand ==
    ASSUME OrderInv, Deliver \/ HandSubmit \/ HandPoll
    PROVE  OrderInv'
<1>0. /\ ProxyTypeInv /\ LedgerTypes /\ ConnectorTypes /\ hand \in Hands
      /\ inbox \in Seq(SubmittedEvents) /\ avalon \in [Orders -> OrderStates]
      /\ nfaults \in Nat /\ nkv \in Nat /\ ncrash \in Nat /\ txs \in Seq(Txs)
    BY DEF OrderInv, ProxyTypeInv, LedgerTypes, ConnectorTypes
<1>1. /\ UNCHANGED <<records, kv, nkv, sync, active, mapVars, events, faultVars, client>>
      /\ nfaults' \in {nfaults, nfaults + 1} /\ ncrash' = ncrash /\ txs' = txs /\ oreg' = oreg
      /\ newest' = newest /\ chain' = chain
    BY DEF Deliver, HandSubmit, HandPoll, ledgerVars, records, faultVars, avalonVars, Fault
<1>2. LedgerTypes'
    BY <1>0, <1>1 DEF LedgerTypes, records
<1>3. ASSUME inbox' \in Seq(SubmittedEvents), hand' \in Hands,
             avalon' \in [Orders -> OrderStates]
      PROVE  ProxyTypeInv'
    BY <1>0, <1>1, <1>2, <1>3 DEF ProxyTypeInv, ConnectorTypes, mapVars, faultVars
<1>4. ASSUME ASSUME Caused, ncrash = 0, nfaults' = nkv PROVE Caused'
      PROVE  ErrorInv'
    <2>1. nkv' = nkv /\ nfaults' \in Nat /\ nfaults' >= nfaults
        BY <1>0, <1>1
    <2>2. nfaults' = nkv' => Caused'
        BY <1>0, <1>4, <2>1, CausedBefore DEF OrderInv
    <2> QED BY <1>0, <1>1, <2>1, <2>2 DEF OrderInv, ErrorInv
<1>5. TrueAnswers => TrueAnswers'
    BY <1>1 DEF TrueAnswers
<1>6. CASE Deliver
    <2> DEFINE e == Head(inbox)
    <2>1. /\ inbox # <<>> /\ inbox' = Tail(inbox) /\ hand = Idle /\ avalon' = avalon
          /\ hand' = IF e.worker \in active
                     THEN [pc |-> "submit", id |-> e.id, worker |-> e.worker] ELSE Idle
        BY <1>6 DEF Deliver, avalonVars
    <2>2. /\ Tail(inbox) \in Seq(SubmittedEvents) /\ e \in SubmittedEvents
          /\ 1 \in DOMAIN inbox /\ inbox[1] = e
          /\ \A i \in DOMAIN Tail(inbox) : /\ i \in Nat /\ i + 1 \in DOMAIN inbox /\ i + 1 > 1
                                           /\ Tail(inbox)[i] = inbox[i + 1]
        BY <1>0, <2>1, TailAt
    <2>3. e.id \in Orders /\ e.worker \in Workers
        BY <2>2 DEF SubmittedEvents
    <2> HIDE DEF e
    <2>4. hand' \in Hands
        BY <2>1, <2>3 DEF Hands
    <2>5. ProxyTypeInv'
        BY <1>0, <1>3, <2>1, <2>2, <2>4
    <2>6. ErrorInv'
        BY <1>1, <1>4, <2>1 DEF Idle, Caused
    <2>7. events = "on"
        BY <2>1 DEF OrderInv
    <2>8. events' = "on" /\ chain' = "fabric"
        BY <1>1, <2>7 DEF OrderInv
    <2>9. ASSUME ncrash = 0, NEW o \in Orders PROVE OncePlaced(o)'
        <3>1. OncePlaced(o)
            BY <2>9 DEF OrderInv
        <3>2. /\ Before(o)' <=> Before(o)
              /\ InPool(o)' <=> InPool(o)
              /\ Responded(o)' <=> Responded(o)
              /\ \A i : TxOf(o, i)' <=> TxOf(o, i)
            BY <1>1 DEF Before, InPool, Responded, TxOf
        <3>3. Announced(o)' => \E i \in DOMAIN Tail(inbox) : inbox[i + 1].id = o
            BY <2>1, <2>2, <2>8 DEF Announced
        <3>4. Announced(o)' => Announced(o)
            BY <2>2, <3>3 DEF Announced
        <3>5. ASSUME NEW i \in DOMAIN inbox', NEW j \in DOMAIN inbox',
                     inbox'[i].id = o, inbox'[j].id = o
              PROVE  i = j
            <4>1. /\ i \in Nat /\ j \in Nat /\ i + 1 \in DOMAIN inbox /\ j + 1 \in DOMAIN inbox
                  /\ inbox[i + 1].id = o /\ inbox[j + 1].id = o
                BY <2>1, <2>2, <3>5
            <4>2. i + 1 = j + 1
                BY <3>1, <4>1 DEF OncePlaced
            <4> QED BY <4>1, <4>2
        <3>6. CASE o # e.id
            <4>1. ~ InHand(o)'
                BY <2>1, <3>6 DEF InHand
            <4>2. ToSubmit(o)' => ToSubmit(o)
                BY <1>1, <3>2, <3>4, <4>1 DEF ToSubmit
            <4>3. \A i, j \in DOMAIN txs' : TxOf(o, i)' /\ TxOf(o, j)' => i = j
                BY <1>1, <3>1, <3>2 DEF OncePlaced
            <4> QED BY <2>1, <3>1, <3>2, <3>4, <3>5, <4>1, <4>2, <4>3, StaysPlaced
        <3>7. CASE o = e.id
            <4>1. Announced(o)
                BY <2>2, <3>7 DEF Announced
            <4>2. ~ Before(o) /\ ~ InPool(o) /\ ~ Responded(o)
                BY <3>1, <4>1 DEF OncePlaced
            <4>3. avalon[o] = "none"
                BY <3>1, <4>1 DEF OncePlaced, ToSubmit
            <4>4. ~ Announced(o)'
                <5>1. \A i \in DOMAIN Tail(inbox) : inbox[i + 1].id # o
                    <6> SUFFICES ASSUME NEW i \in DOMAIN Tail(inbox), inbox[i + 1].id = o
                                 PROVE  FALSE
                        OBVIOUS
                    <6>1. i + 1 = 1
                        BY <2>2, <3>1, <3>7 DEF OncePlaced
                    <6> QED BY <2>2, <6>1
                <5> QED BY <3>3, <5>1
            <4> QED BY <1>1, <2>1, <3>1, <3>2, <3>5, <4>2, <4>3, <4>4 DEF OncePlaced
        <3> QED BY <3>6, <3>7
    <2> QED BY <1>1, <1>5, <2>5, <2>6, <2>8, <2>9 DEF OrderInv
<1>7. ASSUME HandSubmit \/ HandPoll, hand # Idle,
             hand' # Idle => hand'.id = hand.id /\ hand'.pc # "submit",
             \A o \in Orders \ {hand.id} : avalon'[o] = avalon[o],
             ProxyTypeInv', ErrorInv'
      PROVE  OrderInv'
    <2>1. inbox' = inbox /\ events' = events /\ client' = client
        BY <1>1, <1>7 DEF HandSubmit, HandPoll
    <2>2. ncrash = 0 => \A o \in Orders : OncePlaced(o)'
        BY <1>1, <1>7, <2>1, HandMoves
    <2> QED BY <1>1, <1>5, <1>7, <2>1, <2>2 DEF OrderInv
<1>8. CASE HandSubmit
    <2> DEFINE o == hand.id
    <2>1. hand # Idle /\ o \in Orders /\ hand.pc = "submit" /\ inbox' = inbox
        BY <1>0, <1>8, HandFields DEF HandSubmit, Idle
    <2>2. \/ /\ avalon' = [avalon EXCEPT ![o] = "pending"] /\ nfaults' = nfaults
             /\ hand' = [pc |-> "poll", id |-> o]
          \/ /\ avalon' = IF Unknown(o) THEN [avalon EXCEPT ![o] = "refused"] ELSE avalon
             /\ hand' = [pc |-> "complete", id |-> o, resp |-> "error"]
          \/ /\ nfaults' = nfaults + 1
             /\ avalon' \in {avalon, [avalon EXCEPT ![o] = "pending"]}
             /\ hand' \in {Idle, [pc |-> "complete", id |-> o, resp |-> "error"]}
        BY <1>8 DEF HandSubmit, Accepts, Refuses, SetAvalon, Fault, Unanswered, Answer
    <2> HIDE DEF o
    <2>4. hand' \in Hands /\ (hand' # Idle => hand'.id = o /\ hand'.pc # "submit")
        BY <2>1, <2>2 DEF Hands
    <2>5. /\ avalon' \in [Orders -> OrderStates]
          /\ \A k \in Orders \ {o} : avalon'[k] = avalon[k]
        BY <1>0, <2>1, <2>2 DEF OrderStates
    <2>6. ASSUME Caused, ncrash = 0, nfaults' = nkv PROVE Caused'
        <3>1. nfaults' = nfaults
            BY <1>0, <1>1, <2>6 DEF OrderInv, ErrorInv
        <3>2. avalon[o] = "none"
            <4>1. OncePlaced(o) /\ ToSubmit(o)
                BY <2>1, <2>6 DEF OrderInv, ToSubmit, InHand, o
            <4> QED BY <4>1 DEF OncePlaced
        <3>3. hand' # Idle /\ hand'.pc = "complete" => avalon'[hand'.id] \in Failing
            BY <1>0, <2>1, <2>2, <3>1, <3>2 DEF Unknown, Failing
        <3>4. \A k \in Orders : avalon[k] \in Failing => avalon'[k] \in Failing
            BY <2>5, <3>2 DEF Failing
        <3>5. \A i \in DOMAIN txs : txs[i].fn = "complete" => txs[i].key[2] \in Orders
            BY <1>0, TxFields, ElementOfSeq
        <3> QED BY <1>1, <2>6, <3>3, <3>4, <3>5 DEF Caused
    <2> QED BY <1>0, <1>3, <1>4, <1>7, <1>8, <2>1, <2>4, <2>5, <2>6 DEF o
<1>9. CASE HandPoll
    <2> DEFINE o == hand.id
    <2>1. /\ hand # Idle /\ o \in Orders /\ hand.pc = "poll" /\ inbox' = inbox
          /\ avalon' = avalon
        BY <1>0, <1>9, HandFields DEF HandPoll, Idle, avalonVars
    <2>2. \/ hand' = [pc |-> "complete", id |-> o, resp |-> "result"]
          \/ /\ hand' = [pc |-> "complete", id |-> o, resp |-> "error"]
             /\ avalon[o] \in Failing
          \/ /\ hand' \in {Idle, [pc |-> "complete", id |-> o, resp |-> "error"]}
             /\ nfaults' = nfaults + 1
        BY <1>9 DEF HandPoll, Answer, Unanswered, Fault, Failing
    <2>3. hand' \in Hands /\ (hand' # Idle => hand'.id = o /\ hand'.pc # "submit")
        BY <2>1, <2>2 DEF Hands
    <2>4. ASSUME Caused, ncrash = 0, nfaults' = nkv PROVE Caused'
        <3>1. nfaults' = nfaults
            BY <1>0, <1>1, <2>4 DEF OrderInv, ErrorInv
        <3>2. nfaults' # nfaults + 1
            BY <1>0, <3>1
        <3> HIDE DEF o
        <3>3. hand' # Idle /\ hand'.resp = "error" => avalon[hand'.id] \in Failing
            BY <2>2, <3>2
        <3> QED BY <1>1, <2>1, <2>4, <3>3 DEF Caused
    <2> QED BY <1>0, <1>3, <1>4, <1>7, <1>9, <2>1, <2>3, <2>4
<1> QED BY <1>6, <1>8, <1>9


(***************************************************************************)
(* A call about an order that has no transaction in the pool leaves it     *)
(* with one at most, and the other orders with the ones they had.          *)
(***************************************************************************)
LEMMA OrderCall ==
    ASSUME LedgerTypes, NEW t \in Txs, NEW r \in Outcomes, Invoke(t, r) \/ FabricInvoke(t, r),
           NEW o \in Orders, t.key = <<"order", o>>
    PROVE  /\ ~ InPool(o) => /\ \A i, j \in DOMAIN txs' : TxOf(o, i)' /\ TxOf(o, j)' => i = j
                             /\ \A i \in DOMAIN txs' : TxOf(o, i)' => txs'[i] = t
           /\ \A p \in Orders : p # o /\ OncePlaced(p) =>
                  /\ InPool(p)' => InPool(p)
                  /\ \A i, j \in DOMAIN txs' : TxOf(p, i)' /\ TxOf(p, j)' => i = j
                  /\ (\E i \in DOMAIN txs' : TxOf(p, i)' /\ txs'[i].fn = "submit")
                         => \E i \in DOMAIN txs : TxOf(p, i) /\ txs[i].fn = "submit"
<1>1. /\ \A i \in DOMAIN txs' : \/ i \in DOMAIN txs /\ i \in Nat /\ txs'[i] = txs[i]
                                \/ txs'[i] = t
      /\ \A i, j \in DOMAIN txs' : txs'[i] = t /\ txs'[j] = t => \/ i = j
             \/ \E k \in DOMAIN txs : txs[k].key = t.key
    BY CallPool
<1>2. ASSUME ~ InPool(o)
      PROVE  /\ \A i, j \in DOMAIN txs' : TxOf(o, i)' /\ TxOf(o, j)' => i = j
             /\ \A i \in DOMAIN txs' : TxOf(o, i)' => txs'[i] = t
    <2>1. \A k \in DOMAIN txs : txs[k].key # <<"order", o>>
        BY <1>2 DEF InPool, TxOf
    <2> QED BY <1>1, <2>1 DEF TxOf
<1>3. ASSUME NEW p \in Orders, p # o, OncePlaced(p)
      PROVE  /\ InPool(p)' => InPool(p)
             /\ \A i, j \in DOMAIN txs' : TxOf(p, i)' /\ TxOf(p, j)' => i = j
             /\ (\E i \in DOMAIN txs' : TxOf(p, i)' /\ txs'[i].fn = "submit")
                    => \E i \in DOMAIN txs : TxOf(p, i) /\ txs[i].fn = "submit"
    <2>1. t.key # <<"order", p>>
        BY <1>3
    <2>2. \A i \in Nat : i + 0 = i
        OBVIOUS
    <2>3. \A i \in DOMAIN txs' : txs'[i].key = <<"order", p>> =>
              /\ i \in Nat /\ i + 0 \in DOMAIN txs
              /\ txs[i + 0].key = txs'[i].key /\ txs[i + 0].fn = txs'[i].fn
        BY <1>1, <2>1, <2>2
    <2> QED BY <1>3, <2>3, PoolWithin
<1> QED BY <1>2, <1>3

(***************************************************************************)
(* The answer to an order is sent to the chain.                            *)
(***************************************************************************)
LEMMA OrdersByComplete ==
    ASSUME OrderInv, HandComplete
    PROVE  OrderInv'
<1> DEFINE o == hand.id
           t == workOrderComplete(o, hand.resp)
<1>0. /\ ProxyTypeInv /\ LedgerTypes /\ ConnectorTypes /\ hand \in Hands
      /\ nfaults \in Nat /\ nkv \in Nat /\ ncrash \in Nat
    BY DEF OrderInv, ProxyTypeInv, LedgerTypes, ConnectorTypes
<1>1. o \in Orders /\ hand.resp \in {"result", "error"} /\ hand # Idle /\ hand.pc = "complete"
    BY <1>0, HandFields DEF HandComplete, Idle
<1>2. /\ t \in Txs /\ t.key = <<"order", o>> /\ t.fn = "complete" /\ t.arg = hand.resp
    BY <1>1, TxKinds DEF Txs, workOrderComplete, Tx
<1>3. PICK r \in Outcomes : FabricInvoke(t, r)
    BY DEF HandComplete
<1>4. /\ hand' = Idle
      /\ UNCHANGED <<avalonVars, sync, active, mapVars, events, inbox, faultVars, client>>
    BY DEF HandComplete
<1> HIDE DEF t, o
<1>5. /\ LedgerTypes' /\ newest' = newest /\ chain' = chain /\ oreg' = oreg
      /\ nfaults' \in Nat /\ nfaults' >= nfaults
    <2>1. LedgerTypes' /\ newest' = newest /\ chain' = chain /\ nfaults' \in {nfaults, nfaults + 1}
        BY <1>0, <1>2, <1>3, CallTypes
    <2>2. oreg' = oreg
        BY <1>3 DEF FabricInvoke, Order
    <2> QED BY <1>0, <2>1, <2>2
<1>6. \A i \in DOMAIN txs' : (i \in DOMAIN txs /\ txs'[i] = txs[i]) \/ txs'[i] = t
    BY <1>0, <1>2, <1>3, CallPool
<1>7. ProxyTypeInv'
    <2>1. ConnectorTypes'
        BY <1>0, <1>4 DEF ConnectorTypes, avalonVars, mapVars, faultVars, Hands
    <2> QED BY <1>4, <1>5, <2>1 DEF OrderInv, ProxyTypeInv
<1>8. ErrorInv'
    <2>1. avalon' = avalon /\ nkv' = nkv /\ ncrash' = ncrash
        BY <1>4 DEF avalonVars, faultVars
    <2>2. ASSUME nfaults' = nkv' PROVE Caused'
        <3>1. Caused
            BY <1>0, <1>5, <2>1, <2>2, CausedBefore DEF OrderInv
        <3>2. hand.resp = "error" => avalon[o] \in Failing
            BY <1>1, <3>1 DEF Caused, o
        <3>3. t.key[2] = o
            BY <1>2
        <3>4. \A i \in DOMAIN txs' : txs'[i].fn = "complete" /\ txs'[i].arg = "error"
                                         => avalon'[txs'[i].key[2]] \in Failing
            BY <1>2, <1>6, <2>1, <3>1, <3>2, <3>3 DEF Caused
        <3> QED BY <1>4, <1>5, <2>1, <3>1, <3>4 DEF Caused
    <2> QED BY <1>0, <1>4, <1>5, <2>1, <2>2 DEF OrderInv, ErrorInv
<1>9. ASSUME ncrash = 0, NEW p \in Orders PROVE OncePlaced(p)'
    <2>1. OncePlaced(p)
        BY <1>9 DEF OrderInv
    <2>2. /\ Before(p)' <=> Before(p)
          /\ Announced(p)' <=> Announced(p)
          /\ Responded(p)' <=> Responded(p)
          /\ ~ InHand(p)' /\ avalon' = avalon
        BY <1>4, <1>5 DEF Before, Announced, Responded, InHand, avalonVars
    <2>3. \A i, j \in DOMAIN inbox' : inbox'[i].id = p /\ inbox'[j].id = p => i = j
        BY <1>4, <2>1 DEF OncePlaced
    <2>4. CASE p # o
        <3>1. /\ InPool(p)' => InPool(p)
              /\ \A i, j \in DOMAIN txs' : TxOf(p, i)' /\ TxOf(p, j)' => i = j
              /\ (\E i \in DOMAIN txs' : TxOf(p, i)' /\ txs'[i].fn = "submit")
                     => \E i \in DOMAIN txs : TxOf(p, i) /\ txs[i].fn = "submit"
            BY <1>0, <1>1, <1>2, <1>3, <2>1, <2>4, OrderCall
        <3>2. ToSubmit(p)' => ToSubmit(p)
            BY <2>2, <3>1 DEF ToSubmit
        <3> QED BY <2>1, <2>2, <2>3, <3>1, <3>2, StaysPlaced
    <2>5. CASE p = o
        <3>1. InHand(p)
            BY <1>1, <2>5 DEF InHand, o
        <3>2. ~ Before(p) /\ ~ InPool(p) /\ ~ Announced(p) /\ ~ Responded(p)
            BY <2>1, <3>1 DEF OncePlaced
        <3>3. /\ \A i, j \in DOMAIN txs' : TxOf(p, i)' /\ TxOf(p, j)' => i = j
              /\ \A i \in DOMAIN txs' : TxOf(p, i)' => txs'[i] = t
            BY <1>0, <1>1, <1>2, <1>3, <2>5, <3>2, OrderCall
        <3>4. ~ ToSubmit(p)'
            BY <1>2, <2>2, <3>2, <3>3 DEF ToSubmit
        <3> QED BY <2>2, <2>3, <3>2, <3>3, <3>4 DEF OncePlaced
    <2> QED BY <2>4, <2>5
<1>10. TrueAnswers => TrueAnswers'
    BY <1>4, <1>5 DEF TrueAnswers
<1> QED BY <1>4, <1>5, <1>7, <1>8, <1>9, <1>10 DEF OrderInv, faultVars

(***************************************************************************)
(* What a client may be doing.                                             *)
(***************************************************************************)
LEMMA ClientFields ==
    ASSUME NEW c \in ClientStates
    PROVE  /\ c.pc = "submit" => c.worker \in Workers
           /\ c.pc = "wait" => /\ c.mail \in {"none", "result", "error"}
                               /\ c = [pc |-> "wait", mail |-> c.mail]
           /\ c.pc = "end" => c.resp \in {"result", "error", "failed"}
           /\ c.pc \in {"start", "submit", "query", "listen", "wait", "end"}
<1>1. CASE c \in [pc : {"start", "query", "listen"}]
    BY <1>1
<1>2. CASE c \in [pc : {"submit"}, worker : Workers]
    BY <1>2
<1>3. CASE c \in [pc : {"wait"}, mail : {"none", "result", "error"}]
    BY <1>3
<1>4. CASE c \in [pc : {"end"}, resp : {"result", "error", "failed"}]
    BY <1>4
<1> QED BY <1>1, <1>2, <1>3, <1>4 DEF ClientStates

(***************************************************************************)
(* A client takes a step in which the ledger stays as it is, apart from a  *)
(* failing call.                                                           *)
(***************************************************************************)
LEMMA ClientMoves ==
    ASSUME OrderInv, NEW o \in Orders, NEW c \in ClientStates,
           client' = [client EXCEPT ![o] = c],
           c.pc \in {"start", "submit"} => Before(o),
           c.pc = "wait" /\ c.mail # "none" /\ ncrash = 0 => oreg[o].resp = c.mail,
           c.pc = "end" /\ c.resp # "failed" /\ ncrash = 0 => oreg[o].resp = c.resp,
           UNCHANGED <<chain, wreg, oreg, txs, newest, avalonVars, connectorVars>>,
           nfaults' \in Nat, nfaults' >= nfaults
    PROVE  OrderInv'
<1>0. /\ ProxyTypeInv /\ LedgerTypes /\ ConnectorTypes /\ client \in [Orders -> ClientStates]
      /\ nfaults \in Nat /\ nkv \in Nat /\ ncrash \in Nat
    BY DEF OrderInv, ProxyTypeInv, LedgerTypes, ConnectorTypes
<1> USE DEF avalonVars, connectorVars, mapVars, eventVars, faultVars
<1>1. ProxyTypeInv'
    <2>1. LedgerTypes'
        BY <1>0 DEF LedgerTypes
    <2>2. ConnectorTypes'
        BY <1>0 DEF ConnectorTypes
    <2> QED BY <1>0, <2>1, <2>2 DEF ProxyTypeInv
<1>2. ErrorInv'
    <2>1. nfaults' = nkv' => Caused'
        <3>1. nfaults' = nkv' => Caused
            BY <1>0, CausedBefore DEF OrderInv
        <3> QED BY <3>1 DEF Caused
    <2> QED BY <1>0, <2>1 DEF OrderInv, ErrorInv
<1>3. client'[o] = c /\ \A p \in Orders \ {o} : client'[p] = client[p]
    BY <1>0
<1>4. ncrash = 0 => TrueAnswers'
    <2> SUFFICES ASSUME ncrash = 0 PROVE TrueAnswers'
        OBVIOUS
    <2>1. TrueAnswers
        BY DEF OrderInv
    <2>2. newest'.name = "completed" => oreg'[newest'.id].resp = newest'.resp
        BY <2>1 DEF TrueAnswers
    <2>3. ASSUME NEW p \in Orders
          PROVE  /\ client'[p].pc = "wait" /\ client'[p].mail # "none"
                        => oreg'[p].resp = client'[p].mail
                 /\ client'[p].pc = "end" /\ client'[p].resp # "failed"
                        => oreg'[p].resp = client'[p].resp
        <3>1. CASE p = o
            BY <1>3, <3>1
        <3>2. CASE p # o
            BY <1>3, <2>1, <3>2 DEF TrueAnswers
        <3> QED BY <3>1, <3>2
    <2> QED BY <2>2, <2>3 DEF TrueAnswers
<1>5. ASSUME ncrash = 0, NEW p \in Orders PROVE OncePlaced(p)'
    <2>1. OncePlaced(p)
        BY <1>5 DEF OrderInv
    <2>2. Before(p)' => Before(p)
        BY <1>3 DEF Before
    <2>3. /\ InPool(p)' <=> InPool(p)
          /\ Announced(p)' <=> Announced(p)
          /\ InHand(p)' <=> InHand(p)
          /\ Responded(p)' <=> Responded(p)
          /\ \A i : TxOf(p, i)' <=> TxOf(p, i)
        BY DEF InPool, Announced, InHand, Responded, TxOf
    <2>4. ToSubmit(p)' => ToSubmit(p)
        BY <2>2, <2>3 DEF ToSubmit
    <2>5. /\ \A i, j \in DOMAIN txs' : TxOf(p, i)' /\ TxOf(p, j)' => i = j
          /\ \A i, j \in DOMAIN inbox' : inbox'[i].id = p /\ inbox'[j].id = p => i = j
        BY <2>1, <2>3 DEF OncePlaced
    <2> QED BY <2>1, <2>2, <2>3, <2>4, <2>5, StaysPlaced
<1> QED BY <1>1, <1>2, <1>4, <1>5 DEF OrderInv


(***************************************************************************)
(* A client puts its order on the chain.                                   *)
(***************************************************************************)
LEMMA OrdersBySubmit ==
    ASSUME OrderInv, NEW o \in Orders, ClientSubmit(o), UNCHANGED <<avalonVars, connectorVars>>
    PROVE  OrderInv'
<1> DEFINE t == workOrderSubmit(o, client[o].worker)
<1>0. /\ ProxyTypeInv /\ LedgerTypes /\ ConnectorTypes /\ client \in [Orders -> ClientStates]
      /\ nfaults \in Nat /\ nkv \in Nat /\ ncrash \in Nat /\ oreg \in [Orders -> OrderRecords]
    BY DEF OrderInv, ProxyTypeInv, LedgerTypes, ConnectorTypes
<1> USE DEF avalonVars, connectorVars, mapVars, eventVars, faultVars
<1>1. Before(o) /\ client[o].worker \in Workers
    BY <1>0, ClientFields DEF ClientSubmit, Before
<1>2. t \in Txs /\ t.key = <<"order", o>> /\ t.fn = "submit" /\ t.key[1] = "order"
      /\ t.key[2] = o
    BY <1>1, TxKinds DEF Txs, workOrderSubmit, FabricSubmit, EthereumSubmit, Tx
<1>3. PICK r \in Outcomes : /\ Invoke(t, r)
                            /\ IF r = "SUCCESS" /\ o \in Waiting
                               THEN client' = [client EXCEPT ![o] = [pc |-> "query"]]
                               ELSE Finish(o, "failed")
    BY DEF ClientSubmit
<1> HIDE DEF t
<1>4. PICK c \in ClientStates : /\ c.pc \in {"query", "end"} /\ (c.pc = "end" => c.resp = "failed")
                                /\ client' = [client EXCEPT ![o] = c]
    <2>1. /\ [pc |-> "query"] \in ClientStates /\ [pc |-> "query"].pc = "query"
          /\ [pc |-> "end", resp |-> "failed"] \in ClientStates
          /\ [pc |-> "end", resp |-> "failed"].pc = "end"
          /\ [pc |-> "end", resp |-> "failed"].resp = "failed"
        BY DEF ClientStates
    <2> QED BY <1>3, <2>1 DEF Finish
<1>5. client'[o] = c /\ \A p \in Orders \ {o} : client'[p] = client[p]
    BY <1>0, <1>4
<1>6. /\ LedgerTypes' /\ newest' = newest /\ chain' = chain
      /\ nfaults' \in Nat /\ nfaults' >= nfaults
    <2>1. LedgerTypes' /\ newest' = newest /\ chain' = chain /\ nfaults' \in {nfaults, nfaults + 1}
        BY <1>0, <1>2, <1>3, CallTypes
    <2> QED BY <1>0, <2>1
<1>7. /\ \A p \in Orders \ {o} : oreg'[p] = oreg[p]
      /\ oreg'[o].resp \in {"none", oreg[o].resp}
    <2>1. CASE UNCHANGED oreg
        BY <2>1
    <2>2. CASE Write(t)
        BY <1>0, <1>2, <2>2, WriteTypes
    <2> QED BY <1>0, <1>2, <1>3, <2>1, <2>2, CallTypes
<1>8. \A i \in DOMAIN txs' : (i \in DOMAIN txs /\ txs'[i] = txs[i]) \/ txs'[i] = t
    BY <1>0, <1>2, <1>3, CallPool
<1>9. ProxyTypeInv'
    <2>1. ConnectorTypes'
        BY <1>0 DEF ConnectorTypes
    <2> QED BY <1>0, <1>4, <1>6, <2>1 DEF ProxyTypeInv
<1>10. ErrorInv'
    <2>1. ASSUME nfaults' = nkv' PROVE Caused'
        <3>1. Caused
            BY <1>0, <1>6, <2>1, CausedBefore DEF OrderInv
        <3>2. \A i \in DOMAIN txs' : txs'[i].fn = "complete" => i \in DOMAIN txs /\ txs'[i] = txs[i]
            BY <1>2, <1>8
        <3>3. \A p \in Orders : oreg'[p].resp = "error" => oreg[p].resp = "error"
            BY <1>7
        <3> QED BY <3>1, <3>2, <3>3 DEF Caused
    <2> QED BY <1>0, <1>6, <2>1 DEF OrderInv, ErrorInv
<1>11. ASSUME ncrash = 0
       PROVE  TrueAnswers' /\ \A p \in Orders : OncePlaced(p)'
    <2>1. /\ TrueAnswers /\ OncePlaced(o)
          /\ ~ InPool(o) /\ ~ Announced(o) /\ ~ InHand(o) /\ ~ Responded(o) /\ avalon[o] = "none"
        BY <1>1, <1>11 DEF OrderInv, OncePlaced, ToSubmit
    <2>2. \A p \in Orders : oreg'[p].resp = oreg[p].resp
        BY <1>7, <2>1 DEF Responded
    <2>3. TrueAnswers'
        <3>1. newest'.name = "completed" => oreg'[newest'.id].resp = newest'.resp
            <4>1. newest.name = "completed" => newest.id \in Orders
                BY <1>0 DEF LedgerTypes, Events, NoEvent, SubmittedEvents, CompletedEvents
            <4> QED BY <1>6, <2>1, <2>2, <4>1 DEF TrueAnswers
        <3>2. ASSUME NEW p \in Orders
              PROVE  /\ client'[p].pc = "wait" /\ client'[p].mail # "none"
                            => oreg'[p].resp = client'[p].mail
                     /\ client'[p].pc = "end" /\ client'[p].resp # "failed"
                            => oreg'[p].resp = client'[p].resp
            <4>1. CASE p = o
                BY <1>4, <1>5, <4>1
            <4>2. CASE p # o
                BY <1>5, <2>1, <2>2, <4>2 DEF TrueAnswers
            <4> QED BY <4>1, <4>2
        <3> QED BY <3>1, <3>2 DEF TrueAnswers
    <2>4. ASSUME NEW p \in Orders PROVE OncePlaced(p)'
        <3>1. OncePlaced(p)
            BY <1>11 DEF OrderInv
        <3>2. /\ Announced(p)' <=> Announced(p)
              /\ Responded(p)' <=> Responded(p)
              /\ InHand(p)' <=> InHand(p)
            BY <1>6, <2>2 DEF Announced, Responded, InHand
        <3>3. \A i, j \in DOMAIN inbox' : inbox'[i].id = p /\ inbox'[j].id = p => i = j
            BY <3>1 DEF OncePlaced
        <3>4. CASE p # o
            <4>1. /\ InPool(p)' => InPool(p)
                  /\ \A i, j \in DOMAIN txs' : TxOf(p, i)' /\ TxOf(p, j)' => i = j
                  /\ (\E i \in DOMAIN txs' : TxOf(p, i)' /\ txs'[i].fn = "submit")
                         => \E i \in DOMAIN txs : TxOf(p, i) /\ txs[i].fn = "submit"
                BY <1>0, <1>2, <1>3, <3>1, <3>4, OrderCall
            <4>2. Before(p)' => Before(p)
                BY <1>5, <3>4 DEF Before
            <4>3. ToSubmit(p)' => ToSubmit(p)
                BY <3>2, <4>1, <4>2 DEF ToSubmit
            <4> QED BY <3>1, <3>2, <3>3, <4>1, <4>2, <4>3, StaysPlaced
        <3>5. CASE p = o
            <4>1. \A i, j \in DOMAIN txs' : TxOf(p, i)' /\ TxOf(p, j)' => i = j
                BY <1>0, <1>2, <1>3, <2>1, <3>5, OrderCall
            <4>2. ~ Before(p)'
                BY <1>4, <1>5, <3>5 DEF Before
            <4> QED BY <2>1, <3>2, <3>3, <3>5, <4>1, <4>2 DEF OncePlaced
        <3> QED BY <3>4, <3>5
    <2> QED BY <2>3, <2>4
<1> QED BY <1>6, <1>9, <1>10, <1>11 DEF OrderInv

(***************************************************************************)
(* A client looks for a worker, queries the chain, listens and ends.       *)
(***************************************************************************)
LEMMA OrdersByClient ==
    ASSUME OrderInv, ClientNext
    PROVE  OrderInv'
<1>0. /\ ProxyTypeInv /\ LedgerTypes /\ client \in [Orders -> ClientStates] /\ nfaults \in Nat
      /\ oreg \in [Orders -> OrderRecords] /\ newest \in Events
    BY DEF OrderInv, ProxyTypeInv, LedgerTypes
<1> USE DEF records
<1>1. PICK o \in Orders :
          \/ ClientStart(o) \/ ClientSubmit(o) \/ ClientEvent(o) \/ ClientTimeout(o)
          \/ FabricQuery(o) \/ EthereumQuery(o) \/ FabricListen(o) \/ EthereumListen(o)
    BY DEF ClientNext
<1>2. UNCHANGED <<avalonVars, connectorVars>>
    BY DEF ClientNext
<1>3. ASSUME \/ UNCHANGED ledgerVars
             \/ Fault /\ UNCHANGED <<chain, wreg, oreg, txs, newest>>
      PROVE  /\ UNCHANGED <<chain, wreg, oreg, txs, newest>>
             /\ nfaults' \in Nat /\ nfaults' >= nfaults
    BY <1>0, <1>3 DEF ledgerVars, Fault
<1>4. /\ \A r \in {"result", "error", "failed"} : /\ [pc |-> "end", resp |-> r] \in ClientStates
                                                  /\ [pc |-> "end", resp |-> r].pc = "end"
                                                  /\ [pc |-> "end", resp |-> r].resp = r
      /\ \A m \in {"none", "result", "error"} : /\ [pc |-> "wait", mail |-> m] \in ClientStates
                                                /\ [pc |-> "wait", mail |-> m].pc = "wait"
                                                /\ [pc |-> "wait", mail |-> m].mail = m
      /\ [pc |-> "listen"] \in ClientStates /\ [pc |-> "listen"].pc = "listen"
    BY DEF ClientStates
<1>5. ASSUME Finish(o, "failed"),
             \/ UNCHANGED ledgerVars
             \/ Fault /\ UNCHANGED <<chain, wreg, oreg, txs, newest>>
      PROVE  OrderInv'
    BY <1>2, <1>3, <1>4, <1>5, ClientMoves DEF Finish
<1>6. ASSUME Listen(o), \/ UNCHANGED ledgerVars
                        \/ Fault /\ UNCHANGED <<chain, wreg, oreg, txs, newest>>
      PROVE  OrderInv'
    BY <1>2, <1>3, <1>4, <1>6, ClientMoves DEF Listen
<1>7. CASE ClientStart(o)
    <2>1. UNCHANGED ledgerVars /\ Before(o)
        BY <1>7 DEF ClientStart, Before
    <2>2. CASE Finish(o, "failed")
        BY <1>5, <2>1, <2>2
    <2>3. ASSUME NEW w \in Workers,
                 client' = [client EXCEPT ![o] = [pc |-> "submit", worker |-> w]]
          PROVE  OrderInv'
        <3>1. /\ [pc |-> "submit", worker |-> w] \in ClientStates
              /\ [pc |-> "submit", worker |-> w].pc = "submit"
            BY DEF ClientStates
        <3> QED BY <1>2, <1>3, <2>1, <2>3, <3>1, ClientMoves
    <2> QED BY <1>7, <2>2, <2>3 DEF ClientStart
<1>8. CASE ClientSubmit(o)
    BY <1>2, <1>8, OrdersBySubmit
<1>9. CASE ClientEvent(o)
    <2>1. /\ UNCHANGED ledgerVars /\ client[o].pc = "wait" /\ client[o].mail # "none"
          /\ client[o].mail \in {"result", "error"} /\ client[o] = [pc |-> "wait", mail |-> client[o].mail]
        BY <1>0, <1>9, ClientFields DEF ClientEvent
    <2>2. ncrash = 0 => oreg[o].resp = client[o].mail
        BY <2>1 DEF OrderInv, TrueAnswers
    <2>3. CASE Finish(o, client[o].mail)
        BY <1>2, <1>3, <1>4, <2>1, <2>2, <2>3, ClientMoves DEF Finish
    <2>4. CASE client' = [client EXCEPT ![o].mail = "none"]
        <3>1. client' = [client EXCEPT ![o] = [pc |-> "wait", mail |-> "none"]]
            <4>1. [client[o] EXCEPT !.mail = "none"] = [pc |-> "wait", mail |-> "none"]
                BY <2>1
            <4> QED BY <1>0, <2>4, <4>1
        <3> QED BY <1>2, <1>3, <1>4, <2>1, <3>1, ClientMoves
    <2> QED BY <1>9, <2>3, <2>4 DEF ClientEvent
<1>10. CASE ClientTimeout(o)
    BY <1>5, <1>10 DEF ClientTimeout
<1>11. CASE FabricQuery(o)
    <2>1. CASE UNCHANGED ledgerVars /\ oreg[o].resp # "none" /\ Finish(o, oreg[o].resp)
        <3>1. oreg[o].resp \in {"result", "error"}
            BY <1>0, <2>1 DEF OrderRecords
        <3> QED BY <1>2, <1>3, <1>4, <2>1, <3>1, ClientMoves DEF Finish
    <2>2. \/ UNCHANGED ledgerVars /\ oreg[o].resp # "none" /\ Finish(o, oreg[o].resp)
          \/ UNCHANGED ledgerVars /\ Finish(o, "failed")
          \/ UNCHANGED ledgerVars /\ Listen(o)
          \/ Fault /\ Listen(o) /\ UNCHANGED <<chain, wreg, oreg, txs, newest>>
        BY <1>11 DEF FabricQuery
    <2> QED BY <1>5, <1>6, <2>1, <2>2
<1>12. CASE EthereumQuery(o)
    BY <1>5, <1>6, <1>12 DEF EthereumQuery
<1>13. CASE FabricListen(o)
    <2> DEFINE m == IF newest.name = "completed" /\ newest.id = o THEN newest.resp ELSE "none"
    <2>1. UNCHANGED ledgerVars /\ client' = [client EXCEPT ![o] = [pc |-> "wait", mail |-> m]]
        BY <1>13 DEF FabricListen
    <2>2. m \in {"none", "result", "error"}
        BY <1>0 DEF Events, NoEvent, SubmittedEvents, CompletedEvents
    <2>3. m # "none" /\ ncrash = 0 => oreg[o].resp = m
        BY DEF OrderInv, TrueAnswers
    <2> HIDE DEF m
    <2> QED BY <1>2, <1>3, <1>4, <2>1, <2>2, <2>3, ClientMoves
<1>14. CASE EthereumListen(o)
    <2>1. /\ UNCHANGED ledgerVars
          /\ client' = [client EXCEPT ![o] = [pc |-> "wait", mail |-> "none"]]
        BY <1>14 DEF EthereumListen
    <2> QED BY <1>2, <1>3, <1>4, <2>1, ClientMoves
<1> QED BY <1>1, <1>7, <1>8, <1>9, <1>10, <1>11, <1>12, <1>13, <1>14


(***************************************************************************)
(* A block is cut on Fabric: its transaction leaves the pool, its event    *)
(* goes to the connector or to the client that waits for it.               *)
(***************************************************************************)
LEMMA OrdersByCommit ==
    ASSUME OrderInv, FabricCommit, Publish(newest'),
           UNCHANGED <<avalonVars, sync, active, mapVars, events, hand, faultVars>>
    PROVE  OrderInv'
<1> DEFINE t == Head(txs)
<1>0. /\ ProxyTypeInv /\ LedgerTypes /\ ConnectorTypes /\ client \in [Orders -> ClientStates]
      /\ nfaults \in Nat /\ nkv \in Nat /\ ncrash \in Nat /\ oreg \in [Orders -> OrderRecords]
      /\ txs \in Seq(Txs) /\ inbox \in Seq(SubmittedEvents) /\ txs # <<>>
      /\ wreg \in [Workers -> WorkerRecords] 
    BY DEF OrderInv, ProxyTypeInv, LedgerTypes, ConnectorTypes, FabricCommit
<1> USE DEF avalonVars, mapVars, faultVars
<1>1. /\ t \in Txs /\ 1 \in DOMAIN txs /\ txs[1] = t /\ Tail(txs) \in Seq(Txs)
      /\ \A i \in DOMAIN Tail(txs) : /\ i \in Nat /\ i + 1 \in DOMAIN txs /\ i + 1 # 1
                                     /\ Tail(txs)[i] = txs[i + 1]
    <2>1. /\ t \in Txs /\ 1 \in DOMAIN txs /\ txs[1] = t /\ Tail(txs) \in Seq(Txs)
          /\ \A i \in DOMAIN Tail(txs) : /\ i \in Nat /\ i + 1 \in DOMAIN txs /\ i + 1 > 1
                                         /\ Tail(txs)[i] = txs[i + 1]
        BY <1>0, TailAt
    <2> QED BY <2>1
<1>2. /\ chain' = chain /\ chain = "fabric" /\ nfaults' = nfaults
      /\ \/ t.stale /\ txs' = Tail(txs) /\ newest' = NoEvent /\ UNCHANGED <<wreg, oreg>>
         \/ ~ t.stale /\ Write(t) /\ txs' = MarkStale(Tail(txs), t) /\ newest' = EventOf(t)
    BY DEF FabricCommit
<1> HIDE DEF t
<1>3. /\ txs' \in Seq(Txs)
      /\ \A i \in DOMAIN txs' : /\ i \in Nat /\ i + 1 \in DOMAIN txs /\ i + 1 # 1
                                /\ txs'[i].key = txs[i + 1].key /\ txs'[i].fn = txs[i + 1].fn
                                /\ txs'[i].arg = txs[i + 1].arg
    <2>1. CASE txs' = Tail(txs)
        BY <1>1, <2>1
    <2>2. CASE txs' = MarkStale(Tail(txs), t)
        <3>1. /\ txs' \in Seq(Txs) /\ DOMAIN txs' = DOMAIN Tail(txs)
              /\ \A i \in DOMAIN Tail(txs) : /\ txs'[i].key = Tail(txs)[i].key
                                             /\ txs'[i].fn = Tail(txs)[i].fn
                                             /\ txs'[i].arg = Tail(txs)[i].arg
            <4> DEFINE ts == Tail(txs)
            <4>1. ts \in Seq(Txs) /\ t \in Txs
                BY <1>1
            <4> HIDE DEF ts
            <4>2. /\ MarkStale(ts, t) \in Seq(Txs) /\ DOMAIN MarkStale(ts, t) = DOMAIN ts
                  /\ \A i \in DOMAIN ts : /\ MarkStale(ts, t)[i].key = ts[i].key
                                          /\ MarkStale(ts, t)[i].fn = ts[i].fn
                                          /\ MarkStale(ts, t)[i].arg = ts[i].arg
                BY <4>1, MarkStaleTypes
            <4> QED BY <2>2, <4>2 DEF ts
        <3> QED BY <1>1, <3>1
    <2> QED BY <1>2, <2>1, <2>2
<1>4. /\ newest' \in Events
      /\ newest'.name = "submitted" =>
             /\ newest' \in SubmittedEvents /\ t.fn = "submit"
             /\ newest'.id \in Orders /\ t.key = <<"order", newest'.id>>
      /\ newest'.name = "completed" =>
             /\ newest'.id \in Orders /\ newest'.resp \in {"result", "error"}
             /\ ~ t.stale /\ t.fn = "complete" /\ t.key = <<"order", newest'.id>>
             /\ newest'.resp = t.arg
      /\ ~ t.stale /\ t.fn = "complete" =>
             newest' = [name |-> "completed", id |-> t.key[2], resp |-> t.arg]
    <2>1. CASE t.stale
        BY <1>2, <2>1 DEF NoEvent, Events
    <2>2. CASE ~ t.stale /\ t.fn = "submit"
        <3>1. newest' = [name |-> "submitted", id |-> t.key[2], worker |-> t.arg]
            BY <1>2, <2>2 DEF EventOf
        <3>2. t.key = <<"order", t.key[2]>> /\ t.key[2] \in Orders /\ t.arg \in Workers
            BY <1>1, <2>2, TxFields
        <3> QED BY <2>2, <3>1, <3>2 DEF Events, SubmittedEvents
    <2>3. CASE ~ t.stale /\ t.fn = "complete"
        <3>1. newest' = [name |-> "completed", id |-> t.key[2], resp |-> t.arg]
            BY <1>2, <2>3 DEF EventOf
        <3>2. /\ t.key = <<"order", t.key[2]>> /\ t.key[2] \in Orders
              /\ t.arg \in {"result", "error"}
            BY <1>1, <2>3, TxFields
        <3> QED BY <2>3, <3>1, <3>2 DEF Events, CompletedEvents
    <2>4. CASE ~ t.stale /\ t.fn \notin {"submit", "complete"}
        BY <1>2, <2>4 DEF EventOf, NoEvent, Events
    <2> QED BY <2>1, <2>2, <2>3, <2>4
<1>5. /\ wreg' \in [Workers -> WorkerRecords] /\ oreg' \in [Orders -> OrderRecords]
      /\ \A p \in Orders :
             \/ oreg'[p] = oreg[p]
             \/ /\ t.key = <<"order", p>> /\ ~ t.stale
                /\ \/ t.fn = "submit" /\ oreg'[p].resp = "none"
                   \/ t.fn = "complete" /\ oreg'[p].resp = t.arg
    <2>1. CASE UNCHANGED <<wreg, oreg>>
        BY <1>0, <2>1
    <2>2. CASE Write(t) /\ ~ t.stale
        <3>1. /\ wreg' \in [Workers -> WorkerRecords] /\ oreg' \in [Orders -> OrderRecords]
              /\ t.key[1] = "worker" => oreg' = oreg
              /\ \A o \in Orders : o # t.key[2] => oreg'[o] = oreg[o]
              /\ t.fn = "submit" => oreg'[t.key[2]].resp = "none"
              /\ t.fn = "complete" => oreg'[t.key[2]].resp = t.arg
            BY <1>0, <1>1, <2>2, WriteTypes
        <3>2. CASE t.fn \in {"submit", "complete"}
            BY <1>1, <2>2, <3>1, <3>2, TxFields
        <3>3. CASE t.fn \notin {"submit", "complete"}
            <4>1. t.key[1] = "worker"
                BY <1>1, <3>3, TxFields
            <4> QED BY <3>1, <4>1
        <3> QED BY <3>2, <3>3
    <2> QED BY <1>2, <2>1, <2>2
<1>6. /\ inbox' \in Seq(SubmittedEvents)
      /\ \A i \in DOMAIN inbox' :
             \/ i \in DOMAIN inbox /\ inbox'[i] = inbox[i]
             \/ newest'.name = "submitted" /\ inbox'[i] = newest' /\ i = Len(inbox) + 1
      /\ newest'.name # "submitted" => inbox' = inbox
      /\ events # "on" => inbox' = inbox
    <2>1. CASE newest'.name = "submitted" /\ events = "on"
        <3>1. inbox' = Append(inbox, newest')
            BY <2>1 DEF Publish
        <3> QED BY <1>0, <1>4, <2>1, <3>1, AppendAt
    <2>2. CASE ~ (newest'.name = "submitted" /\ events = "on")
        <3>1. inbox' = inbox
            BY <2>2 DEF Publish
        <3> QED BY <1>0, <2>2, <3>1
    <2> QED BY <2>1, <2>2
<1>7. /\ client' \in [Orders -> ClientStates]
      /\ \A p \in Orders :
             \/ /\ client'[p] = client[p]
                /\ ~ (newest'.name = "completed" /\ newest'.id = p /\ client[p].pc = "wait")
             \/ /\ newest'.name = "completed" /\ newest'.id = p /\ client[p].pc = "wait"
                /\ client'[p].pc = "wait" /\ client'[p].mail = newest'.resp
    <2>1. CASE newest'.name = "completed" /\ client[newest'.id].pc = "wait"
        <3> DEFINE q == newest'.id
        <3>1. client' = [client EXCEPT ![q].mail = newest'.resp]
            BY <2>1 DEF Publish
        <3>2. /\ q \in Orders /\ newest'.resp \in {"none", "result", "error"}
              /\ client[q] \in ClientStates /\ client[q].pc = "wait"
            BY <1>0, <1>4, <2>1
        <3>3. client[q] = [pc |-> "wait", mail |-> client[q].mail]
            BY <3>2, ClientFields
        <3>4. [client[q] EXCEPT !.mail = newest'.resp] = [pc |-> "wait", mail |-> newest'.resp]
            BY <3>3
        <3>5. client' = [client EXCEPT ![q] = [pc |-> "wait", mail |-> newest'.resp]]
            BY <1>0, <3>1, <3>4
        <3>6. [pc |-> "wait", mail |-> newest'.resp] \in ClientStates
            BY <3>2 DEF ClientStates
        <3> HIDE DEF q
        <3>7. client' \in [Orders -> ClientStates]
            BY <1>0, <3>5, <3>6
        <3>8. /\ client'[q] = [pc |-> "wait", mail |-> newest'.resp]
              /\ \A p \in Orders \ {q} : client'[p] = client[p]
            BY <1>0, <3>2, <3>5
        <3> QED BY <2>1, <3>2, <3>7, <3>8 DEF q
    <2>2. CASE ~ (newest'.name = "completed" /\ client[newest'.id].pc = "wait")
        <3>1. client' = client
            BY <2>2 DEF Publish
        <3> QED BY <1>0, <2>2, <3>1
    <2> QED BY <2>1, <2>2
<1>8. ProxyTypeInv'
    <2>1. LedgerTypes'
        BY <1>0, <1>2, <1>3, <1>4, <1>5 DEF LedgerTypes
    <2>2. ConnectorTypes'
        BY <1>0, <1>6 DEF ConnectorTypes
    <2> QED BY <1>7, <2>1, <2>2 DEF ProxyTypeInv
<1>9. ErrorInv'
    <2>1. ASSUME nfaults' = nkv' PROVE Caused'
        <3>1. Caused
            BY <1>0, <1>2, <2>1, CausedBefore DEF OrderInv
        <3>2. \A i \in DOMAIN txs' : txs'[i].fn = "complete" /\ txs'[i].arg = "error"
                                         => avalon'[txs'[i].key[2]] \in Failing
            BY <1>3, <3>1 DEF Caused
        <3>3. \A p \in Orders : oreg'[p].resp = "error" => avalon'[p] \in Failing
            <4> SUFFICES ASSUME NEW p \in Orders, oreg'[p].resp = "error"
                         PROVE  avalon[p] \in Failing
                OBVIOUS
            <4>1. CASE oreg'[p] = oreg[p]
                BY <3>1, <4>1 DEF Caused
            <4>2. CASE t.key = <<"order", p>> /\ t.fn = "complete" /\ t.arg = "error"
                <5>1. t.key[2] = p
                    BY <4>2
                <5> QED BY <1>1, <3>1, <4>2, <5>1 DEF Caused
            <4> QED BY <1>5, <4>1, <4>2
        <3> QED BY <3>1, <3>2, <3>3 DEF Caused
    <2> QED BY <1>0, <1>2, <2>1 DEF OrderInv, ErrorInv
<1>10. ASSUME ncrash = 0
       PROVE  TrueAnswers' /\ \A p \in Orders : OncePlaced(p)'
    <2>1. TrueAnswers /\ \A p \in Orders : OncePlaced(p)
        BY <1>10 DEF OrderInv
    <2>2. \A p \in Orders : t.key = <<"order", p>> =>
              /\ TxOf(p, 1) /\ InPool(p) /\ ~ Before(p) /\ ~ Announced(p) /\ ~ InHand(p)
              /\ oreg[p].resp = "none"
        BY <1>1, <2>1 DEF OncePlaced, TxOf, InPool, Responded
    <2>3. TrueAnswers'
        <3>1. ASSUME newest'.name = "completed"
              PROVE  oreg'[newest'.id].resp = newest'.resp
            <4>1. Write(t)
                BY <1>2, <1>4, <3>1
            <4>2. oreg'[t.key[2]].resp = t.arg
                BY <1>0, <1>1, <1>4, <3>1, <4>1, WriteTypes
            <4> QED BY <1>4, <3>1, <4>2
        <3>2. ASSUME NEW p \in Orders
              PROVE  /\ client'[p].pc = "wait" /\ client'[p].mail # "none"
                            => oreg'[p].resp = client'[p].mail
                     /\ client'[p].pc = "end" /\ client'[p].resp # "failed"
                            => oreg'[p].resp = client'[p].resp
            <4>1. CASE newest'.name = "completed" /\ newest'.id = p /\ client[p].pc = "wait"
                BY <1>7, <3>1, <4>1
            <4>2. CASE ~ (newest'.name = "completed" /\ newest'.id = p /\ client[p].pc = "wait")
                <5>1. client'[p] = client[p]
                    BY <1>7, <4>2
                <5>2. CASE oreg'[p] = oreg[p]
                    BY <2>1, <5>1, <5>2 DEF TrueAnswers
                <5>3. CASE oreg'[p] # oreg[p]
                    <6>1. t.key = <<"order", p>> /\ oreg[p].resp = "none"
                        BY <1>5, <2>2, <5>3
                    <6>2. client[p].pc = "end" => client[p].resp = "failed"
                        BY <1>0, <2>1, <6>1, ClientFields DEF TrueAnswers
                    <6>3. client[p].pc = "wait" => client[p].mail = "none"
                        BY <1>0, <2>1, <6>1, ClientFields DEF TrueAnswers
                    <6> QED BY <5>1, <6>2, <6>3
                <5> QED BY <5>2, <5>3
            <4> QED BY <4>1, <4>2
        <3> QED BY <3>1, <3>2 DEF TrueAnswers
    <2>4. ASSUME NEW p \in Orders PROVE OncePlaced(p)'
        <3>1. OncePlaced(p)
            BY <2>1
        <3>2. /\ InPool(p)' => InPool(p)
              /\ \A i, j \in DOMAIN txs' : TxOf(p, i)' /\ TxOf(p, j)' => i = j
              /\ (\E i \in DOMAIN txs' : TxOf(p, i)' /\ txs'[i].fn = "submit")
                     => \E i \in DOMAIN txs : TxOf(p, i) /\ txs[i].fn = "submit"
            BY <1>3, <3>1, PoolWithin
        <3>3. /\ Before(p)' <=> Before(p)
              /\ InHand(p)' <=> InHand(p)
            BY <1>7 DEF Before, InHand
        <3>4. CASE t.key # <<"order", p>>
            <4>1. Responded(p)' <=> Responded(p)
                BY <1>5, <3>4 DEF Responded
            <4>2. \A i \in DOMAIN inbox' : inbox'[i].id = p => /\ i \in DOMAIN inbox
                                                              /\ inbox[i].id = p
                BY <1>4, <1>6, <3>4
            <4>3. Announced(p)' => Announced(p)
                BY <1>4, <3>4, <4>2 DEF Announced
            <4>4. ToSubmit(p)' => ToSubmit(p)
                BY <3>2, <3>3, <4>3 DEF ToSubmit
            <4>5. \A i, j \in DOMAIN inbox' : inbox'[i].id = p /\ inbox'[j].id = p => i = j
                BY <3>1, <4>2 DEF OncePlaced
            <4> QED BY <3>1, <3>2, <3>3, <4>1, <4>3, <4>4, <4>5, StaysPlaced
        <3>5. CASE t.key = <<"order", p>>
            <4>1. /\ TxOf(p, 1) /\ ~ Before(p) /\ ~ Announced(p) /\ ~ InHand(p)
                  /\ oreg[p].resp = "none"
                BY <2>2, <3>5
            <4>2. ~ InPool(p)'
                <5>1. \A i \in DOMAIN txs : TxOf(p, i) => i = 1
                    BY <1>1, <3>1, <4>1 DEF OncePlaced
                <5> QED BY <1>3, <5>1 DEF InPool, TxOf
            <4>3. Announced(p)' => newest'.name = "submitted"
                BY <1>6, <4>1 DEF Announced
            <4>4. Responded(p)' => ~ t.stale /\ t.fn = "complete"
                BY <1>5, <4>1 DEF Responded
            <4>5. Announced(p)' => ~ Responded(p)' /\ t.fn = "submit"
                BY <1>4, <4>3, <4>4
            <4>6. \A i, j \in DOMAIN inbox' : inbox'[i].id = p /\ inbox'[j].id = p => i = j
                BY <1>6, <4>1 DEF Announced
            <4>7. ToSubmit(p)' => ToSubmit(p)
                <5>1. ToSubmit(p)' => Announced(p)'
                    BY <3>3, <4>1, <4>2 DEF ToSubmit, InPool
                <5>2. t.fn = "submit" => ToSubmit(p)
                    BY <1>1, <4>1 DEF ToSubmit
                <5> QED BY <4>5, <5>1, <5>2
            <4> QED BY <3>1, <3>2, <3>3, <4>1, <4>2, <4>5, <4>6, <4>7 DEF OncePlaced
        <3> QED BY <3>4, <3>5
    <2> QED BY <2>3, <2>4
<1> QED BY <1>0, <1>2, <1>6, <1>8, <1>9, <1>10 DEF OrderInv

(***************************************************************************)
(* A transaction that nobody waits for is mined or dropped on Ethereum.    *)
(***************************************************************************)
LEMMA OrdersByMine ==
    ASSUME OrderInv, EthereumMine,
           UNCHANGED <<avalonVars, sync, active, mapVars, events, hand, faultVars,
                       inbox, client>>
    PROVE  OrderInv'
<1> DEFINE t == Head(txs)
<1>0. /\ ProxyTypeInv /\ LedgerTypes /\ ConnectorTypes /\ client \in [Orders -> ClientStates]
      /\ nfaults \in Nat /\ nkv \in Nat /\ ncrash \in Nat /\ oreg \in [Orders -> OrderRecords]
      /\ wreg \in [Workers -> WorkerRecords] /\ txs \in Seq(Txs) /\ txs # <<>>
    BY DEF OrderInv, ProxyTypeInv, LedgerTypes, ConnectorTypes, EthereumMine
<1> USE DEF avalonVars, mapVars, faultVars
<1>1. t \in Txs /\ 1 \in DOMAIN txs /\ txs[1] = t
    BY <1>0, TailAt
<1>2. /\ chain' = chain /\ newest' = newest /\ nfaults' = nfaults
      /\ txs' = <<>> /\ txs' \in Seq(Txs) /\ DOMAIN txs' = {}
      /\ Write(t) \/ UNCHANGED <<wreg, oreg>>
      /\ chain = "ethereum"
    BY DEF EthereumMine
<1> HIDE DEF t
<1>3. /\ wreg' \in [Workers -> WorkerRecords] /\ oreg' \in [Orders -> OrderRecords]
      /\ \A p \in Orders :
             \/ oreg'[p] = oreg[p]
             \/ /\ t.key = <<"order", p>>
                /\ \/ t.fn = "submit" /\ oreg'[p].resp = "none"
                   \/ t.fn = "complete" /\ oreg'[p].resp = t.arg
    <2>1. CASE UNCHANGED <<wreg, oreg>>
        BY <1>0, <2>1
    <2>2. CASE Write(t)
        <3>1. /\ wreg' \in [Workers -> WorkerRecords] /\ oreg' \in [Orders -> OrderRecords]
              /\ t.key[1] = "worker" => oreg' = oreg
              /\ \A o \in Orders : o # t.key[2] => oreg'[o] = oreg[o]
              /\ t.fn = "submit" => oreg'[t.key[2]].resp = "none"
              /\ t.fn = "complete" => oreg'[t.key[2]].resp = t.arg
            BY <1>0, <1>1, <2>2, WriteTypes
        <3>2. CASE t.fn \in {"submit", "complete"}
            BY <1>1, <2>2, <3>1, <3>2, TxFields
        <3>3. CASE t.fn \notin {"submit", "complete"}
            <4>1. t.key[1] = "worker"
                BY <1>1, <3>3, TxFields
            <4> QED BY <3>1, <4>1
        <3> QED BY <3>2, <3>3
    <2> QED BY <1>2, <2>1, <2>2
<1>4. ProxyTypeInv'
    <2>1. LedgerTypes'
        BY <1>0, <1>2, <1>3 DEF LedgerTypes
    <2>2. ConnectorTypes'
        BY <1>0 DEF ConnectorTypes
    <2> QED BY <1>0, <2>1, <2>2 DEF ProxyTypeInv
<1>5. ErrorInv'
    <2>1. ASSUME nfaults' = nkv' PROVE Caused'
        <3>1. Caused
            BY <1>0, <1>2, <2>1, CausedBefore DEF OrderInv
        <3>2. \A p \in Orders : oreg'[p].resp = "error" => avalon'[p] \in Failing
            <4> SUFFICES ASSUME NEW p \in Orders, oreg'[p].resp = "error"
                         PROVE  avalon[p] \in Failing
                OBVIOUS
            <4>1. CASE oreg'[p] = oreg[p]
                BY <3>1, <4>1 DEF Caused
            <4>2. CASE t.key = <<"order", p>> /\ t.fn = "complete" /\ t.arg = "error"
                <5>1. t.key[2] = p
                    BY <4>2
                <5> QED BY <1>1, <3>1, <4>2, <5>1 DEF Caused
            <4> QED BY <1>3, <4>1, <4>2
        <3> QED BY <1>2, <3>1, <3>2 DEF Caused
    <2> QED BY <1>0, <1>2, <2>1 DEF OrderInv, ErrorInv
<1>6. ASSUME ncrash = 0
      PROVE  TrueAnswers' /\ \A p \in Orders : OncePlaced(p)'
    <2>1. TrueAnswers /\ \A p \in Orders : OncePlaced(p)
        BY <1>6 DEF OrderInv
    <2>2. \A p \in Orders : t.key = <<"order", p>> =>
              /\ InPool(p) /\ ~ Before(p) /\ ~ Announced(p) /\ ~ InHand(p)
              /\ oreg[p].resp = "none"
        BY <1>1, <2>1 DEF OncePlaced, TxOf, InPool, Responded
    <2>3. \A p \in Orders : oreg[p].resp # "none" => oreg'[p] = oreg[p]
        BY <1>3, <2>2
    <2>4. TrueAnswers'
        <3>1. newest'.name = "completed" => oreg'[newest'.id].resp = newest'.resp
            <4>1. newest.name = "completed" => newest.id \in Orders /\ newest.resp # "none"
                BY <1>0 DEF LedgerTypes, Events, NoEvent, SubmittedEvents, CompletedEvents
            <4> QED BY <1>2, <2>1, <2>3, <4>1 DEF TrueAnswers
        <3>2. ASSUME NEW p \in Orders
              PROVE  /\ client'[p].pc = "wait" /\ client'[p].mail # "none"
                            => oreg'[p].resp = client'[p].mail
                     /\ client'[p].pc = "end" /\ client'[p].resp # "failed"
                            => oreg'[p].resp = client'[p].resp
            <4>1. /\ client[p].pc = "wait" /\ client[p].mail # "none"
                         => oreg[p].resp = client[p].mail
                  /\ client[p].pc = "end" /\ client[p].resp # "failed"
                         => oreg[p].resp = client[p].resp /\ client[p].resp # "none"
                BY <1>0, <2>1, ClientFields DEF TrueAnswers
            <4> QED BY <2>3, <4>1
        <3> QED BY <3>1, <3>2 DEF TrueAnswers
    <2>5. ASSUME NEW p \in Orders PROVE OncePlaced(p)'
        <3>1. OncePlaced(p)
            BY <2>1
        <3>2. ~ InPool(p)' /\ \A i : ~ TxOf(p, i)'
            BY <1>2 DEF InPool, TxOf
        <3>3. /\ Before(p)' <=> Before(p)
              /\ InHand(p)' <=> InHand(p)
              /\ Announced(p)' <=> Announced(p)
            BY <1>2 DEF Before, InHand, Announced
        <3>4. \A i, j \in DOMAIN inbox' : inbox'[i].id = p /\ inbox'[j].id = p => i = j
            BY <3>1 DEF OncePlaced
        <3>5. ToSubmit(p)' => ToSubmit(p)
            BY <3>2, <3>3 DEF ToSubmit
        <3>6. CASE t.key = <<"order", p>>
            <4>1. ~ Before(p) /\ ~ Announced(p) /\ ~ InHand(p)
                BY <2>2, <3>6
            <4> QED BY <3>1, <3>2, <3>3, <3>4, <3>5, <4>1 DEF OncePlaced
        <3>7. CASE t.key # <<"order", p>>
            <4>1. Responded(p)' <=> Responded(p)
                BY <1>3, <3>7 DEF Responded
            <4> QED BY <3>1, <3>2, <3>3, <3>4, <3>5, <4>1, StaysPlaced
        <3> QED BY <3>6, <3>7
    <2> QED BY <2>4, <2>5
<1> QED BY <1>2, <1>4, <1>5, <1>6 DEF OrderInv

(***************************************************************************)
(* A worker answers an order, leaves, or is started again by its manager:  *)
(* an order that has failed does not recover, and nothing else changes.    *)
(***************************************************************************)
LEMMA OrdersByAvalon ==
    ASSUME OrderInv, AvalonNext
    PROVE  OrderInv'
<1>0. /\ ProxyTypeInv /\ LedgerTypes /\ ConnectorTypes /\ client \in [Orders -> ClientStates]
      /\ nfaults \in Nat /\ nkv \in Nat /\ ncrash \in Nat /\ txs \in Seq(Txs) /\ hand \in Hands
      /\ avalon \in [Orders -> OrderStates] /\ kv \in [Workers -> Nat]
    BY DEF OrderInv, ProxyTypeInv, LedgerTypes, ConnectorTypes
<1> USE DEF connectorVars, mapVars, eventVars, faultVars
<1>1. /\ UNCHANGED <<records, connectorVars, client>>
      /\ avalon' \in [Orders -> OrderStates] /\ kv' \in [Workers -> Nat]
      /\ \/ nfaults' = nfaults /\ nkv' = nkv
         \/ nfaults' = nfaults + 1 /\ nkv' = nkv + 1
      /\ \A o \in Orders : /\ avalon[o] = "none" => avalon'[o] = "none"
                           /\ avalon[o] \in Failing => avalon'[o] \in Failing
    <2>1. CASE Process
        <3>1. PICK o \in Orders, a \in {"done", "failed"} :
                  avalon[o] = "pending" /\ avalon' = [avalon EXCEPT ![o] = a]
            BY <2>1 DEF Process, SetAvalon
        <3>2. /\ avalon' \in [Orders -> OrderStates]
              /\ \A k \in Orders : /\ avalon[k] = "none" => avalon'[k] = "none"
                                   /\ avalon[k] \in Failing => avalon'[k] \in Failing
            BY <1>0, <3>1 DEF OrderStates, Failing
        <3>3. UNCHANGED <<ledgerVars, kv, nkv, connectorVars, client>>
            BY <2>1 DEF Process
        <3> QED BY <1>0, <3>2, <3>3 DEF ledgerVars, records
    <2>2. ASSUME NEW w \in Workers, RemoveWorker(w)
          PROVE  /\ UNCHANGED <<records, avalon, connectorVars, client>>
                 /\ kv' \in [Workers -> Nat] /\ nfaults' = nfaults + 1 /\ nkv' = nkv + 1
        <3>1. kv' = [kv EXCEPT ![w] = 0]
            BY <2>2 DEF RemoveWorker
        <3>2. kv' \in [Workers -> Nat]
            BY <1>0, <3>1
        <3> QED BY <2>2, <3>2 DEF RemoveWorker, Fault
    <2>3. ASSUME NEW w \in Workers, RestartManager(w)
          PROVE  /\ UNCHANGED <<records, connectorVars, client>>
                 /\ kv' \in [Workers -> Nat] /\ nfaults' = nfaults + 1 /\ nkv' = nkv + 1
                 /\ avalon' \in [Orders -> OrderStates]
                 /\ \A o \in Orders : /\ avalon[o] = "none" => avalon'[o] = "none"
                                      /\ avalon[o] \in Failing => avalon'[o] \in Failing
        <3>1. PICK v \in {kv[w], nkv + 2} : kv' = [kv EXCEPT ![w] = v]
            BY <2>3 DEF RestartManager
        <3>2. kv' \in [Workers -> Nat]
            BY <1>0, <3>1
        <3>3. PICK held \in SUBSET OrdersOf(w, {"pending"}) :
                  avalon' = [o \in Orders |->
                                CASE o \in held -> "lost"
                                  [] o \in OrdersOf(w, {"done", "failed"}) -> "gone"
                                  [] OTHER -> avalon[o]]
            BY <2>3 DEF RestartManager
        <3>4. /\ \A o \in held : o \in Orders /\ avalon[o] = "pending"
              /\ \A o \in OrdersOf(w, {"done", "failed"}) : avalon[o] \in {"done", "failed"}
            BY <3>3 DEF OrdersOf
        <3>5. /\ avalon' \in [Orders -> OrderStates]
              /\ \A o \in Orders : /\ avalon[o] = "none" => avalon'[o] = "none"
                                   /\ avalon[o] \in Failing => avalon'[o] \in Failing
            <4> SUFFICES ASSUME NEW o \in Orders
                         PROVE  /\ avalon'[o] \in OrderStates
                                /\ avalon[o] = "none" => avalon'[o] = "none"
                                /\ avalon[o] \in Failing => avalon'[o] \in Failing
                BY <3>3
            <4>1. CASE o \in held
                <5>1. o \notin OrdersOf(w, {"done", "failed"})
                    BY <3>4, <4>1
                <5>2. avalon'[o] = "lost"
                    BY <3>3, <4>1, <5>1
                <5> QED BY <3>4, <4>1, <5>2 DEF OrderStates, Failing
            <4>2. CASE o \notin held /\ o \in OrdersOf(w, {"done", "failed"})
                <5>1. avalon'[o] = "gone"
                    BY <3>3, <4>2
                <5> QED BY <3>4, <4>2, <5>1 DEF OrderStates, Failing
            <4>3. CASE o \notin held /\ o \notin OrdersOf(w, {"done", "failed"})
                <5>1. avalon'[o] = avalon[o]
                    BY <3>3, <4>3
                <5> QED BY <1>0, <5>1
            <4> QED BY <4>1, <4>2, <4>3
        <3> QED BY <2>3, <3>2, <3>5 DEF RestartManager, Fault
    <2> QED BY <1>0, <2>1, <2>2, <2>3 DEF AvalonNext
<1> USE DEF records
<1>2. ProxyTypeInv'
    <2>0. nfaults' \in Nat /\ nkv' \in Nat
        BY <1>0, <1>1
    <2>1. LedgerTypes'
        BY <1>0, <1>1, <2>0 DEF LedgerTypes
    <2>2. ConnectorTypes'
        BY <1>0, <1>1, <2>0 DEF ConnectorTypes
    <2> QED BY <1>0, <1>1, <2>1, <2>2 DEF ProxyTypeInv
<1>3. ErrorInv'
    <2>1. ErrorInv
        BY DEF OrderInv
    <2>2. ncrash' + nkv' <= nfaults' /\ (nfaults' = nkv' => nfaults = nkv)
        BY <1>0, <1>1, <2>1 DEF ErrorInv
    <2>3. ASSUME Caused PROVE Caused'
        <3>1. \A i \in DOMAIN txs : txs[i].fn = "complete" => txs[i].key[2] \in Orders
            BY <1>0, TxFields, ElementOfSeq
        <3>2. hand # Idle => hand.id \in Orders
            BY <1>0, HandFields
        <3> QED BY <1>1, <2>3, <3>1, <3>2 DEF Caused
    <2> QED BY <2>1, <2>2, <2>3 DEF ErrorInv
<1>4. ASSUME ncrash = 0
      PROVE  TrueAnswers' /\ \A p \in Orders : OncePlaced(p)'
    <2>1. TrueAnswers'
        BY <1>1, <1>4 DEF OrderInv, TrueAnswers
    <2>2. ASSUME NEW p \in Orders PROVE OncePlaced(p)'
        <3>1. OncePlaced(p)
            BY <1>4 DEF OrderInv
        <3>2. /\ Before(p)' <=> Before(p)
              /\ InPool(p)' <=> InPool(p)
              /\ Announced(p)' <=> Announced(p)
              /\ InHand(p)' <=> InHand(p)
              /\ Responded(p)' <=> Responded(p)
              /\ \A i : TxOf(p, i)' <=> TxOf(p, i)
            BY <1>1 DEF Before, InPool, Announced, InHand, Responded, TxOf
        <3>3. ToSubmit(p)' => ToSubmit(p)
            BY <1>1, <3>2 DEF ToSubmit
        <3>4. /\ \A i, j \in DOMAIN txs' : TxOf(p, i)' /\ TxOf(p, j)' => i = j
              /\ \A i, j \in DOMAIN inbox' : inbox'[i].id = p /\ inbox'[j].id = p => i = j
            BY <1>1, <3>1, <3>2 DEF OncePlaced
        <3> QED BY <1>1, <3>1, <3>2, <3>3, <3>4, StaysPlaced
    <2> QED BY <2>1, <2>2
<1> QED BY <1>1, <1>2, <1>3, <1>4 DEF OrderInv

(***************************************************************************)
(* A crash of the connector loses what it had in memory, and is a fault.   *)
(***************************************************************************)
LEMMA OrdersByCrash ==
    ASSUME OrderInv, Crash
    PROVE  OrderInv'
<1>0. /\ ProxyTypeInv /\ LedgerTypes /\ ConnectorTypes /\ client \in [Orders -> ClientStates]
      /\ nfaults \in Nat /\ nkv \in Nat /\ ncrash \in Nat
      /\ ncrash' = ncrash + 1 /\ nfaults' = nfaults + 1
      /\ UNCHANGED <<chain, wreg, oreg, txs, newest, avalonVars, client>>
    BY DEF OrderInv, ProxyTypeInv, LedgerTypes, ConnectorTypes, Crash, Fault, records
<1> USE DEF avalonVars
<1>1. ProxyTypeInv'
    <2>1. LedgerTypes'
        BY <1>0 DEF LedgerTypes
    <2>2. ConnectorTypes'
        <3>1. Start \in Rounds /\ NoDetails \in [Workers -> Nat] /\ Idle \in Hands
            BY DEF Start, Rounds, NoDetails, Hands
        <3>2. overtaken' = TRUE \/ overtaken' = FALSE
            BY DEF Crash
        <3>3. /\ sync' = Start /\ active' = {} /\ dmap' = NoDetails
              /\ events' = "off" /\ inbox' = <<>> /\ hand' = Idle /\ overtaken' \in BOOLEAN
            BY <3>2 DEF Crash
        <3>4. ncrash' \in Nat /\ <<>> \in Seq(SubmittedEvents)
            BY <1>0
        <3>5. UNCHANGED <<kv, avalon, nkv>>
            BY <1>0
        <3> QED BY <1>0, <3>1, <3>3, <3>4, <3>5 DEF ConnectorTypes
    <2> QED BY <1>0, <2>1, <2>2 DEF ProxyTypeInv
<1>2. ErrorInv'
    <2>1. ncrash + nkv <= nfaults
        BY DEF OrderInv, ErrorInv
    <2>2. ncrash' + nkv' <= nfaults' /\ nfaults' # nkv'
        BY <1>0, <2>1
    <2> QED BY <2>2 DEF ErrorInv
<1>3. events' = "off" /\ inbox' = <<>> /\ ncrash' # 0
    BY <1>0 DEF Crash
<1> QED BY <1>1, <1>2, <1>3 DEF OrderInv

(***************************************************************************)
(* The connector starts to listen, and the event of the newest block is    *)
(* queued, which no one has handled; or its listening ends.                *)
(***************************************************************************)
LEMMA OrdersByListening ==
    ASSUME OrderInv, Subscribe \/ Disconnect
    PROVE  OrderInv'
<1>0. /\ ProxyTypeInv /\ LedgerTypes /\ ConnectorTypes /\ client \in [Orders -> ClientStates]
      /\ nfaults \in Nat /\ nkv \in Nat /\ ncrash \in Nat /\ newest \in Events
    BY DEF OrderInv, ProxyTypeInv, LedgerTypes, ConnectorTypes
<1>1. /\ UNCHANGED <<records, avalonVars, sync, active, mapVars, hand, faultVars, client>>
      /\ nfaults' \in {nfaults, nfaults + 1}
    BY DEF Subscribe, Disconnect, ledgerVars, records, Fault
<1> USE DEF records, avalonVars, mapVars, faultVars
<1>2. /\ events' \in {"on", "over"} /\ (events' = "on" => chain = "fabric")
      /\ events' # "on" => inbox' = <<>>
      /\ \/ inbox' = <<>>
         \/ inbox' = <<newest>> /\ newest.name = "submitted" /\ events = "off"
    BY DEF Subscribe, Disconnect
<1>3. inbox' \in Seq(SubmittedEvents)
    <2>1. newest.name = "submitted" => newest \in SubmittedEvents
        BY <1>0 DEF Events, NoEvent, SubmittedEvents, CompletedEvents
    <2>2. CASE inbox' = <<>>
        BY <2>2
    <2>3. CASE newest \in SubmittedEvents /\ inbox' = <<newest>>
        BY ONLY <2>3
    <2> QED BY <1>2, <2>1, <2>2, <2>3
<1>4. ProxyTypeInv'
    <2>1. LedgerTypes'
        BY <1>0, <1>1 DEF LedgerTypes
    <2>2. ConnectorTypes'
        BY <1>0, <1>1, <1>2, <1>3 DEF ConnectorTypes
    <2> QED BY <1>0, <1>1, <2>1, <2>2 DEF ProxyTypeInv
<1>5. ErrorInv'
    <2>1. nfaults' \in Nat /\ nfaults' >= nfaults
        BY <1>0, <1>1
    <2>2. nfaults' = nkv' => Caused
        BY <1>0, <1>1, <2>1, CausedBefore DEF OrderInv
    <2>3. nfaults' = nkv' => Caused'
        BY <1>1, <2>2 DEF Caused
    <2> QED BY <1>0, <1>1, <2>1, <2>3 DEF OrderInv, ErrorInv
<1>6. ASSUME ncrash = 0, NEW o \in Orders PROVE OncePlaced(o)'
    <2>1. OncePlaced(o)
        BY <1>6 DEF OrderInv
    <2>2. /\ Before(o)' <=> Before(o)
          /\ InPool(o)' <=> InPool(o)
          /\ InHand(o)' <=> InHand(o)
          /\ Responded(o)' <=> Responded(o)
          /\ \A i : TxOf(o, i)' <=> TxOf(o, i)
        BY <1>1 DEF Before, InPool, InHand, Responded, TxOf
    <2>3. DOMAIN inbox' \subseteq {1} /\ (DOMAIN inbox' # {} => inbox'[1] = newest)
        BY <1>2
    <2>4. Announced(o)' => Announced(o)
        BY <1>1, <1>2, <2>3 DEF Announced
    <2>5. /\ \A i, j \in DOMAIN inbox' : inbox'[i].id = o /\ inbox'[j].id = o => i = j
          /\ \A i, j \in DOMAIN txs' : TxOf(o, i)' /\ TxOf(o, j)' => i = j
        BY <1>1, <2>1, <2>2, <2>3 DEF OncePlaced
    <2>6. ToSubmit(o)' => ToSubmit(o)
        BY <1>1, <2>2, <2>4 DEF ToSubmit
    <2> QED BY <1>1, <2>1, <2>2, <2>4, <2>5, <2>6, StaysPlaced
<1>7. TrueAnswers => TrueAnswers'
    BY <1>1 DEF TrueAnswers
<1> QED BY <1>1, <1>2, <1>4, <1>5, <1>6, <1>7 DEF OrderInv

(***************************************************************************)
(* Every step keeps the invariant.                                         *)
(***************************************************************************)
LEMMA NextOrders ==
    ASSUME OrderInv, [ProxyNext]_proxyVars
    PROVE  OrderInv'
<1>1. CASE SyncNext
    BY <1>1, OrdersByRound
<1>2. CASE HandNext
    BY <1>2, OrdersByHand, OrdersByComplete, OrdersByListening DEF HandNext, HandStep
<1>3. CASE ClientNext
    BY <1>3, OrdersByClient
<1>4. CASE ChainNext
    BY <1>4, OrdersByCommit, OrdersByMine DEF ChainNext
<1>5. CASE AvalonNext
    BY <1>5, OrdersByAvalon
<1>6. CASE Crash
    BY <1>6, OrdersByCrash
<1>7. CASE UNCHANGED proxyVars
    <2>1. /\ UNCHANGED <<chain, wreg, oreg, txs, newest, nfaults, kv, avalon, nkv, client>>
          /\ UNCHANGED <<sync, active, dmap, smap, events, inbox, hand, ncrash, overtaken>>
        BY <1>7 DEF proxyVars, ledgerVars, avalonVars, connectorVars, mapVars, eventVars, faultVars
    <2>2. ProxyTypeInv'
        <3>1. LedgerTypes'
            BY <2>1 DEF OrderInv, ProxyTypeInv, LedgerTypes
        <3>2. ConnectorTypes'
            BY <2>1 DEF OrderInv, ProxyTypeInv, ConnectorTypes
        <3> QED BY <2>1, <3>1, <3>2 DEF OrderInv, ProxyTypeInv
    <2>3. ErrorInv'
        BY <2>1 DEF OrderInv, ErrorInv, Caused
    <2>4. ncrash = 0 => TrueAnswers'
        BY <2>1 DEF OrderInv, TrueAnswers
    <2>5. \A o \in Orders : OncePlaced(o) => OncePlaced(o)'
        BY <2>1 DEF OncePlaced, Before, InPool, Announced, InHand, Responded, ToSubmit, TxOf
    <2> QED BY <2>1, <2>2, <2>3, <2>4, <2>5 DEF OrderInv
<1> QED BY <1>1, <1>2, <1>3, <1>4, <1>5, <1>6, <1>7 DEF ProxyNext

(***************************************************************************)
(* The invariant holds in every reachable state.                           *)
(***************************************************************************)
LEMMA OrdersPlaced == ProxySpec => []OrderInv
BY InitOrders, NextOrders, PTL DEF ProxySpec

-----------------------------------------------------------------------------

(***************************************************************************)
(* While no call has failed and the connector has not been restarted, an   *)
(* order has an error on the chain only if the listener refused it, a      *)
(* worker failed on it or a restarted manager removed its result, however  *)
(* often workers and managers come and go: the handler of work order       *)
(* events waits for the result, and handles no event twice.                *)
(***************************************************************************)
THEOREM ErrorsAreCaused == ProxySpec => []ErrorsHaveCause
<1>1. OrderInv => ErrorsHaveCause
    BY DEF OrderInv, ErrorInv, Caused, Failing, ErrorsHaveCause
<1> QED BY <1>1, OrdersPlaced, PTL

(***************************************************************************)
(* Until the connector is restarted, the answer a client ends with, read   *)
(* from the record by workOrderGet or taken from a workOrderCompleted      *)
(* event, is the one the chain keeps for its order.                        *)
(***************************************************************************)
THEOREM AnswersAreOnChain == ProxySpec => []AnswerIsOnChain
<1>1. OrderInv => AnswerIsOnChain
    BY DEF OrderInv, TrueAnswers, AnswerIsOnChain
<1> QED BY <1>1, OrdersPlaced, PTL


(***************************************************************************)
(* A write is about an order that has no answer, or about a worker.        *)
(***************************************************************************)
LEMMA AnswerKept ==
    ASSUME LedgerTypes, NEW t \in Txs, NEW o \in Orders, Responded(o),
           t.key = <<"order", o>> => ~ Responded(o),
           Write(t) \/ UNCHANGED <<wreg, oreg>>
    PROVE  oreg'[o].resp = oreg[o].resp
<1>1. CASE UNCHANGED <<wreg, oreg>>
    BY <1>1
<1>2. CASE Write(t)
    <2>1. /\ t.key[1] = "worker" => oreg' = oreg
          /\ o # t.key[2] => oreg'[o] = oreg[o]
        BY <1>2, WriteTypes
    <2>2. t.key[1] = "worker" \/ t.key = <<"order", t.key[2]>>
        BY TxFields
    <2> QED BY <2>1, <2>2
<1> QED BY <1>1, <1>2

(***************************************************************************)
(* Until the connector is restarted, no step touches the answer of an      *)
(* order that has one.                                                     *)
(***************************************************************************)
LEMMA AnswersStay ==
    ASSUME OrderInv, [ProxyNext]_proxyVars, ncrash = 0, NEW o \in Orders, Responded(o)
    PROVE  oreg'[o].resp = oreg[o].resp
<1>0. /\ ProxyTypeInv /\ LedgerTypes /\ client \in [Orders -> ClientStates]
      /\ txs \in Seq(Txs) /\ OncePlaced(o)
    BY DEF OrderInv, ProxyTypeInv, LedgerTypes
<1>1. ~ Before(o) /\ ~ InPool(o)
    BY <1>0 DEF OncePlaced
<1>2. CASE SyncNext
    <2>1. RoundCall
        BY <1>0, <1>2, RoundSteps
    <2>2. ASSUME NEW t \in DetailTxs \cup StatusTxs, NEW r \in Outcomes, Invoke(t, r)
          PROVE  oreg'[o].resp = oreg[o].resp
        <3>1. t \in Txs /\ t.key[1] = "worker"
            BY DEF Txs, DetailTxs, StatusTxs, WorkerKeys
        <3> QED BY <1>0, <2>2, <3>1, CallTypes, WriteTypes
    <2> QED BY <2>1, <2>2 DEF RoundCall, ledgerVars
<1>3. CASE HandNext
    BY <1>3 DEF HandNext, HandStep, Subscribe, Disconnect, Deliver, HandSubmit, HandPoll,
                HandComplete, FabricInvoke, Order, ledgerVars, records
<1>4. CASE ClientNext
    <2>1. CASE UNCHANGED oreg
        BY <2>1
    <2>2. ASSUME NEW p \in Orders, ClientSubmit(p)
          PROVE  oreg'[o].resp = oreg[o].resp
        <3> DEFINE t == workOrderSubmit(p, client[p].worker)
        <3>1. p # o /\ client[p].worker \in Workers
            BY <1>0, <1>1, <2>2, ClientFields DEF ClientSubmit, Before
        <3>2. t \in Txs /\ t.key = <<"order", p>>
            BY <3>1, TxKinds DEF Txs, workOrderSubmit, FabricSubmit, EthereumSubmit, Tx
        <3>3. PICK r \in Outcomes : Invoke(t, r)
            BY <2>2 DEF ClientSubmit
        <3> HIDE DEF t
        <3>4. Write(t) \/ UNCHANGED <<wreg, oreg>>
            BY <1>0, <3>2, <3>3, CallTypes
        <3> QED BY <1>0, <3>1, <3>2, <3>4, AnswerKept
    <2> QED BY <1>4, <2>1, <2>2 DEF ClientNext, ClientStart, ClientEvent, ClientTimeout,
               FabricQuery, EthereumQuery, FabricListen, EthereumListen, ledgerVars, records
<1>5. CASE ChainNext
    <2> DEFINE t == Head(txs)
    <2>1. txs # <<>> /\ (Write(t) \/ UNCHANGED <<wreg, oreg>>)
        BY <1>5 DEF ChainNext, FabricCommit, EthereumMine
    <2>2. t \in Txs /\ 1 \in DOMAIN txs /\ txs[1] = t
        BY <1>0, <2>1, TailAt
    <2>3. t.key # <<"order", o>>
        BY <1>1, <2>2 DEF InPool, TxOf
    <2> HIDE DEF t
    <2> QED BY <1>0, <2>1, <2>2, <2>3, AnswerKept
<1>6. CASE AvalonNext \/ Crash \/ UNCHANGED proxyVars
    BY <1>6 DEF AvalonNext, Process, RemoveWorker, RestartManager, Crash, proxyVars, ledgerVars,
                records
<1> QED BY <1>2, <1>3, <1>4, <1>5, <1>6 DEF ProxyNext

(***************************************************************************)
(* Without a restart of the connector, a result on the chain is never      *)
(* replaced, although workOrderComplete overwrites what it finds and the   *)
(* client's workOrderSubmit resets the record: an order that has its       *)
(* answer has no transaction in the pool, no event in the queue, and no    *)
(* handler at work.                                                        *)
(***************************************************************************)
THEOREM ResultsStay == ProxySpec => ResultStable
<1> DEFINE Kept == \A o \in Orders : oreg[o].resp = "result" /\ ncrash = 0
                                        => oreg'[o].resp = "result"
<1>1. OrderInv /\ [ProxyNext]_proxyVars => Kept
    BY AnswersStay DEF Responded
<1>2. OrderInv /\ [ProxyNext]_proxyVars => [Kept]_proxyVars
    BY <1>1
<1> QED BY <1>2, OrdersPlaced, PTL DEF ProxySpec, ResultStable


-----------------------------------------------------------------------------
(***************************************************************************)
(* The transactions of a worker, and what the round has to do with them    *)
(* while no round has begun before they were committed.                    *)
(***************************************************************************)
WorkerTxAt(w, i) == i \in DOMAIN txs /\ txs[i].key = <<"worker", w>>
DetailTxAt(w, i) == WorkerTxAt(w, i) /\ txs[i].fn \in {"register", "update"}
HasTx(w) == \E i \in DOMAIN txs : WorkerTxAt(w, i)

\* The worker that is being updated is the one the round is at.
RoundInv ==
    /\ sync.pc # "status" => sync.cur = {}
    /\ \A v, w \in sync.cur : v = w
    /\ sync.pc \in {"each", "status"} => sync.todo \subseteq active
    /\ sync.cur \subseteq sync.todo

\* The pool has transactions of this round's workers only, the ones it is done with.
PoolOfRound ==
    \A w \in Workers : HasTx(w) =>
        /\ chain = "fabric" /\ sync.pc \notin {"lookup", "chain"}
        /\ w \in sync.todo => w \in sync.cur
        /\ sync.pc \in {"each", "status"} => w \in active

\* The details of a worker are its first transaction in the pool, which nothing
\* makes stale.
DetailsFirst ==
    \A w \in Workers, i, j \in DOMAIN txs :
        WorkerTxAt(w, i) /\ WorkerTxAt(w, j) /\ i < j => txs[j].fn = "status"

DetailsFresh == \A w \in Workers, i \in DOMAIN txs : DetailTxAt(w, i) => ~ txs[i].stale

DetailsKept(w) ==
    dmap[w] # 0 =>
        \/ \E i \in DOMAIN txs : DetailTxAt(w, i) /\ txs[i].arg = dmap[w]
        \/ (\A i \in DOMAIN txs : ~ DetailTxAt(w, i)) /\ wreg[w].details = dmap[w]

DetailInv ==
    ~ overtaken => /\ RoundInv /\ PoolOfRound /\ DetailsFirst /\ DetailsFresh
                 /\ \A w \in Workers : DetailsKept(w)


(***************************************************************************)
(* The round leaves a loop without taking up a worker of H, when no worker *)
(* of H was left in it.                                                    *)
(***************************************************************************)
LEMMA SettleAvoids ==
    ASSUME NEW s \in Rounds, NEW H, s.pc \in {"each", "stale"}, s.cur = {},
           \A w \in H : w \notin s.todo, s.pc = "each" => H \subseteq active,
           s.pc = "each" => s.todo \subseteq active
    PROVE  /\ Settle(s).pc \in {"each", "stale", "sleep", "exited"} /\ Settle(s).cur = {}
           /\ \A w \in H : w \notin Settle(s).todo
           /\ Settle(s).pc = "each" => H \subseteq active /\ Settle(s).todo \subseteq active
<1> DEFINE st == [s EXCEPT !.pc = "stale", !.todo = s.seen \ active]
           over == [Start EXCEPT !.pc = IF chain = "fabric" THEN "sleep" ELSE "exited"]
<1>1. st \in [pc : {"stale"}, seen : {s.seen}, todo : {s.seen \ active}, cur : {{}},
               over : BOOLEAN]
    BY DEF Rounds
<1>2. st.pc = "stale" /\ st.todo = s.seen \ active /\ st.cur = {}
    BY <1>1
<1>3. over.pc \in {"sleep", "exited"} /\ over.todo = {} /\ over.cur = {}
    BY DEF Start
<1>4. CASE s.pc = "each" /\ s.todo = {}
    <2>1. CASE st.todo = {}
        <3>1. Settle(s) = over
            BY <1>2, <1>4, <2>1 DEF Settle
        <3> QED BY <1>3, <3>1
    <2>2. CASE st.todo # {}
        <3>1. Settle(s) = st
            BY <1>2, <1>4, <2>2 DEF Settle
        <3> QED BY <1>2, <1>4, <3>1
    <2> QED BY <2>1, <2>2
<1>5. CASE s.pc = "stale" /\ s.todo = {}
    <2>1. Settle(s) = over
        BY <1>5 DEF Settle
    <2> QED BY <1>3, <2>1
<1>6. CASE s.todo # {}
    <2>1. Settle(s) = s
        BY <1>6 DEF Settle
    <2> QED BY <2>1
<1> QED BY <1>4, <1>5, <1>6

(***************************************************************************)
(* A transaction joins the pool: one of an order, a status, or the first   *)
(* one of its worker.                                                      *)
(***************************************************************************)
LEMMA PoolAppend ==
    ASSUME txs \in Seq(Txs), NEW t \in Txs, txs' = Append(txs, t), t.stale = FALSE,
           DetailsFirst, DetailsFresh,
           \A w \in Workers : t.key = <<"worker", w>> => t.fn = "status" \/ ~ HasTx(w)
    PROVE  /\ DetailsFirst' /\ DetailsFresh'
           /\ \A w \in Workers : HasTx(w)' => HasTx(w) \/ t.key = <<"worker", w>>
           /\ \A w \in Workers, i \in DOMAIN txs :
                  DetailTxAt(w, i) => i \in DOMAIN txs' /\ DetailTxAt(w, i)' /\ txs'[i] = txs[i]
           /\ \A w \in Workers, i \in DOMAIN txs' : DetailTxAt(w, i)' =>
                  \/ i \in DOMAIN txs /\ DetailTxAt(w, i)
                  \/ t.key = <<"worker", w>> /\ t.fn \in {"register", "update"}
           /\ \E i \in DOMAIN txs' : txs'[i] = t
<1>1. /\ DOMAIN txs' = DOMAIN txs \cup {Len(txs) + 1}
      /\ Len(txs) + 1 \notin DOMAIN txs /\ txs'[Len(txs) + 1] = t
      /\ \A i \in DOMAIN txs : i \in Nat /\ i < Len(txs) + 1 /\ txs'[i] = txs[i]
    BY AppendAt
<1>2. \A w \in Workers, i \in DOMAIN txs' : WorkerTxAt(w, i)' =>
          \/ i \in DOMAIN txs /\ WorkerTxAt(w, i) /\ txs'[i] = txs[i]
          \/ i = Len(txs) + 1 /\ txs'[i] = t /\ t.key = <<"worker", w>>
    BY <1>1 DEF WorkerTxAt
<1>3. DetailsFirst'
    <2> SUFFICES ASSUME NEW w \in Workers, NEW i \in DOMAIN txs', NEW j \in DOMAIN txs',
                        WorkerTxAt(w, i)', WorkerTxAt(w, j)', i < j
                 PROVE  txs'[j].fn = "status"
        BY DEF DetailsFirst
    <2>1. CASE j \in DOMAIN txs
        <3>1. i \in DOMAIN txs
            <4>1. j < Len(txs) + 1 /\ j \in Nat /\ Len(txs) \in Nat
                BY <1>1, <2>1, LenProperties
            <4>2. i # Len(txs) + 1
                BY <4>1
            <4> QED BY <1>1, <4>2
        <3> QED BY <1>1, <1>2, <2>1, <3>1 DEF DetailsFirst
    <2>2. CASE j \notin DOMAIN txs
        <3>1. j = Len(txs) + 1 /\ txs'[j] = t /\ t.key = <<"worker", w>>
            BY <1>2, <2>2
        <3>2. i \in DOMAIN txs
            <4>1. Len(txs) \in Nat
                BY LenProperties
            <4>2. i # j
                BY <3>1, <4>1
            <4> QED BY <1>1, <3>1, <4>2
        <3>3. HasTx(w)
            BY <1>1, <1>2, <3>2 DEF HasTx
        <3> QED BY <3>1, <3>3
    <2> QED BY <2>1, <2>2
<1>4. DetailsFresh'
    BY <1>2 DEF DetailsFresh, DetailTxAt
<1>5. \A w \in Workers : HasTx(w)' => HasTx(w) \/ t.key = <<"worker", w>>
    BY <1>2 DEF HasTx
<1>6. \A w \in Workers, i \in DOMAIN txs :
          DetailTxAt(w, i) => i \in DOMAIN txs' /\ DetailTxAt(w, i)' /\ txs'[i] = txs[i]
    BY <1>1 DEF DetailTxAt, WorkerTxAt
<1>7. \A w \in Workers, i \in DOMAIN txs' : DetailTxAt(w, i)' =>
          \/ i \in DOMAIN txs /\ DetailTxAt(w, i)
          \/ t.key = <<"worker", w>> /\ t.fn \in {"register", "update"}
    BY <1>2 DEF DetailTxAt
<1> QED BY <1>1, <1>3, <1>4, <1>5, <1>6, <1>7

(***************************************************************************)
(* What the round makes of a call to either chain.                         *)
(***************************************************************************)
LEMMA CallOnChain ==
    ASSUME NEW t, NEW r, Invoke(t, r)
    PROVE  /\ chain' = chain
           /\ \/ /\ chain = "fabric" /\ r = "SUCCESS" /\ txs' = Append(txs, t)
                 /\ UNCHANGED <<wreg, oreg>>
              \/ chain = "fabric" /\ r # "SUCCESS" /\ UNCHANGED <<wreg, oreg, txs>>
              \/ /\ chain # "fabric" /\ txs' = <<>>
                 /\ \/ r = "SUCCESS" /\ Write(t)
                    \/ r = "ERROR" /\ UNCHANGED <<wreg, oreg>>
              \/ /\ chain # "fabric" /\ r = "raised" /\ txs' = <<t>>
                 /\ UNCHANGED <<wreg, oreg>>
<1>1. CASE chain = "fabric"
    <2>1. FabricInvoke(t, r)
        BY <1>1 DEF Invoke
    <2> QED BY <1>1, <2>1 DEF FabricInvoke, Order
<1>2. CASE chain # "fabric"
    <2>1. EthereumInvoke(t, r)
        BY <1>2 DEF Invoke
    <2>2. CASE Mined(t, r) /\ Replace(<<>>) /\ UNCHANGED <<chain, newest, nfaults>>
        BY <1>2, <2>2 DEF Mined, Replace
    <2>3. CASE /\ r = "raised" /\ Fault /\ Replace(<<t>>)
               /\ UNCHANGED <<chain, wreg, oreg, newest>>
        BY <1>2, <2>3 DEF Replace
    <2> QED BY <2>1, <2>2, <2>3 DEF EthereumInvoke
<1> QED BY <1>1, <1>2

(***************************************************************************)
(* The round goes on after a worker it may have sent a transaction of.     *)
(***************************************************************************)
LEMMA RoundGoesOn ==
    ASSUME sync \in Rounds, RoundInv, PoolOfRound, NEW w \in Workers, w \in sync.todo,
           sync.pc \in {"each", "stale"} \/ (sync.pc = "status" /\ w \in sync.cur),
           NextWorker(w), active' = active, chain' = chain,
           \A v \in Workers : HasTx(v)' => (HasTx(v) \/ v = w) /\ chain = "fabric"
    PROVE  RoundInv' /\ PoolOfRound'
<1> DEFINE s == [sync EXCEPT !.pc = IF @ = "status" THEN "each" ELSE @,
                             !.todo = @ \ {w}, !.cur = {}]
           H == {v \in Workers : HasTx(v)'}
<1>1. /\ s \in Rounds /\ s.pc = (IF sync.pc = "status" THEN "each" ELSE sync.pc)
      /\ s.todo = sync.todo \ {w} /\ s.cur = {}
    BY DEF Rounds
<1>2. sync' = Settle(s)
    BY DEF NextWorker
<1> HIDE DEF s
<1>3. s.pc \in {"each", "stale"} /\ (s.pc = "each" => sync.pc \in {"each", "status"})
    BY <1>1
<1>4. s.pc = "each" => s.todo \subseteq active /\ H \subseteq active
    <2>1. s.pc = "each" => sync.todo \subseteq active /\ w \in active
        BY <1>3 DEF RoundInv
    <2> QED BY <1>1, <1>3, <2>1 DEF PoolOfRound
<1>5. ASSUME NEW v \in H PROVE v \notin s.todo
    <2>1. CASE v = w
        BY <1>1, <2>1
    <2>2. CASE v # w
        <3>1. v \in sync.todo => v \in sync.cur
            BY <2>2 DEF PoolOfRound
        <3>2. v \notin sync.cur
            <4>1. CASE sync.pc = "status"
                BY <2>2, <4>1 DEF RoundInv
            <4>2. CASE sync.pc # "status"
                BY <4>2 DEF RoundInv
            <4> QED BY <4>1, <4>2
        <3> QED BY <1>1, <3>1, <3>2
    <2> QED BY <2>1, <2>2
<1> HIDE DEF H
<1>6. /\ sync'.pc \in {"each", "stale", "sleep", "exited"} /\ sync'.cur = {}
      /\ \A v \in H : v \notin sync'.todo
      /\ sync'.pc = "each" => H \subseteq active /\ sync'.todo \subseteq active
    BY <1>1, <1>2, <1>3, <1>4, <1>5, SettleAvoids
<1>7. RoundInv'
    BY <1>6 DEF RoundInv
<1>8. PoolOfRound'
    BY <1>6 DEF PoolOfRound, H
<1> QED BY <1>7, <1>8


(***************************************************************************)
(* A step that leaves the pool, the registry and the map alone.            *)
(***************************************************************************)
LEMMA DetailsByFrame ==
    ASSUME DetailInv, ~ overtaken, UNCHANGED <<txs, wreg, dmap>>, RoundInv', PoolOfRound'
    PROVE  DetailInv'
<1>1. \A w, i : /\ WorkerTxAt(w, i)' <=> WorkerTxAt(w, i)
                /\ DetailTxAt(w, i)' <=> DetailTxAt(w, i)
    BY DEF WorkerTxAt, DetailTxAt
<1>2. DetailsFirst' /\ DetailsFresh'
    BY <1>1 DEF DetailInv, DetailsFirst, DetailsFresh
<1>3. \A w \in Workers : DetailsKept(w)'
    BY <1>1 DEF DetailInv, DetailsKept
<1> QED BY <1>2, <1>3 DEF DetailInv

(***************************************************************************)
(* The round sends a transaction of worker w, and keeps a record of the    *)
(* details that were accepted.                                             *)
(***************************************************************************)
LEMMA DetailsByCall ==
    ASSUME ProxyTypeInv, DetailInv, ~ overtaken, NEW w \in Workers,
           NEW t \in DetailTxs \cup StatusTxs, NEW r \in {"SUCCESS", "ERROR"}, Invoke(t, r),
           t.key = <<"worker", w>>, t.stale = FALSE, t.fn = "status" \/ ~ HasTx(w),
           t.fn = "status" \/ r = "ERROR" => dmap' = dmap,
           t.fn # "status" /\ r = "SUCCESS" => dmap' = [dmap EXCEPT ![w] = t.arg]
    PROVE  /\ DetailsFirst' /\ DetailsFresh' /\ \A v \in Workers : DetailsKept(v)'
           /\ chain' = chain
           /\ \A v \in Workers : HasTx(v)' => (HasTx(v) \/ v = w) /\ chain = "fabric"
<1>0. /\ txs \in Seq(Txs) /\ wreg \in [Workers -> WorkerRecords] /\ dmap \in [Workers -> Nat]
      /\ LedgerTypes /\ t \in Txs
      /\ DetailsFirst /\ DetailsFresh /\ PoolOfRound /\ \A v \in Workers : DetailsKept(v)
    BY DEF ProxyTypeInv, LedgerTypes, ConnectorTypes, DetailInv, Txs
<1>1. /\ t.fn \in {"register", "update", "status"} /\ t.key[2] = w /\ t.key[1] = "worker"
      /\ \A v \in Workers : t.key = <<"worker", v>> => v = w
    BY DEF DetailTxs, StatusTxs
<1>2. \A v \in Workers : HasTx(v) => chain = "fabric"
    BY <1>0 DEF PoolOfRound
<1>3. /\ chain' = chain
      /\ \/ chain = "fabric" /\ r = "SUCCESS" /\ txs' = Append(txs, t) /\ wreg' = wreg
         \/ r = "ERROR" /\ wreg' = wreg /\ txs' = txs
         \/ chain # "fabric" /\ r = "SUCCESS" /\ Write(t) /\ txs' = <<>>
         \/ chain # "fabric" /\ r = "ERROR" /\ wreg' = wreg /\ txs' = <<>>
    BY CallOnChain
<1>4. CASE r = "ERROR" /\ wreg' = wreg /\ txs' = txs
    <2>1. dmap' = dmap
        BY <1>4
    <2>2. \A v, i : /\ WorkerTxAt(v, i)' <=> WorkerTxAt(v, i)
                    /\ DetailTxAt(v, i)' <=> DetailTxAt(v, i)
        BY <1>4 DEF WorkerTxAt, DetailTxAt
    <2>3. \A v : HasTx(v)' <=> HasTx(v)
        BY <1>4, <2>2 DEF HasTx
    <2>4. DetailsFirst' /\ DetailsFresh'
        BY <1>0, <1>4, <2>2 DEF DetailsFirst, DetailsFresh
    <2>5. \A v \in Workers : DetailsKept(v)'
        BY <1>0, <1>4, <2>1, <2>2 DEF DetailsKept
    <2> QED BY <1>2, <1>3, <2>3, <2>4, <2>5
<1>5. CASE chain = "fabric" /\ r = "SUCCESS" /\ txs' = Append(txs, t) /\ wreg' = wreg
    <2>1. /\ DetailsFirst' /\ DetailsFresh'
          /\ \A v \in Workers : HasTx(v)' => HasTx(v) \/ t.key = <<"worker", v>>
          /\ \A v \in Workers, i \in DOMAIN txs :
                 DetailTxAt(v, i) => i \in DOMAIN txs' /\ DetailTxAt(v, i)' /\ txs'[i] = txs[i]
          /\ \A v \in Workers, i \in DOMAIN txs' : DetailTxAt(v, i)' =>
                 \/ i \in DOMAIN txs /\ DetailTxAt(v, i)
                 \/ t.key = <<"worker", v>> /\ t.fn \in {"register", "update"}
          /\ \E i \in DOMAIN txs' : txs'[i] = t
        BY <1>0, <1>1, <1>5, PoolAppend
    <2>2. ASSUME NEW v \in Workers PROVE DetailsKept(v)'
        <3>1. DetailsKept(v)
            BY <1>0
        <3>2. CASE v # w \/ t.fn = "status"
            <4>1. dmap'[v] = dmap[v]
                BY <1>0, <1>5, <3>2
            <4>2. \A i \in DOMAIN txs' : DetailTxAt(v, i)' => i \in DOMAIN txs /\ DetailTxAt(v, i)
                BY <1>1, <2>1, <3>2
            <4> QED BY <1>5, <2>1, <3>1, <4>1, <4>2 DEF DetailsKept
        <3>3. CASE v = w /\ t.fn # "status"
            <4>1. dmap'[v] = t.arg
                BY <1>0, <1>5, <3>3
            <4>2. PICK i \in DOMAIN txs' : txs'[i] = t
                BY <2>1
            <4>3. DetailTxAt(v, i)'
                BY <1>1, <3>3, <4>2 DEF DetailTxAt, WorkerTxAt
            <4> QED BY <4>1, <4>2, <4>3 DEF DetailsKept
        <3> QED BY <3>2, <3>3
    <2> QED BY <1>1, <1>3, <1>5, <2>1, <2>2
<1>6. CASE /\ chain # "fabric" /\ txs' = <<>>
           /\ (r = "SUCCESS" /\ Write(t)) \/ (r = "ERROR" /\ wreg' = wreg)
    <2>1. \A v, i : i \in DOMAIN txs' => FALSE
        BY <1>6
    <2>2. DetailsFirst' /\ DetailsFresh' /\ \A v : ~ HasTx(v)'
        BY <2>1 DEF DetailsFirst, DetailsFresh, HasTx
    <2>3. ASSUME NEW v \in Workers PROVE DetailsKept(v)'
        <3>1. dmap[v] # 0 => wreg[v].details = dmap[v]
            <4>1. \A i \in DOMAIN txs : ~ DetailTxAt(v, i)
                BY <1>2, <1>6 DEF HasTx, DetailTxAt
            <4> QED BY <1>0, <4>1 DEF DetailsKept
        <3>2. dmap'[v] # 0 => wreg'[v].details = dmap'[v]
            <4>1. CASE r = "ERROR" /\ wreg' = wreg
                BY <3>1, <4>1
            <4>2. CASE r = "SUCCESS" /\ Write(t) /\ v # w
                <5>1. wreg'[v] = wreg[v]
                    BY <1>0, <1>1, <4>2, WriteTypes
                <5>2. dmap'[v] = dmap[v]
                    BY <1>0, <4>2
                <5> QED BY <3>1, <5>1, <5>2
            <4>3. CASE r = "SUCCESS" /\ Write(t) /\ v = w /\ t.fn = "status"
                <5>1. wreg'[v].details = wreg[v].details
                    BY <1>0, <1>1, <4>3, WriteTypes
                <5> QED BY <3>1, <4>3, <5>1
            <4>4. CASE r = "SUCCESS" /\ Write(t) /\ v = w /\ t.fn # "status"
                <5>1. wreg'[v].details = t.arg
                    BY <1>0, <1>1, <4>4, WriteTypes
                <5>2. dmap'[v] = t.arg
                    BY <1>0, <4>4
                <5> QED BY <5>1, <5>2
            <4> QED BY <1>6, <4>1, <4>2, <4>3, <4>4
        <3> QED BY <2>1, <3>2 DEF DetailsKept
    <2> QED BY <1>3, <2>2, <2>3
<1> QED BY <1>3, <1>4, <1>5, <1>6

(***************************************************************************)
(* A round begins when no transaction of a worker waits in the pool.       *)
(***************************************************************************)
LEMMA DetailsByBeginning ==
    ASSUME DetailInv, ~ overtaken, ~ Unsettled(txs'), UNCHANGED <<wreg, dmap>>,
           sync'.pc = "lookup", sync'.todo = {}, sync'.cur = {},
           txs' = txs \/ (chain # "fabric" /\ txs' = <<>>)
    PROVE  DetailInv'
<1>1. \A w \in Workers, i \in DOMAIN txs' : ~ WorkerTxAt(w, i)' /\ ~ DetailTxAt(w, i)'
    BY DEF Unsettled, WorkerTxAt, DetailTxAt
<1>2. DetailsFirst' /\ DetailsFresh' /\ PoolOfRound' /\ RoundInv'
    BY <1>1 DEF DetailsFirst, DetailsFresh, PoolOfRound, HasTx, RoundInv
<1>3. ASSUME NEW w \in Workers PROVE DetailsKept(w)'
    <2>1. \A i \in DOMAIN txs : ~ DetailTxAt(w, i)
        <3>1. CASE txs' = txs
            BY <1>1, <3>1 DEF WorkerTxAt, DetailTxAt
        <3>2. CASE chain # "fabric"
            BY <3>2 DEF DetailInv, PoolOfRound, HasTx, DetailTxAt
        <3> QED BY <3>1, <3>2
    <2>2. dmap[w] # 0 => wreg[w].details = dmap[w]
        BY <2>1 DEF DetailInv, DetailsKept
    <2> QED BY <1>1, <2>2 DEF DetailsKept
<1> QED BY <1>2, <1>3 DEF DetailInv

(***************************************************************************)
(* A step of a synchronization round.                                      *)
(***************************************************************************)
LEMMA DetailsByRound ==
    ASSUME ProxyTypeInv, DetailInv, SyncNext
    PROVE  DetailInv'
<1> SUFFICES ASSUME ~ overtaken' PROVE DetailInv'
    BY DEF DetailInv
<1>0. /\ sync \in Rounds /\ kv \in [Workers -> Nat] /\ dmap \in [Workers -> Nat]
      /\ overtaken \in BOOLEAN
    BY DEF ProxyTypeInv, ConnectorTypes
<1>a. /\ sync.todo \subseteq Workers /\ sync.cur \subseteq Workers
    BY <1>0 DEF Rounds
<1>1. ~ overtaken
    <2>1. Abort => ~ overtaken
        BY <1>0 DEF Abort
    <2>2. \A w : NextWorker(w) => overtaken' = overtaken
        BY DEF NextWorker
    <2>3. CASE SyncLookup \/ SyncChain \/ SyncWake
        BY <1>0, <2>1, <2>3 DEF SyncLookup, SyncChain, SyncWake, faultVars
    <2>4. CASE SyncStatus
        BY <2>1, <2>2, <2>4 DEF SyncStatus
    <2>5. ASSUME NEW w \in Workers, SyncStale(w) PROVE ~ overtaken
        BY <2>1, <2>2, <2>5 DEF SyncStale, Outcomes
    <2>6. ASSUME NEW w \in Workers, SyncWorker(w) PROVE ~ overtaken
        BY <2>1, <2>2, <2>6 DEF SyncWorker, Recorded, Outcomes
    <2> QED BY <2>3, <2>4, <2>5, <2>6 DEF SyncNext
<1>12. ASSUME Abort, wreg' = wreg, txs' = txs \/ (chain # "fabric" /\ txs' = <<>>)
       PROVE  DetailInv'
    <2>1. ~ Unsettled(txs') /\ dmap' = dmap
        BY <1>12 DEF Abort, mapVars
    <2>2. sync'.pc = "lookup" /\ sync'.todo = {} /\ sync'.cur = {}
        BY <1>12 DEF Abort, Start
    <2> QED BY <1>1, <1>12, <2>1, <2>2, DetailsByBeginning
<1>13. ASSUME Abort, NEW t, t.key[1] = "worker", NEW r, r # "SUCCESS", Invoke(t, r)
       PROVE  DetailInv'
    <2>1. txs' # <<t>>
        <3> SUFFICES ASSUME txs' = <<t>> PROVE FALSE
            OBVIOUS
        <3>1. 1 \in DOMAIN txs' /\ txs'[1] = t
            OBVIOUS
        <3> QED BY <1>13, <3>1 DEF Abort, Unsettled
    <2>2. wreg' = wreg /\ (txs' = txs \/ (chain # "fabric" /\ txs' = <<>>))
        BY <1>13, <2>1, CallOnChain
    <2> QED BY <1>12, <1>13, <2>2
<1>14. ASSUME Abort, UNCHANGED records PROVE DetailInv'
    BY <1>12, <1>14 DEF records
<1>2. RoundInv /\ PoolOfRound /\ DetailsFirst /\ DetailsFresh /\ \A w \in Workers : DetailsKept(w)
    BY <1>1 DEF DetailInv
<1>3. ASSUME NEW w \in Workers, w \in sync.todo, sync.pc \in {"each", "stale"},
             NextWorker(w), UNCHANGED <<chain, txs, wreg, dmap, active>>
      PROVE  DetailInv'
    <2>1. \A v \in Workers : HasTx(v)' => (HasTx(v) \/ v = w) /\ chain = "fabric"
        BY <1>2, <1>3 DEF HasTx, WorkerTxAt, PoolOfRound
    <2>2. RoundInv' /\ PoolOfRound'
        BY <1>0, <1>2, <1>3, <2>1, RoundGoesOn
    <2> QED BY <1>1, <1>3, <2>2, DetailsByFrame
<1>4. ASSUME NEW w \in Workers, w \in sync.todo, NextWorker(w), active' = active,
             sync.pc \in {"each", "stale"} \/ (sync.pc = "status" /\ w \in sync.cur),
             NEW t \in DetailTxs \cup StatusTxs, NEW r \in {"SUCCESS", "ERROR"}, Invoke(t, r),
             t.key = <<"worker", w>>, t.stale = FALSE, t.fn = "status" \/ ~ HasTx(w),
             t.fn = "status" \/ r = "ERROR" => dmap' = dmap,
             t.fn # "status" /\ r = "SUCCESS" => dmap' = [dmap EXCEPT ![w] = t.arg]
      PROVE  DetailInv'
    <2>1. /\ DetailsFirst' /\ DetailsFresh' /\ \A v \in Workers : DetailsKept(v)'
          /\ chain' = chain
          /\ \A v \in Workers : HasTx(v)' => (HasTx(v) \/ v = w) /\ chain = "fabric"
        BY <1>1, <1>4, DetailsByCall
    <2>2. RoundInv' /\ PoolOfRound'
        BY <1>0, <1>2, <1>4, <2>1, RoundGoesOn
    <2> QED BY <2>1, <2>2 DEF DetailInv
<1>5. \A f, w, a :
          /\ WorkerTx(f, w, a).key = <<"worker", w>> /\ WorkerTx(f, w, a).stale = FALSE
          /\ WorkerTx(f, w, a).fn = f /\ WorkerTx(f, w, a).arg = a
    BY DEF WorkerTx, FabricWorker, EthereumWorker, Tx
<1>6. CASE SyncLookup
    <2>1. /\ sync.pc = "lookup" /\ sync' = [sync EXCEPT !.pc = "chain"]
          /\ UNCHANGED <<chain, txs, wreg, dmap>>
        BY <1>6 DEF SyncLookup, records, mapVars
    <2>2. sync'.pc = "chain" /\ sync'.cur = sync.cur /\ sync'.todo = sync.todo
        BY <1>0, <2>1 DEF Rounds
    <2>3. \A w \in Workers : ~ HasTx(w)'
        BY <1>2, <2>1 DEF PoolOfRound, HasTx, WorkerTxAt
    <2>4. RoundInv' /\ PoolOfRound'
        BY <1>2, <2>1, <2>2, <2>3 DEF RoundInv, PoolOfRound
    <2> QED BY <1>1, <2>1, <2>4, DetailsByFrame
<1>7. CASE SyncChain
    <2> DEFINE s == [sync EXCEPT !.pc = "each", !.todo = active, !.seen = worker_lookup]
    <2>1. CASE sync' = Settle(s) /\ UNCHANGED <<ledgerVars, overtaken, mapVars>>
        <3>1. /\ sync.pc = "chain" /\ sync' = Settle(s) /\ active' = active
              /\ UNCHANGED <<chain, txs, wreg, dmap>>
            BY <1>7, <2>1 DEF SyncChain, ledgerVars, mapVars
        <3>2. s \in Rounds /\ s.pc = "each" /\ s.cur = sync.cur /\ s.todo = active
            BY <1>0 DEF Rounds, worker_lookup, ProxyTypeInv, ConnectorTypes
        <3> HIDE DEF s
        <3>3. s.cur = {}
            BY <1>2, <3>1, <3>2 DEF RoundInv
        <3>4. /\ sync'.pc \in {"each", "stale", "sleep", "exited"} /\ sync'.cur = {}
              /\ sync'.pc = "each" => sync'.todo \subseteq active
            <4>1. \A w \in {} : w \notin s.todo
                OBVIOUS
            <4> QED BY <3>1, <3>2, <3>3, <4>1, SettleAvoids
        <3>5. \A w \in Workers : ~ HasTx(w)'
            BY <1>2, <3>1 DEF PoolOfRound, HasTx, WorkerTxAt
        <3>6. RoundInv' /\ PoolOfRound'
            BY <3>1, <3>4, <3>5 DEF RoundInv, PoolOfRound
        <3> QED BY <1>1, <3>1, <3>6, DetailsByFrame
    <2> QED BY <1>7, <1>14, <2>1 DEF SyncChain
<1>8. CASE SyncWake
    <2>1. /\ sync' = [Start EXCEPT !.over = (hand # Idle)] /\ UNCHANGED <<txs, wreg, dmap>>
          /\ ~ Unsettled(txs)
        BY <1>8 DEF SyncWake, ledgerVars, mapVars
    <2>2. sync'.pc = "lookup" /\ sync'.todo = {} /\ sync'.cur = {}
        BY <2>1 DEF Start
    <2> QED BY <1>1, <2>1, <2>2, DetailsByBeginning
<1>9. CASE SyncStatus
    <2>1. PICK w \in sync.cur, r \in Outcomes :
              /\ Invoke(WorkerTx("status", w, "active"), r)
              /\ IF r = "SUCCESS"
                 THEN smap' = [smap EXCEPT ![w] = "active"] /\ NextWorker(w) /\ UNCHANGED dmap
                 ELSE Abort
        BY <1>9 DEF SyncStatus
    <2>2. CASE r # "SUCCESS"
        BY <1>5, <1>13, <2>1, <2>2
    <2>3. sync.pc = "status" /\ active' = active /\ w \in Workers /\ w \in sync.todo
        BY <1>2, <1>9, <1>a DEF SyncStatus, RoundInv
    <2>4. WorkerTx("status", w, "active") \in DetailTxs \cup StatusTxs
        BY <2>3, TxKinds
    <2>5. /\ WorkerTx("status", w, "active").key = <<"worker", w>>
          /\ WorkerTx("status", w, "active").stale = FALSE
          /\ WorkerTx("status", w, "active").fn = "status"
        BY <1>5, <2>3
    <2>6. CASE r = "SUCCESS"
        BY <1>4, <2>1, <2>3, <2>4, <2>5, <2>6
    <2> QED BY <2>2, <2>6
<1>10. ASSUME NEW w \in Workers, SyncStale(w) PROVE DetailInv'
    <2> DEFINE t == WorkerTx("status", w, "decommissioned")
    <2>1. sync.pc = "stale" /\ active' = active /\ w \in sync.todo
        BY <1>10 DEF SyncStale
    <2>2. /\ t \in DetailTxs \cup StatusTxs /\ t.key = <<"worker", w>> /\ t.stale = FALSE
          /\ t.fn = "status"
        BY <1>5, TxKinds
    <2>3. CASE NextWorker(w) /\ UNCHANGED <<ledgerVars, mapVars>>
        BY <1>3, <2>1, <2>3 DEF ledgerVars, mapVars
    <2>4. ASSUME NEW r \in Outcomes, Invoke(t, r),
                 CASE r = "SUCCESS" -> /\ smap' = [smap EXCEPT ![w] = "decommissioned"]
                                       /\ NextWorker(w) /\ UNCHANGED dmap
                   [] r = "ERROR" -> NextWorker(w) /\ UNCHANGED mapVars
                   [] r = "raised" -> Abort
          PROVE  DetailInv'
        <3>1. \/ r \in {"SUCCESS", "ERROR"} /\ NextWorker(w) /\ dmap' = dmap
              \/ r = "raised" /\ Abort
            BY <2>4 DEF Outcomes, mapVars
        <3> HIDE DEF t
        <3>2. CASE r \in {"SUCCESS", "ERROR"} /\ NextWorker(w) /\ dmap' = dmap
            BY <1>4, <2>1, <2>2, <2>4, <3>2
        <3>3. CASE r = "raised" /\ Abort
            BY <1>13, <2>2, <2>4, <3>3
        <3> QED BY <3>1, <3>2, <3>3
    <2> QED BY <1>10, <1>14, <2>3, <2>4 DEF SyncStale
<1>11. ASSUME NEW w \in Workers, SyncWorker(w) PROVE DetailInv'
    <2>1. sync.pc = "each" /\ active' = active /\ w \in sync.todo /\ kv[w] \in Nat
        BY <1>0, <1>11 DEF SyncWorker
    <2>2. ~ HasTx(w) /\ sync.cur = {}
        BY <1>2, <2>1 DEF PoolOfRound, RoundInv
    <2>3. CASE NextWorker(w) /\ UNCHANGED <<ledgerVars, mapVars>>
        BY <1>3, <2>1, <2>3 DEF ledgerVars, mapVars
    <2>4. ASSUME NEW r \in Outcomes, Invoke(WorkerTx("register", w, kv[w]), r),
                 Recorded(w, r, smap' = [smap EXCEPT ![w] = "active"] /\ NextWorker(w))
          PROVE  DetailInv'
        <3> DEFINE t == WorkerTx("register", w, kv[w])
        <3>1. /\ t \in DetailTxs \cup StatusTxs /\ t.key = <<"worker", w>> /\ t.stale = FALSE
              /\ t.fn = "register" /\ t.arg = kv[w]
            BY <1>5, <2>1, TxKinds
        <3>2. CASE r = "raised"
            BY <1>13, <2>4, <3>1, <3>2 DEF Recorded
        <3>3. CASE r # "raised"
            <4>1. /\ r \in {"SUCCESS", "ERROR"} /\ NextWorker(w)
                  /\ r = "ERROR" => dmap' = dmap
                  /\ r = "SUCCESS" => dmap' = [dmap EXCEPT ![w] = t.arg]
                BY <2>4, <3>1, <3>3 DEF Outcomes, Recorded, mapVars
            <4> HIDE DEF t
            <4> QED BY <1>4, <2>1, <2>2, <2>4, <3>1, <4>1 DEF t
        <3> QED BY <3>2, <3>3
    <2>5. ASSUME NEW r \in Outcomes, Invoke(WorkerTx("update", w, kv[w]), r),
                 Recorded(w, r, /\ sync' = [sync EXCEPT !.pc = "status", !.cur = {w}]
                                /\ UNCHANGED <<smap, overtaken>>)
          PROVE  DetailInv'
        <3> DEFINE t == WorkerTx("update", w, kv[w])
        <3>1. /\ t \in DetailTxs \cup StatusTxs /\ t.key = <<"worker", w>> /\ t.stale = FALSE
              /\ t.fn = "update" /\ t.arg = kv[w]
            BY <1>5, <2>1, TxKinds
        <3>2. Invoke(t, r)
            BY <2>5
        <3>3. CASE r = "ERROR"
            <4>1. NextWorker(w) /\ dmap' = dmap
                BY <2>5, <3>3 DEF Recorded, mapVars
            <4> HIDE DEF t
            <4> QED BY <1>4, <2>1, <2>2, <3>1, <3>2, <3>3, <4>1
        <3>4. CASE r = "SUCCESS"
            <4>1. /\ sync' = [sync EXCEPT !.pc = "status", !.cur = {w}]
                  /\ dmap' = [dmap EXCEPT ![w] = t.arg]
                BY <2>5, <3>1, <3>4 DEF Recorded
            <4> HIDE DEF t
            <4>2. /\ DetailsFirst' /\ DetailsFresh' /\ \A v \in Workers : DetailsKept(v)'
                  /\ chain' = chain
                  /\ \A v \in Workers : HasTx(v)' => (HasTx(v) \/ v = w) /\ chain = "fabric"
                BY <1>1, <2>2, <3>1, <3>2, <3>4, <4>1, DetailsByCall
            <4>3. sync'.pc = "status" /\ sync'.cur = {w} /\ sync'.todo = sync.todo
                BY <1>0, <4>1 DEF Rounds
            <4>4. RoundInv'
                BY <1>2, <2>1, <4>3 DEF RoundInv
            <4>5. PoolOfRound'
                BY <1>2, <2>1, <2>2, <4>2, <4>3 DEF RoundInv, PoolOfRound
            <4> QED BY <4>2, <4>4, <4>5 DEF DetailInv
        <3>5. CASE r = "raised"
            BY <1>13, <2>5, <3>1, <3>2, <3>5 DEF Recorded
        <3> QED BY <3>3, <3>4, <3>5 DEF Outcomes
    <2>6. CASE UNCHANGED ledgerVars /\ Abort
        BY <1>14, <2>6 DEF ledgerVars, records
    <2> QED BY <1>11, <1>14, <2>3, <2>4, <2>5, <2>6 DEF SyncWorker
<1> QED BY <1>6, <1>7, <1>8, <1>9, <1>10, <1>11 DEF SyncNext


(***************************************************************************)
(* A call about an order, by a client or by the event handler.  On         *)
(* Ethereum it may take the place of what is in the pool, where the round  *)
(* has left nothing.                                                       *)
(***************************************************************************)
LEMMA DetailsByOrder ==
    ASSUME ProxyTypeInv, DetailInv, ~ overtaken, NEW t \in SubmitTxs \cup CompleteTxs,
           t.stale = FALSE, NEW r \in Outcomes, Invoke(t, r) \/ FabricInvoke(t, r),
           UNCHANGED <<sync, active, dmap>>
    PROVE  DetailInv'
<1>0. /\ txs \in Seq(Txs) /\ LedgerTypes /\ t \in Txs /\ t.key[1] = "order"
      /\ RoundInv /\ PoolOfRound /\ DetailsFirst /\ DetailsFresh
      /\ \A v \in Workers : DetailsKept(v)
    BY DEF ProxyTypeInv, LedgerTypes, DetailInv, Txs, SubmitTxs, CompleteTxs, OrderKeys
<1>1. \A w : t.key # <<"worker", w>>
    BY <1>0
<1>2. /\ chain' = chain /\ wreg' = wreg
      /\ \/ txs' = Append(txs, t) \/ txs' = txs
         \/ chain # "fabric" /\ (txs' = <<>> \/ txs' = <<t>>)
    <2>1. CASE FabricInvoke(t, r)
        BY <2>1 DEF FabricInvoke, Order
    <2>2. CASE Invoke(t, r)
        <3>1. Write(t) => wreg' = wreg
            BY <1>0, WriteTypes
        <3> QED BY <2>2, <3>1, CallOnChain
    <2> QED BY <2>1, <2>2
<1>3. RoundInv'
    BY <1>0 DEF RoundInv
<1>4. CASE txs' = txs
    <2>1. PoolOfRound'
        BY <1>0, <1>2, <1>4 DEF PoolOfRound, HasTx, WorkerTxAt
    <2> QED BY <1>2, <1>3, <1>4, <2>1, DetailsByFrame
<1>5. CASE txs' = Append(txs, t)
    <2>1. /\ DetailsFirst' /\ DetailsFresh'
          /\ \A v \in Workers : HasTx(v)' => HasTx(v)
          /\ \A v \in Workers, i \in DOMAIN txs :
                 DetailTxAt(v, i) => i \in DOMAIN txs' /\ DetailTxAt(v, i)' /\ txs'[i] = txs[i]
          /\ \A v \in Workers, i \in DOMAIN txs' : DetailTxAt(v, i)' =>
                 i \in DOMAIN txs /\ DetailTxAt(v, i)
        <3>1. \A v \in Workers : t.key = <<"worker", v>> => t.fn = "status" \/ ~ HasTx(v)
            BY <1>1
        <3>2. /\ DetailsFirst' /\ DetailsFresh'
              /\ \A v \in Workers : HasTx(v)' => HasTx(v) \/ t.key = <<"worker", v>>
              /\ \A v \in Workers, i \in DOMAIN txs :
                     DetailTxAt(v, i) =>
                         i \in DOMAIN txs' /\ DetailTxAt(v, i)' /\ txs'[i] = txs[i]
              /\ \A v \in Workers, i \in DOMAIN txs' : DetailTxAt(v, i)' =>
                     \/ i \in DOMAIN txs /\ DetailTxAt(v, i)
                     \/ t.key = <<"worker", v>> /\ t.fn \in {"register", "update"}
            BY <1>0, <1>5, <3>1, PoolAppend
        <3> QED BY <1>1, <3>2
    <2>2. \A v \in Workers : DetailsKept(v)'
        BY <1>0, <1>2, <2>1 DEF DetailsKept
    <2>3. PoolOfRound'
        BY <1>0, <1>2, <2>1 DEF PoolOfRound
    <2> QED BY <1>3, <2>1, <2>2, <2>3 DEF DetailInv
<1>6. CASE chain # "fabric" /\ (txs' = <<>> \/ txs' = <<t>>)
    <2>1. \A i \in DOMAIN txs' : txs'[i] = t
        <3>1. CASE txs' = <<>>
            BY <3>1
        <3>2. CASE txs' = <<t>>
            <4>1. DOMAIN txs' = {1} /\ txs'[1] = t
                BY <3>2
            <4> QED BY <4>1
        <3> QED BY <1>6, <3>1, <3>2
    <2>2. \A w \in Workers, i \in DOMAIN txs' : ~ WorkerTxAt(w, i)' /\ ~ DetailTxAt(w, i)'
        BY <1>1, <2>1 DEF WorkerTxAt, DetailTxAt
    <2>3. DetailsFirst' /\ DetailsFresh' /\ PoolOfRound'
        BY <2>2 DEF DetailsFirst, DetailsFresh, PoolOfRound, HasTx
    <2>4. ASSUME NEW w \in Workers PROVE DetailsKept(w)'
        <3>1. \A i \in DOMAIN txs : ~ DetailTxAt(w, i)
            BY <1>0, <1>6 DEF PoolOfRound, HasTx, DetailTxAt
        <3>2. dmap[w] # 0 => wreg[w].details = dmap[w]
            BY <1>0, <3>1 DEF DetailsKept
        <3> QED BY <1>2, <2>2, <3>2 DEF DetailsKept
    <2> QED BY <1>3, <2>3, <2>4 DEF DetailInv
<1> QED BY <1>2, <1>4, <1>5, <1>6

(***************************************************************************)
(* A block is cut: the details of a worker reach the registry, or a later  *)
(* transaction leaves them as they are.                                    *)
(***************************************************************************)
LEMMA DetailsByCommit ==
    ASSUME ProxyTypeInv, DetailInv, ~ overtaken, FabricCommit, UNCHANGED <<sync, active, dmap>>
    PROVE  DetailInv'
<1> DEFINE t == Head(txs)
<1>0. /\ txs \in Seq(Txs) /\ LedgerTypes /\ txs # <<>>
      /\ RoundInv /\ PoolOfRound /\ DetailsFirst /\ DetailsFresh
      /\ \A v \in Workers : DetailsKept(v)
    BY DEF ProxyTypeInv, LedgerTypes, DetailInv, FabricCommit
<1>1. /\ t \in Txs /\ 1 \in DOMAIN txs /\ txs[1] = t /\ Tail(txs) \in Seq(Txs)
      /\ \A i \in DOMAIN Tail(txs) : /\ i \in Nat /\ i + 1 \in DOMAIN txs /\ i + 1 > 1
                                     /\ Tail(txs)[i] = txs[i + 1]
      /\ \A i \in DOMAIN txs : i \in Nat /\ (i = 1 \/ i - 1 \in DOMAIN Tail(txs))
    BY <1>0, TailAt
<1>2. /\ chain' = chain
      /\ \/ t.stale /\ txs' = Tail(txs) /\ UNCHANGED <<wreg, oreg>>
         \/ ~ t.stale /\ Write(t) /\ txs' = MarkStale(Tail(txs), t)
    BY DEF FabricCommit
<1> HIDE DEF t
<1>3. /\ DOMAIN txs' = DOMAIN Tail(txs)
      /\ \A i \in DOMAIN txs' : /\ txs'[i].key = txs[i + 1].key /\ txs'[i].fn = txs[i + 1].fn
                                /\ txs'[i].arg = txs[i + 1].arg
                                /\ txs'[i].stale => txs[i + 1].stale \/ txs[i + 1].key = t.key
    <2>1. CASE txs' = Tail(txs)
        BY <1>1, <2>1
    <2>2. CASE txs' = MarkStale(Tail(txs), t)
        <3> DEFINE ts == Tail(txs)
        <3>1. ts \in Seq(Txs) /\ t \in Txs
            BY <1>1
        <3> HIDE DEF ts
        <3>2. /\ DOMAIN MarkStale(ts, t) = DOMAIN ts
              /\ \A i \in DOMAIN ts :
                     /\ MarkStale(ts, t)[i].key = ts[i].key /\ MarkStale(ts, t)[i].fn = ts[i].fn
                     /\ MarkStale(ts, t)[i].arg = ts[i].arg
                     /\ MarkStale(ts, t)[i].stale => ts[i].stale \/ ts[i].key = t.key
            BY <3>1, MarkStaleTypes
        <3> QED BY <1>1, <2>2, <3>2 DEF ts
    <2> QED BY <1>2, <2>1, <2>2
<1>4. \A w \in Workers, i \in DOMAIN txs' :
          /\ WorkerTxAt(w, i)' => i + 1 \in DOMAIN txs /\ WorkerTxAt(w, i + 1)
          /\ DetailTxAt(w, i)' => i + 1 \in DOMAIN txs /\ DetailTxAt(w, i + 1)
    BY <1>1, <1>3 DEF WorkerTxAt, DetailTxAt
<1>5. RoundInv'
    BY <1>0 DEF RoundInv
<1>6. PoolOfRound'
    <2>1. \A w \in Workers : HasTx(w)' => HasTx(w)
        BY <1>4 DEF HasTx
    <2> QED BY <1>0, <1>2, <2>1 DEF PoolOfRound
<1>7. DetailsFirst'
    <2> SUFFICES ASSUME NEW w \in Workers, NEW i \in DOMAIN txs', NEW j \in DOMAIN txs',
                        WorkerTxAt(w, i)', WorkerTxAt(w, j)', i < j
                 PROVE  txs'[j].fn = "status"
        BY DEF DetailsFirst
    <2>1. i + 1 < j + 1
        BY <1>1, <1>3
    <2>2. /\ i + 1 \in DOMAIN txs /\ WorkerTxAt(w, i + 1)
          /\ j + 1 \in DOMAIN txs /\ WorkerTxAt(w, j + 1)
        BY <1>4
    <2>3. txs[j + 1].fn = "status"
        BY <1>0, <2>1, <2>2 DEF DetailsFirst
    <2> QED BY <1>3, <2>3
\* Details behind the first transaction are not of its worker.
<1>8. ASSUME NEW w \in Workers, NEW i \in DOMAIN txs', DetailTxAt(w, i)'
      PROVE  t.key # <<"worker", w>>
    <2>1. i + 1 \in DOMAIN txs /\ DetailTxAt(w, i + 1) /\ i + 1 > 1
        BY <1>1, <1>3, <1>4, <1>8
    <2>2. WorkerTxAt(w, 1) => txs[i + 1].fn = "status"
        BY <1>0, <1>1, <2>1 DEF DetailsFirst, DetailTxAt
    <2>3. ~ WorkerTxAt(w, 1)
        BY <2>1, <2>2 DEF DetailTxAt
    <2> QED BY <1>1, <2>3 DEF WorkerTxAt
<1>9. DetailsFresh'
    <2> SUFFICES ASSUME NEW w \in Workers, NEW i \in DOMAIN txs', DetailTxAt(w, i)'
                 PROVE  ~ txs'[i].stale
        BY DEF DetailsFresh
    <2>1. i + 1 \in DOMAIN txs /\ DetailTxAt(w, i + 1)
        BY <1>4
    <2>2. ~ txs[i + 1].stale /\ txs[i + 1].key = <<"worker", w>>
        BY <1>0, <2>1 DEF DetailsFresh, DetailTxAt, WorkerTxAt
    <2>3. t.key # <<"worker", w>>
        BY <1>8
    <2> QED BY <1>3, <2>2, <2>3
<1>10. ASSUME NEW w \in Workers PROVE DetailsKept(w)'
    <2>0. SUFFICES ASSUME dmap[w] # 0
                   PROVE  \/ \E i \in DOMAIN txs' : DetailTxAt(w, i)' /\ txs'[i].arg = dmap[w]
                          \/ /\ \A i \in DOMAIN txs' : ~ DetailTxAt(w, i)'
                             /\ wreg'[w].details = dmap[w]
        BY DEF DetailsKept
    <2>1. DetailsKept(w)
        BY <1>0
    <2>2. CASE DetailTxAt(w, 1)
        <3>1. /\ t.key = <<"worker", w>> /\ t.key[2] = w
              /\ t.fn \in {"register", "update"} /\ ~ t.stale
            BY <1>0, <1>1, <2>2 DEF DetailsFresh, DetailTxAt, WorkerTxAt
        <3>2. t.arg = dmap[w]
            <4>1. \A i \in DOMAIN txs : DetailTxAt(w, i) => i = 1
                <5> SUFFICES ASSUME NEW i \in DOMAIN txs, DetailTxAt(w, i), i # 1 PROVE FALSE
                    OBVIOUS
                <5>1. i > 1
                    <6>1. DOMAIN txs = 1..Len(txs)
                        BY <1>0, LenProperties
                    <6>2. i \in Nat /\ i >= 1
                        BY <1>1, <6>1
                    <6> QED BY <6>2
                <5>2. txs[i].fn = "status"
                    BY <1>0, <1>1, <2>2, <5>1 DEF DetailsFirst, DetailTxAt
                <5> QED BY <5>2 DEF DetailTxAt
            <4> QED BY <1>1, <2>0, <2>1, <2>2, <4>1 DEF DetailsKept
        <3>3. wreg'[w].details = t.arg
            BY <1>0, <1>1, <1>2, <3>1, WriteTypes
        <3>4. \A i \in DOMAIN txs' : ~ DetailTxAt(w, i)'
            BY <1>8, <3>1
        <3> QED BY <3>2, <3>3, <3>4
    <2>3. CASE ~ DetailTxAt(w, 1)
        <3>1. wreg'[w].details = wreg[w].details
            <4>1. CASE UNCHANGED <<wreg, oreg>>
                BY <4>1
            <4>2. CASE Write(t)
                <5>1. t.key = <<"worker", w>> => t.fn = "status" /\ t.key[2] = w
                    <6>1. t.key = <<"worker", w>> => t.key[1] = "worker" /\ t.key[2] = w
                        OBVIOUS
                    <6>2. t.key[1] = "worker" => t.fn \in {"register", "update", "status"}
                        BY <1>1, TxFields
                    <6> QED BY <1>1, <2>3, <6>1, <6>2 DEF DetailTxAt, WorkerTxAt
                <5>2. t.key[1] = "order" \/ t.key = <<"worker", t.key[2]>>
                    BY <1>1, TxFields
                <5>3. /\ t.key[1] = "order" => wreg' = wreg
                      /\ w # t.key[2] => wreg'[w] = wreg[w]
                      /\ t.fn = "status" => wreg'[t.key[2]].details = wreg[t.key[2]].details
                    BY <1>0, <1>1, <4>2, WriteTypes
                <5> QED BY <5>1, <5>2, <5>3
            <4> QED BY <1>2, <4>1, <4>2
        <3>2. \A i \in DOMAIN txs : DetailTxAt(w, i) =>
                  /\ i - 1 \in DOMAIN txs' /\ DetailTxAt(w, i - 1)'
                  /\ txs'[i - 1].arg = txs[i].arg
            <4> SUFFICES ASSUME NEW i \in DOMAIN txs, DetailTxAt(w, i)
                         PROVE  /\ i - 1 \in DOMAIN txs' /\ DetailTxAt(w, i - 1)'
                                /\ txs'[i - 1].arg = txs[i].arg
                OBVIOUS
            <4>1. i \in Nat /\ i - 1 \in DOMAIN txs'
                BY <1>1, <1>3, <2>3
            <4>2. (i - 1) + 1 = i
                BY <4>1
            <4>3. /\ txs'[i - 1].key = txs[i].key /\ txs'[i - 1].fn = txs[i].fn
                  /\ txs'[i - 1].arg = txs[i].arg
                BY <1>3, <4>1, <4>2
            <4> QED BY <4>1, <4>3 DEF DetailTxAt, WorkerTxAt
        <3>3. CASE \E i \in DOMAIN txs : DetailTxAt(w, i) /\ txs[i].arg = dmap[w]
            BY <3>2, <3>3
        <3>4. CASE (\A i \in DOMAIN txs : ~ DetailTxAt(w, i)) /\ wreg[w].details = dmap[w]
            BY <1>4, <3>1, <3>4
        <3> QED BY <2>0, <2>1, <3>3, <3>4 DEF DetailsKept
    <2> QED BY <2>2, <2>3
<1> QED BY <1>5, <1>6, <1>7, <1>9, <1>10 DEF DetailInv

(***************************************************************************)
(* On Ethereum only orders are left in the pool, as long as no round has   *)
(* left a transaction behind.                                              *)
(***************************************************************************)
LEMMA DetailsByMine ==
    ASSUME ProxyTypeInv, DetailInv, ~ overtaken, EthereumMine, UNCHANGED <<sync, active, dmap>>
    PROVE  DetailInv'
<1> DEFINE t == Head(txs)
<1>0. /\ txs \in Seq(Txs) /\ LedgerTypes /\ txs # <<>> /\ chain = "ethereum"
      /\ RoundInv /\ PoolOfRound /\ \A v \in Workers : DetailsKept(v)
    BY DEF ProxyTypeInv, LedgerTypes, DetailInv, EthereumMine
<1>1. t \in Txs /\ 1 \in DOMAIN txs /\ txs[1] = t
    BY <1>0, TailAt
<1>2. \A w \in Workers, i \in DOMAIN txs : ~ WorkerTxAt(w, i)
    BY <1>0 DEF PoolOfRound, HasTx
<1>3. t.key[1] = "order"
    <2>1. t.key[1] = "order" \/ (t.key = <<"worker", t.key[2]>> /\ t.key[2] \in Workers)
        BY <1>1, TxFields
    <2> QED BY <1>1, <1>2, <2>1 DEF WorkerTxAt
<1>4. wreg' = wreg /\ txs' = <<>> /\ chain' = chain
    <2>1. Write(t) => wreg' = wreg
        BY <1>0, <1>1, <1>3, WriteTypes
    <2> QED BY <2>1 DEF EthereumMine
<1>5. \A i \in DOMAIN txs' : FALSE
    BY <1>4
<1>6. DetailsFirst' /\ DetailsFresh' /\ PoolOfRound' /\ RoundInv'
    BY <1>0, <1>5 DEF DetailsFirst, DetailsFresh, PoolOfRound, HasTx, RoundInv
<1>7. ASSUME NEW w \in Workers PROVE DetailsKept(w)'
    <2>1. dmap[w] # 0 => wreg[w].details = dmap[w]
        BY <1>0, <1>2 DEF DetailsKept, DetailTxAt
    <2> QED BY <1>4, <1>5, <2>1 DEF DetailsKept
<1> QED BY <1>6, <1>7 DEF DetailInv

(***************************************************************************)
(* Every step keeps the invariant of the worker details.                   *)
(***************************************************************************)
LEMMA NextDetails ==
    ASSUME ProxyTypeInv, DetailInv, [ProxyNext]_proxyVars
    PROVE  DetailInv'
<1>1. CASE SyncNext
    BY <1>1, DetailsByRound
<1>2. CASE Crash
    <2> SUFFICES ASSUME ~ overtaken' PROVE DetailInv'
        BY DEF DetailInv
    <2>1. ~ Unsettled(txs) /\ txs' = txs /\ sync' = Start /\ dmap' = NoDetails
        BY <1>2 DEF Crash, records
    <2>2. \A w \in Workers, i \in DOMAIN txs' : ~ WorkerTxAt(w, i)' /\ ~ DetailTxAt(w, i)'
        BY <2>1 DEF Unsettled, WorkerTxAt, DetailTxAt
    <2>3. DetailsFirst' /\ DetailsFresh' /\ PoolOfRound' /\ RoundInv'
        BY <2>1, <2>2 DEF DetailsFirst, DetailsFresh, PoolOfRound, HasTx, RoundInv, Start
    <2>4. \A w \in Workers : DetailsKept(w)'
        BY <2>1 DEF DetailsKept, NoDetails
    <2> QED BY <2>3, <2>4 DEF DetailInv
<1>3. ASSUME overtaken' = overtaken,
             overtaken \/ UNCHANGED <<chain, sync, active, txs, wreg, dmap>>
      PROVE  DetailInv'
    <2>1. CASE overtaken
        BY <1>3, <2>1 DEF DetailInv
    <2>2. CASE ~ overtaken /\ UNCHANGED <<chain, sync, active, txs, wreg, dmap>>
        <3>1. RoundInv' /\ PoolOfRound'
            BY <2>2 DEF DetailInv, RoundInv, PoolOfRound, HasTx, WorkerTxAt
        <3> QED BY <2>2, <3>1, DetailsByFrame
    <2> QED BY <1>3, <2>1, <2>2
<1>4. CASE HandNext
    <2>1. overtaken' = overtaken /\ UNCHANGED <<sync, active, dmap>>
        BY <1>4 DEF HandNext, HandStep, Subscribe, Disconnect, Deliver, HandSubmit, HandPoll,
                    HandComplete, mapVars, faultVars
    <2>2. CASE Subscribe \/ Disconnect \/ Deliver \/ HandSubmit \/ HandPoll
        <3>1. UNCHANGED <<chain, txs, wreg>>
            BY <2>2 DEF Subscribe, Disconnect, Deliver, HandSubmit, HandPoll, ledgerVars, records
        <3> QED BY <1>3, <2>1, <3>1
    <2>3. CASE HandComplete /\ ~ overtaken
        <3> DEFINE t == workOrderComplete(hand.id, hand.resp)
        <3>1. hand.id \in Orders /\ hand.resp \in {"result", "error"}
            BY <2>3, HandFields DEF HandComplete, ProxyTypeInv, ConnectorTypes, Idle
        <3>2. t \in SubmitTxs \cup CompleteTxs /\ t.stale = FALSE
            BY <3>1, TxKinds DEF workOrderComplete, Tx
        <3>3. PICK r \in Outcomes : FabricInvoke(t, r)
            BY <2>3 DEF HandComplete
        <3> HIDE DEF t
        <3> QED BY <2>1, <2>3, <3>2, <3>3, DetailsByOrder
    <2> QED BY <1>3, <1>4, <2>1, <2>2, <2>3 DEF HandNext, HandStep
<1>5. CASE ClientNext
    <2>1. overtaken' = overtaken /\ UNCHANGED <<sync, active, dmap>>
        BY <1>5 DEF ClientNext, connectorVars, mapVars, faultVars
    <2>2. CASE UNCHANGED <<chain, txs, wreg>>
        BY <1>3, <2>1, <2>2
    <2>3. ASSUME NEW o \in Orders, ClientSubmit(o), ~ overtaken PROVE DetailInv'
        <3> DEFINE t == workOrderSubmit(o, client[o].worker)
        <3>1. client[o].worker \in Workers
            BY <2>3, ClientFields DEF ClientSubmit, ProxyTypeInv
        <3>2. t \in SubmitTxs \cup CompleteTxs /\ t.stale = FALSE
            BY <3>1, TxKinds DEF workOrderSubmit, FabricSubmit, EthereumSubmit, Tx
        <3>3. PICK r \in Outcomes : Invoke(t, r)
            BY <2>3 DEF ClientSubmit
        <3> HIDE DEF t
        <3> QED BY <2>1, <2>3, <3>2, <3>3, DetailsByOrder
    <2> QED BY <1>3, <1>5, <2>1, <2>2, <2>3 DEF ClientNext, ClientStart, ClientEvent,
               ClientTimeout, FabricQuery, EthereumQuery, FabricListen, EthereumListen, ledgerVars, records
<1>6. CASE ChainNext
    <2>1. overtaken' = overtaken /\ UNCHANGED <<sync, active, dmap>>
        BY <1>6 DEF ChainNext, mapVars, faultVars
    <2> QED BY <1>3, <1>6, <2>1, DetailsByCommit, DetailsByMine DEF ChainNext
<1>7. CASE AvalonNext \/ UNCHANGED proxyVars
    <2>1. overtaken' = overtaken /\ UNCHANGED <<chain, sync, active, txs, wreg, dmap>>
        BY <1>7 DEF AvalonNext, Process, RemoveWorker, RestartManager, proxyVars, ledgerVars,
                    records, connectorVars, mapVars, faultVars
    <2> QED BY <1>3, <2>1
<1> QED BY <1>1, <1>2, <1>4, <1>5, <1>6, <1>7 DEF ProxyNext

(***************************************************************************)
(* Initially nothing is recorded and the pool is empty.                    *)
(***************************************************************************)
LEMMA InitDetails == ProxyInit => DetailInv
<1> SUFFICES ASSUME ProxyInit PROVE DetailInv
    OBVIOUS
<1>1. txs = <<>> /\ sync = Start /\ dmap = NoDetails
    BY DEF ProxyInit, LedgerInit
<1>2. \A i \in DOMAIN txs : FALSE
    BY <1>1
<1>3. DetailsFirst /\ DetailsFresh /\ PoolOfRound /\ RoundInv
    BY <1>1, <1>2 DEF DetailsFirst, DetailsFresh, PoolOfRound, HasTx, RoundInv, Start
<1>4. \A w \in Workers : DetailsKept(w)
    BY <1>1 DEF DetailsKept, NoDetails
<1> QED BY <1>3, <1>4 DEF DetailInv

(***************************************************************************)
(* As long as no round has begun, after an exception, a restart or its     *)
(* thirty seconds, before the worker transactions of the rounds before it  *)
(* were committed, the details the connector has recorded of a worker are  *)
(* on the chain, or on their way in the last such transaction, which will  *)
(* not be refused: sync_workers sends the details of a worker once a       *)
(* round, ahead of its status.  So the worker that is not written again    *)
(* because _worker_details_map has its details is rightly left alone.      *)
(***************************************************************************)
THEOREM RecordedDetailsArrive == ProxySpec => []RecordedDetailsOnChain
<1>1. OrderInv => ProxyTypeInv
    BY DEF OrderInv
<1>2. ProxyTypeInv /\ DetailInv => RecordedDetailsOnChain
    <2> SUFFICES ASSUME ProxyTypeInv, DetailInv, ~ overtaken, NEW w \in Workers, dmap[w] # 0
                 PROVE  LET mine == {i \in DOMAIN txs : /\ txs[i].key = <<"worker", w>>
                                                        /\ txs[i].fn \in {"register", "update"}}
                        IN \/ mine = {} /\ wreg[w].details = dmap[w]
                           \/ \E i \in mine : /\ \A j \in mine : j <= i
                                              /\ txs[i].arg = dmap[w] /\ ~ txs[i].stale
        BY DEF RecordedDetailsOnChain
    <2> DEFINE mine == {i \in DOMAIN txs : /\ txs[i].key = <<"worker", w>>
                                           /\ txs[i].fn \in {"register", "update"}}
    <2>1. \A i : i \in mine <=> i \in DOMAIN txs /\ DetailTxAt(w, i)
        BY DEF DetailTxAt, WorkerTxAt
    <2>2. DetailsKept(w) /\ DetailsFirst /\ DetailsFresh
        BY DEF DetailInv
    <2>3. ASSUME NEW i \in mine, NEW j \in mine PROVE j <= i
        <3>1. DOMAIN txs = 1..Len(txs) /\ Len(txs) \in Nat
            BY LenProperties DEF ProxyTypeInv, LedgerTypes
        <3>2. ~ (i < j)
            BY <2>1, <2>2 DEF DetailsFirst, DetailTxAt
        <3> QED BY <3>1, <3>2
    <2> HIDE DEF mine
    <2>4. CASE \E i \in DOMAIN txs : DetailTxAt(w, i) /\ txs[i].arg = dmap[w]
        <3>1. PICK i \in DOMAIN txs : DetailTxAt(w, i) /\ txs[i].arg = dmap[w]
            BY <2>4
        <3>2. i \in mine /\ ~ txs[i].stale
            BY <2>1, <2>2, <3>1 DEF DetailsFresh
        <3> QED BY <2>3, <3>1, <3>2 DEF mine
    <2>5. CASE (\A i \in DOMAIN txs : ~ DetailTxAt(w, i)) /\ wreg[w].details = dmap[w]
        <3>1. mine = {}
            BY <2>1, <2>5
        <3> QED BY <2>5, <3>1 DEF mine
    <2> QED BY <2>2, <2>4, <2>5 DEF DetailsKept
<1>3. ProxySpec => [](ProxyTypeInv /\ DetailInv)
    BY <1>1, InitDetails, NextDetails, OrdersPlaced, PTL DEF ProxySpec
<1> QED BY <1>2, <1>3, PTL
=============================================================================
