------------------------------- MODULE Ledger -------------------------------
(***************************************************************************)
(* The blockchain behind the proxy model, as the SDK uses it: the worker   *)
(* and work order records of the Fabric chaincode or of the Ethereum       *)
(* contracts, and the calls of the two wrappers.                           *)
(*                                                                         *)
(* Fabric: a call returns when the orderer has accepted the transaction,   *)
(* which was executed on the state committed then.  It is committed later, *)
(* in order, and refused if a record it read was written meanwhile.        *)
(*                                                                         *)
(* Ethereum: a call returns when the transaction is mined, and raises when *)
(* three attempts timed out, with the last one still in the pool.          *)
(***************************************************************************)
EXTENDS Naturals, Sequences

CONSTANTS
    Workers,   \* worker ids
    Orders,    \* work order ids
    Chains,    \* the chains to consider, among "fabric" and "ethereum"
    MaxFaults  \* bound: failing calls, restarts and changes of workers

VARIABLES
    chain,     \* the chain in use
    wreg,      \* worker id -> record of the worker registry
    oreg,      \* work order id -> record of the work order registry
    txs,       \* transactions accepted and not committed
    newest,    \* the event in the newest block
    nfaults

ledgerVars == <<chain, wreg, oreg, txs, newest, nfaults>>

NoWorker == [status |-> "none", details |-> 0]
NoOrder == [status |-> "none", worker |-> 0, resp |-> "none"]
NoEvent == [name |-> "none"]

LedgerInit ==
    /\ chain \in Chains
    /\ wreg = [w \in Workers |-> NoWorker]
    /\ oreg = [o \in Orders |-> NoOrder]
    /\ txs = <<>> /\ newest = NoEvent /\ nfaults = 0

-----------------------------------------------------------------------------
(* Transactions                                                            *)

\* reads: the chaincode fetches the record before it writes it.
Tx(fn, table, id, arg, reads) ==
    [fn |-> fn, key |-> <<table, id>>, arg |-> arg, reads |-> reads, stale |-> FALSE]

FabricWorker(fn, w, arg) == Tx(fn, "worker", w, arg, fn # "register")
EthereumWorker(fn, w, arg) == Tx(fn, "worker", w, arg, FALSE)

WorkerTx(fn, w, arg) ==
    IF chain = "fabric" THEN FabricWorker(fn, w, arg) ELSE EthereumWorker(fn, w, arg)

FabricSubmit(o, w) == Tx("submit", "order", o, w, FALSE)
EthereumSubmit(o, w) == Tx("submit", "order", o, w, FALSE)

workOrderSubmit(o, w) == IF chain = "fabric" THEN FabricSubmit(o, w) ELSE EthereumSubmit(o, w)

\* Only the Fabric connector gets as far as answering an order.
workOrderComplete(o, resp) == Tx("complete", "order", o, resp, TRUE)

worker_lookup == {w \in Workers : wreg[w] # NoWorker}
worker_retrieve(w) == wreg[w]

WorkerAfter(t, rec) ==
    CASE t.fn = "register" -> [status |-> "active", details |-> t.arg]
      [] t.fn = "update" -> [rec EXCEPT !.details = t.arg]
      [] t.fn = "status" -> [rec EXCEPT !.status = t.arg]

OrderAfter(t, rec) ==
    CASE t.fn = "submit" -> [status |-> "submitted", worker |-> t.arg, resp |-> "none"]
      [] t.fn = "complete" -> [rec EXCEPT !.status = "completed", !.resp = t.arg]

Write(t) ==
    LET id == t.key[2]
    IN IF t.key[1] = "worker"
       THEN wreg' = [wreg EXCEPT ![id] = WorkerAfter(t, @)] /\ UNCHANGED oreg
       ELSE oreg' = [oreg EXCEPT ![id] = OrderAfter(t, @)] /\ UNCHANGED wreg

EventOf(t) ==
    CASE t.fn = "submit" -> [name |-> "submitted", id |-> t.key[2], worker |-> t.arg]
      [] t.fn = "complete" -> [name |-> "completed", id |-> t.key[2], resp |-> t.arg]
      [] OTHER -> NoEvent

\* A write makes what later transactions read of the record out of date.
MarkStale(ts, t) ==
    [i \in DOMAIN ts |->
        [ts[i] EXCEPT !.stale = @ \/ (ts[i].reads /\ ts[i].key = t.key)]]

Fault == nfaults < MaxFaults /\ nfaults' = nfaults + 1

-----------------------------------------------------------------------------
(* Fabric                                                                  *)

\* cc_invoke: the orderer accepts the endorsed transaction.
Order(t) == txs' = Append(txs, t) /\ UNCHANGED <<chain, wreg, oreg, newest, nfaults>>

\* What a call comes to: accepted, refused, or an exception in the caller.
Outcomes == {"SUCCESS", "ERROR", "raised"}

\* invoke_chaincode comes to r: the orderer accepts, or refuses, or no endorser
\* answers.
FabricInvoke(t, r) ==
    \/ r = "SUCCESS" /\ Order(t)
    \/ r # "SUCCESS" /\ Fault /\ UNCHANGED <<chain, wreg, oreg, txs, newest>>

\* The next transaction is committed, one to a block, which carries its event.
FabricCommit ==
    /\ chain = "fabric" /\ txs # <<>>
    /\ LET t == Head(txs)
       IN IF t.stale
          THEN txs' = Tail(txs) /\ newest' = NoEvent /\ UNCHANGED <<wreg, oreg>>
          ELSE /\ Write(t)
               /\ txs' = MarkStale(Tail(txs), t)
               /\ newest' = EventOf(t)
    /\ UNCHANGED <<chain, nfaults>>

-----------------------------------------------------------------------------
(* Ethereum                                                                *)

\* A worker that exists cannot be registered again.
Reverts(t) == t.fn = "register" /\ wreg[t.key[2]] # NoWorker

\* get_txn_nonce counts the mined transactions only, so an attempt has the nonce of
\* one that is still in the pool, and takes its place.
Replace(pool) == txs' = pool

\* execute_transaction: the transaction is mined while its sender waits.
Mined(t, r) ==
    IF Reverts(t) THEN r = "ERROR" /\ UNCHANGED <<wreg, oreg>>
    ELSE r = "SUCCESS" /\ Write(t)

\* build_exec_txn comes to r: mined, or three times not mined.
EthereumInvoke(t, r) ==
    \/ Mined(t, r) /\ Replace(<<>>) /\ UNCHANGED <<chain, newest, nfaults>>
    \/ r = "raised" /\ Fault /\ Replace(<<t>>) /\ UNCHANGED <<chain, wreg, oreg, newest>>

\* A transaction nobody waits for any more is mined or dropped.
EthereumMine ==
    /\ chain = "ethereum" /\ txs # <<>>
    /\ \/ ~ Reverts(Head(txs)) /\ Write(Head(txs))
       \/ UNCHANGED <<wreg, oreg>>
    /\ txs' = <<>>
    /\ UNCHANGED <<chain, newest, nfaults>>

Invoke(t, r) == IF chain = "fabric" THEN FabricInvoke(t, r) ELSE EthereumInvoke(t, r)
=============================================================================
