-------------------------- MODULE RegistriesProofs --------------------------
(***************************************************************************)
(* Proofs about the listener's registries: for any number of listeners,    *)
(* ids, criteria and pages, whatever the listeners create and purge        *)
(* between the store operations of a lookup.                               *)
(***************************************************************************)
EXTENDS Registries, SequenceLemmas

Entries == {"regid", "other"}

\* What a listener may be working on.
Requests ==
    [op : {"down", "idle"}]
    \cup [op : {"boot"}, todo : Seq(Entries)]
    \cup [op : {"scan"}, table : Tables, todo : Seq(Ids), ids : Seq(Ids)]
    \cup [op : {"create", "set"}, id : Ids, hash : Nat, order : Nat \ {0}]
    \cup [op : {"purge"}, id : Ids]

RegTypeInv ==
    /\ requests \in [Ids -> Nat] /\ submitted \in [Ids -> Nat]
    /\ receipts \in [Ids -> Nat] /\ workers \in SUBSET Ids
    /\ IsFiniteSet(workers) /\ IsFiniteSet({i \in Ids : receipts[i] # 0})
    /\ registries \in SUBSET Entries
    /\ req \in [Listeners -> Requests]
    /\ chain \in [table : Tables \cup {"none"}, pages : Nat, tag : Nat, got : Seq(Ids),
                  stable : SUBSET Ids, open : BOOLEAN]

Up(l) == req[l].op \notin {"down", "boot"}

(***************************************************************************)
(* Boot.  No listener goes down again, so a leftover is gone for good once *)
(* one listener is up, and the last listener to come up sets the entry     *)
(* when nobody is left to remove it.                                       *)
(***************************************************************************)
BootInv ==
    /\ \A l \in Listeners : req[l].op = "boot" /\ "other" \in registries
                                => "other" \in ToSet(req[l].todo)
    /\ \A l \in Listeners : Up(l) => "other" \notin registries
    /\ Listeners # {} /\ (\A l \in Listeners : Up(l)) => "regid" \in registries

(***************************************************************************)
(* Lookups.  One listener at a time serves the chain of pages; what it has *)
(* still to read is above what it has put on the page, which is above all  *)
(* earlier pages.                                                          *)
(***************************************************************************)
Scanning(l) == req[l].op = "scan"

PageOrdered(l) ==
    LET ids == req[l].ids
        todo == req[l].todo
    IN /\ Ascending(ids) /\ Ascending(todo)
       /\ Below(ToSet(chain.got), ToSet(ids))
       /\ Below(ToSet(chain.got), ToSet(todo))
       /\ Below(ToSet(ids), ToSet(todo))

ChainInv ==
    /\ \A l \in Listeners : Scanning(l) => /\ chain.open /\ chain.pages > 0
                                             /\ req[l].table = chain.table
    /\ \A l, k \in Listeners : Scanning(l) /\ Scanning(k) => l = k
    /\ \A l \in Listeners : Scanning(l) => PageOrdered(l)
    /\ Ascending(chain.got)
    /\ chain.tag # 0 => \A x \in ToSet(chain.got) : x <= chain.tag

(***************************************************************************)
(* The keys that have been in the table since the chain began are on a     *)
(* page or still to be read.                                               *)
(***************************************************************************)
StableInv ==
    /\ chain.pages > 0 => chain.table \in Tables /\ chain.stable \subseteq Keys(chain.table)
    /\ chain.pages > 0 /\ ~ chain.open => chain.stable \cap Matching \subseteq ToSet(chain.got)
    /\ \A l \in Listeners : Scanning(l) =>
          chain.stable \cap Matching
              \subseteq ToSet(chain.got) \cup ToSet(req[l].ids) \cup ToSet(req[l].todo)

RegInv == RegTypeInv /\ BootInv /\ ChainInv /\ StableInv


-----------------------------------------------------------------------------

(***************************************************************************)
(* What a listener holds while it works on a request of each kind.         *)
(***************************************************************************)
LEMMA RequestFields ==
    ASSUME NEW r \in Requests
    PROVE  /\ r.op = "boot" => r.todo \in Seq(Entries) /\ r = [op |-> "boot", todo |-> r.todo]
           /\ r.op = "scan" => /\ r.table \in Tables /\ r.todo \in Seq(Ids) /\ r.ids \in Seq(Ids)
                               /\ r = [op |-> "scan", table |-> r.table, todo |-> r.todo,
                                       ids |-> r.ids]
           /\ r.op \in {"create", "set"} =>
                  /\ r.id \in Ids /\ r.hash \in Nat /\ r.order \in Nat \ {0}
                  /\ r = [op |-> r.op, id |-> r.id, hash |-> r.hash, order |-> r.order]
           /\ r.op = "purge" => r.id \in Ids
<1>1. CASE r \in [op : {"down", "idle"}]
    BY <1>1
<1>2. CASE r \in [op : {"boot"}, todo : Seq(Entries)]
    BY <1>2
<1>3. CASE r \in [op : {"scan"}, table : Tables, todo : Seq(Ids), ids : Seq(Ids)]
    BY <1>3
<1>4. CASE r \in [op : {"create", "set"}, id : Ids, hash : Nat, order : Nat \ {0}]
    BY <1>4
<1>5. CASE r \in [op : {"purge"}, id : Ids]
    BY <1>5
<1> QED BY <1>1, <1>2, <1>3, <1>4, <1>5 DEF Requests

(***************************************************************************)
(* The requests the handlers build.                                        *)
(***************************************************************************)
LEMMA RequestKinds ==
    /\ Idle \in Requests
    /\ \A s \in Seq(Entries) : [op |-> "boot", todo |-> s] \in Requests
    /\ \A t \in Tables, s, u \in Seq(Ids) :
           [op |-> "scan", table |-> t, todo |-> s, ids |-> u] \in Requests
    /\ \A o \in {"create", "set"}, i \in Ids, h \in Nat, n \in Nat \ {0} :
           [op |-> o, id |-> i, hash |-> h, order |-> n] \in Requests
    /\ \A i \in Ids : [op |-> "purge", id |-> i] \in Requests
<1>1. Idle \in Requests
    BY DEF Idle, Requests
<1>2. \A s \in Seq(Entries) : [op |-> "boot", todo |-> s] \in Requests
    BY DEF Requests
<1>3. \A t \in Tables, s, u \in Seq(Ids) :
          [op |-> "scan", table |-> t, todo |-> s, ids |-> u] \in Requests
    BY DEF Requests
<1>4. \A o \in {"create", "set"}, i \in Ids, h \in Nat, n \in Nat \ {0} :
          [op |-> o, id |-> i, hash |-> h, order |-> n] \in Requests
    BY DEF Requests
<1>5. \A i \in Ids : [op |-> "purge", id |-> i] \in Requests
    BY DEF Requests
<1> QED BY <1>1, <1>2, <1>3, <1>4, <1>5

(***************************************************************************)
(* The store lists the keys of a finite table in ascending order, each of  *)
(* them once.                                                              *)
(***************************************************************************)
LEMMA InOrderProperties ==
    ASSUME NEW S \in SUBSET Ids, IsFiniteSet(S)
    PROVE  InOrder(S) \in Seq(Ids) /\ ToSet(InOrder(S)) = S /\ Ascending(InOrder(S))
<1>1. S \in SUBSET Nat
    BY RegistriesAssumption
<1>2. \E s \in SetToSeqs(S) : Ascending(s)
    BY <1>1, SortedEnumeration
<1>3. InOrder(S) \in SetToSeqs(S) /\ Ascending(InOrder(S))
    BY <1>2 DEF InOrder, Ascending
<1> DEFINE s == InOrder(S)
           n == Cardinality(S)
<1>4. n \in Nat /\ s \in [1..n -> S] /\ \A i, j \in 1..n : i # j => s[i] # s[j]
    BY <1>3, FS_CardinalityType DEF SetToSeqs
<1> HIDE DEF s
<1>5. s \in Injection(1..n, S) /\ Cardinality(1..n) = n
    <2>1. Cardinality(1..n) = n
        BY <1>4, FS_Interval
    <2> HIDE DEF n
    <2>2. s \in Injection(1..n, S)
        BY <1>4 DEF Injection, IsInjective
    <2> QED BY <2>1, <2>2
<1>6. s \in Surjection(1..n, S)
    BY <1>5, FS_Injection
<1>7. s \in Seq(Ids)
    BY <1>4, SeqDef
<1>8. ToSet(s) = S
    BY <1>6 DEF ToSet, Surjection
<1> QED BY <1>3, <1>7, <1>8 DEF s

(***************************************************************************)
(* The invariant holds initially.                                          *)
(***************************************************************************)
LEMMA InitReg == RegInit => RegInv
<1> SUFFICES ASSUME RegInit PROVE RegInv
    OBVIOUS
<1>1. chain = NoChain /\ chain.got = <<>> /\ ToSet(chain.got) = {}
    <2>1. ToSet(<<>>) = {}
        BY DEF ToSet
    <2> QED BY <2>1 DEF RegInit, NoChain
<1>2. /\ \A l \in Listeners : req[l] = [op |-> "down"] /\ ~ Scanning(l) /\ ~ Up(l)
      /\ \A l \in Listeners : req[l] \in Requests /\ req[l].op # "boot"
    BY DEF RegInit, Scanning, Up, Requests
<1>3. {i \in Ids : receipts[i] # 0} = {}
    BY DEF RegInit
<1>4. RegTypeInv
    <2>1. chain \in [table : Tables \cup {"none"}, pages : Nat, tag : Nat, got : Seq(Ids),
                     stable : SUBSET Ids, open : BOOLEAN]
        <3>1. <<>> \in Seq(Ids)
            OBVIOUS
        <3> QED BY <1>1, <3>1 DEF NoChain
    <2>2. req \in [Listeners -> Requests]
        BY <1>2 DEF RegInit
    <2> QED BY <1>3, <2>1, <2>2, FS_EmptySet DEF RegInit, RegTypeInv, Entries
<1>5. BootInv
    BY <1>2 DEF BootInv
<1>6. ChainInv
    BY <1>1, <1>2 DEF ChainInv, NoChain, Ascending
<1>7. StableInv
    BY <1>1, <1>2 DEF StableInv, NoChain
<1> QED BY <1>4, <1>5, <1>6, <1>7 DEF RegInv

(***************************************************************************)
(* A step of a listener that is up, in which neither the tables nor the    *)
(* chain of pages change, and no lookup begins or goes on.                 *)
(***************************************************************************)
LEMMA QuietStep ==
    ASSUME RegInv, NEW l \in Listeners, NEW r \in Requests,
           r.op \notin {"down", "boot", "scan"}, Up(l), ~ Scanning(l),
           req' = [req EXCEPT ![l] = r],
           requests' \in [Ids -> Nat], submitted' \in [Ids -> Nat],
           UNCHANGED <<receipts, workers, registries, chain>>
    PROVE  RegInv'
<1>1. /\ req' \in [Listeners -> Requests]
      /\ req'[l] = r /\ \A k \in Listeners \ {l} : req'[k] = req[k]
    BY DEF RegInv, RegTypeInv
<1>2. /\ Up(l)' /\ ~ Scanning(l)'
      /\ \A k \in Listeners : Scanning(k)' => k # l /\ Scanning(k)
      /\ \A k \in Listeners : Up(k)' <=> Up(k)
      /\ \A k \in Listeners : req'[k].op = "boot" => k # l
    BY <1>1 DEF Up, Scanning
<1>3. RegTypeInv'
    BY <1>1 DEF RegInv, RegTypeInv
<1>4. BootInv'
    BY <1>1, <1>2 DEF RegInv, BootInv
<1>5. ChainInv'
    BY <1>1, <1>2 DEF RegInv, ChainInv, PageOrdered
<1>6. StableInv'
    BY <1>1, <1>2 DEF RegInv, StableInv, Keys
<1> QED BY <1>3, <1>4, <1>5, <1>6 DEF RegInv

(***************************************************************************)
(* Requests that are answered without a change of the tables, the reading  *)
(* and checking of a receipt's creation, and the start of a purge.         *)
(***************************************************************************)
LEMMA RegByRequest ==
    ASSUME RegInv, NEW l \in Listeners,
           \/ Undecodable(l) \/ \E r \in SdkRequests : Refuse(l, r)
           \/ CreateCheck(l)
           \/ \E i \in Ids : \/ WorkerRetrieve(l, i) \/ WorkOrderReceiptRetrieve(l, i)
                             \/ WorkOrderReceiptUpdate(l, i)
                             \/ WorkOrderReceiptUpdateRetrieve(l, i) \/ PurgeRequest(l, i)
                             \/ \E h \in 1 .. MaxOrders : CreateRead(l, i, h)
    PROVE  RegInv'
<1>0. /\ req \in [Listeners -> Requests] /\ req[l] \in Requests
      /\ requests \in [Ids -> Nat] /\ submitted \in [Ids -> Nat]
    BY DEF RegInv, RegTypeInv
<1>1. req[l] = Idle => Up(l) /\ ~ Scanning(l)
    BY DEF Up, Scanning, Idle
<1>2. ASSUME req[l] = Idle \/ req[l].op = "create", NEW r, Answer(l, r),
             UNCHANGED <<requests, submitted, receipts, workers, registries, chain>>
      PROVE  RegInv'
    <2>1. Up(l) /\ ~ Scanning(l) /\ Idle \in Requests
        BY <1>1, <1>2, RequestKinds DEF Up, Scanning
    <2>2. req' = [req EXCEPT ![l] = Idle] /\ Idle.op \notin {"down", "boot", "scan"}
        BY <1>2 DEF Answer, Idle
    <2> QED BY <1>0, <1>2, <2>1, <2>2, QuietStep
<1>3. CASE Undecodable(l)
    BY <1>2, <1>3 DEF Undecodable
<1>4. ASSUME NEW r, Refuse(l, r) PROVE RegInv'
    BY <1>2, <1>4 DEF Refuse
<1>5. CASE CreateCheck(l)
    <2>1. CASE \E r \in {"exists", "invalid"} : Answer(l, r)
        BY <1>2, <1>5, <2>1 DEF CreateCheck
    <2>2. CASE req' = [req EXCEPT ![l].op = "set"]
        <3> DEFINE r == [op |-> "set", id |-> req[l].id, hash |-> req[l].hash,
                         order |-> req[l].order]
        <3>1. /\ req[l].id \in Ids /\ req[l].hash \in Nat /\ req[l].order \in Nat \ {0}
              /\ req[l] = [op |-> "create", id |-> req[l].id, hash |-> req[l].hash,
                           order |-> req[l].order]
            BY <1>0, <1>5, RequestFields DEF CreateCheck
        <3>2. [req[l] EXCEPT !.op = "set"] = r
            BY <3>1
        <3>3. req' = [req EXCEPT ![l] = r]
            BY <1>0, <2>2, <3>2
        <3>4. r \in Requests /\ r.op = "set"
            BY <3>1, RequestKinds
        <3>5. Up(l) /\ ~ Scanning(l)
            BY <1>5 DEF CreateCheck, Up, Scanning
        <3> HIDE DEF r
        <3> QED BY <1>0, <1>5, <3>3, <3>4, <3>5, QuietStep DEF CreateCheck
    <2> QED BY <1>5, <2>1, <2>2 DEF CreateCheck
<1>6. ASSUME NEW i \in Ids,
             \/ WorkerRetrieve(l, i) \/ WorkOrderReceiptRetrieve(l, i)
             \/ WorkOrderReceiptUpdate(l, i) \/ WorkOrderReceiptUpdateRetrieve(l, i)
      PROVE  RegInv'
    BY <1>2, <1>6 DEF WorkerRetrieve, WorkOrderReceiptRetrieve, WorkOrderReceiptUpdate,
                      WorkOrderReceiptUpdateRetrieve, Serves
<1>7. ASSUME NEW i \in Ids, PurgeRequest(l, i) PROVE RegInv'
    <2>1. [op |-> "purge", id |-> i] \in Requests
        BY RequestKinds
    <2>2. requests' \in [Ids -> Nat] /\ submitted' \in [Ids -> Nat]
        BY <1>0, <1>7 DEF PurgeRequest
    <2> QED BY <1>0, <1>1, <1>7, <2>1, <2>2, QuietStep DEF PurgeRequest
<1>8. ASSUME NEW i \in Ids, NEW h \in 1 .. MaxOrders, CreateRead(l, i, h) PROVE RegInv'
    <2>1. CASE Answer(l, "unknown_order")
        BY <1>2, <1>8, <2>1 DEF CreateRead, Serves
    <2>2. CASE requests[i] # 0 /\ req' = [req EXCEPT ![l] =
                   [op |-> "create", id |-> i, hash |-> h, order |-> requests[i]]]
        <3>1. h \in Nat /\ requests[i] \in Nat \ {0}
            BY <1>0, <2>2, RegistriesAssumption
        <3>2. [op |-> "create", id |-> i, hash |-> h, order |-> requests[i]] \in Requests
            BY <3>1, RequestKinds
        <3>3. Up(l) /\ ~ Scanning(l)
            BY <1>1, <1>8 DEF CreateRead, Serves
        <3> QED BY <1>0, <1>8, <2>2, <3>2, <3>3, QuietStep DEF CreateRead
    <2> QED BY <1>8, <2>1, <2>2 DEF CreateRead
<1> QED BY <1>3, <1>4, <1>5, <1>6, <1>7, <1>8


(***************************************************************************)
(* No lookup begins, goes on or ends in a step of l that leaves the chain  *)
(* of pages and the tables alone.                                          *)
(***************************************************************************)
LEMMA NoScanStep ==
    ASSUME RegInv, NEW l \in Listeners, NEW r \in Requests, r.op # "scan", ~ Scanning(l),
           req' = [req EXCEPT ![l] = r], UNCHANGED <<receipts, workers, chain>>
    PROVE  ChainInv' /\ StableInv'
<1>1. /\ req'[l] = r /\ \A k \in Listeners \ {l} : req'[k] = req[k]
      /\ \A k \in Listeners : Scanning(k)' => k # l /\ Scanning(k)
    BY DEF RegInv, RegTypeInv, Scanning
<1>2. ChainInv'
    BY <1>1 DEF RegInv, ChainInv, PageOrdered
<1>3. StableInv'
    BY <1>1 DEF RegInv, StableInv, Keys
<1> QED BY <1>2, <1>3

(***************************************************************************)
(* The registries table is not touched and l was and stays up.             *)
(***************************************************************************)
LEMMA StaysUp ==
    ASSUME RegInv, NEW l \in Listeners, NEW r, r.op \notin {"down", "boot"}, Up(l),
           req' = [req EXCEPT ![l] = r], UNCHANGED registries
    PROVE  BootInv'
<1>1. /\ req'[l] = r /\ \A k \in Listeners \ {l} : req'[k] = req[k]
    BY DEF RegInv, RegTypeInv
<1>2. /\ \A k \in Listeners : Up(k)' <=> Up(k)
      /\ \A k \in Listeners : req'[k].op = "boot" => k # l
    BY <1>1 DEF Up
<1> QED BY <1>1, <1>2 DEF RegInv, BootInv

(***************************************************************************)
(* A listener boots.                                                       *)
(***************************************************************************)
LEMMA RegByBoot ==
    ASSUME RegInv, NEW l \in Listeners, BootList(l) \/ BootRemove(l) \/ BootPublish(l)
    PROVE  RegInv'
<1>0. /\ req \in [Listeners -> Requests] /\ req[l] \in Requests
      /\ registries \in SUBSET Entries
    BY DEF RegInv, RegTypeInv
<1>1. CASE BootList(l)
    <2> DEFINE s == SetToSeq(registries)
               r == [op |-> "boot", todo |-> s]
    <2>1. IsFiniteSet(registries)
        <3>1. IsFiniteSet({"regid"}) /\ IsFiniteSet({"regid"} \cup {"other"})
            BY FS_Singleton, FS_AddElement
        <3>2. {"regid"} \cup {"other"} = Entries
            BY DEF Entries
        <3> QED BY <1>0, <3>1, <3>2, FS_Subset
    <2>2. s \in Seq(registries) /\ ToSet(s) = registries
        BY <2>1, EnumerationProperties
    <2>3. s \in Seq(Entries)
        BY <1>0, <2>2, SeqDef
    <2>4. r \in Requests /\ r.op = "boot" /\ r.todo = s
        BY <2>3, RequestKinds
    <2>5. req' = [req EXCEPT ![l] = r] /\ ~ Scanning(l) /\ ~ Up(l)
        BY <1>1 DEF BootList, Scanning, Up
    <2> HIDE DEF r, s
    <2>6. ChainInv' /\ StableInv'
        BY <1>1, <2>4, <2>5, NoScanStep DEF BootList
    <2>7. req'[l] = r /\ \A k \in Listeners \ {l} : req'[k] = req[k]
        BY <1>0, <2>5
    <2>8. ~ Up(l)' /\ \A k \in Listeners : Up(k)' => k # l /\ Up(k)
        BY <2>4, <2>7 DEF Up
    <2>9. BootInv'
        BY <1>1, <2>2, <2>4, <2>7, <2>8 DEF RegInv, BootInv, BootList
    <2>10. RegTypeInv'
        BY <1>0, <1>1, <2>4, <2>5 DEF RegInv, RegTypeInv, BootList
    <2> QED BY <2>6, <2>9, <2>10 DEF RegInv
<1>2. CASE BootRemove(l)
    <2> DEFINE s == req[l].todo
               r == [op |-> "boot", todo |-> Tail(s)]
    <2>1. s \in Seq(Entries) /\ s # <<>> /\ req[l] = [op |-> "boot", todo |-> s]
        BY <1>0, <1>2, RequestFields DEF BootRemove
    <2>2. Tail(s) \in Seq(Entries) /\ ToSet(s) = ToSet(Tail(s)) \cup {Head(s)}
        BY <2>1, PopProperties
    <2>3. r \in Requests /\ r.op = "boot" /\ r.todo = Tail(s)
        BY <2>2, RequestKinds
    <2>4. [req[l] EXCEPT !.todo = Tail(s)] = r
        BY <2>1
    <2>5. req' = [req EXCEPT ![l] = r] /\ ~ Scanning(l)
        BY <1>0, <1>2, <2>4 DEF BootRemove, Scanning
    <2> HIDE DEF r
    <2>6. ChainInv' /\ StableInv'
        BY <1>2, <2>3, <2>5, NoScanStep DEF BootRemove
    <2>7. req'[l] = r /\ \A k \in Listeners \ {l} : req'[k] = req[k]
        BY <1>0, <2>5
    <2>8. ~ Up(l)' /\ \A k \in Listeners : Up(k)' => k # l /\ Up(k)
        BY <2>3, <2>7 DEF Up
    <2>9. /\ "other" \in registries' => "other" \in registries /\ "other" # Head(s)
          /\ "other" \in registries => "other" \in ToSet(s)
        BY <1>2 DEF BootRemove, RegInv, BootInv
    <2>10. BootInv'
        BY <2>2, <2>3, <2>7, <2>8, <2>9 DEF RegInv, BootInv
    <2>11. registries' \in SUBSET Entries
        BY <1>0, <1>2 DEF BootRemove
    <2>12. RegTypeInv'
        BY <1>0, <1>2, <2>3, <2>5, <2>11 DEF RegInv, RegTypeInv, BootRemove
    <2> QED BY <2>6, <2>10, <2>12 DEF RegInv
<1>3. CASE BootPublish(l)
    <2>1. "other" \notin registries
        <3>1. ToSet(<<>>) = {}
            BY DEF ToSet
        <3> QED BY <1>3, <3>1 DEF BootPublish, RegInv, BootInv
    <2>2. /\ registries' = registries \cup {"regid"} /\ Idle \in Requests
          /\ req' = [req EXCEPT ![l] = Idle] /\ Idle.op = "idle" /\ ~ Scanning(l)
        BY <1>3, RequestKinds DEF BootPublish, Answer, Idle, Scanning
    <2>3. ChainInv' /\ StableInv'
        BY <1>3, <2>2, NoScanStep DEF BootPublish
    <2>4. "other" \notin registries' /\ "regid" \in registries'
        BY <2>1, <2>2
    <2>5. BootInv'
        BY <2>4 DEF BootInv
    <2>6. registries' \in SUBSET Entries
        BY <1>0, <2>2 DEF Entries
    <2>7. RegTypeInv'
        BY <1>0, <1>3, <2>2, <2>6 DEF RegInv, RegTypeInv, BootPublish
    <2> QED BY <2>3, <2>5, <2>7 DEF RegInv
<1> QED BY <1>1, <1>2, <1>3

(***************************************************************************)
(* Orders are submitted, workers are published, receipts are stored and    *)
(* purged.                                                                 *)
(***************************************************************************)
LEMMA RegByTables ==
    ASSUME RegInv,
           \/ \E l \in Listeners : CreateSet(l) \/ PurgeReceipt(l)
           \/ \E i \in Ids : Submit(i) \/ AddWorker(i)
    PROVE  RegInv'
<1>0. /\ req \in [Listeners -> Requests] /\ receipts \in [Ids -> Nat]
      /\ requests \in [Ids -> Nat] /\ submitted \in [Ids -> Nat]
      /\ chain \in [table : Tables \cup {"none"}, pages : Nat, tag : Nat, got : Seq(Ids),
                    stable : SUBSET Ids, open : BOOLEAN]
      /\ IsFiniteSet(workers) /\ IsFiniteSet({i \in Ids : receipts[i] # 0})
    BY DEF RegInv, RegTypeInv
<1>1. ASSUME NEW i \in Ids, Submit(i) PROVE RegInv'
    <2>1. requests' \in [Ids -> Nat] /\ submitted' \in [Ids -> Nat]
        BY <1>0, <1>1 DEF Submit
    <2>2. RegTypeInv'
        BY <1>1, <2>1 DEF RegInv, RegTypeInv, Submit
    <2>3. BootInv' /\ ChainInv'
        BY <1>1 DEF RegInv, BootInv, ChainInv, Up, Scanning, PageOrdered, Submit
    <2>4. StableInv'
        BY <1>1 DEF RegInv, StableInv, Scanning, Keys, Submit
    <2> QED BY <2>2, <2>3, <2>4 DEF RegInv
<1>2. ASSUME NEW i \in Ids, AddWorker(i) PROVE RegInv'
    <2>1. IsFiniteSet(workers')
        BY <1>0, <1>2, FS_AddElement DEF AddWorker
    <2>2. RegTypeInv'
        BY <1>2, <2>1 DEF RegInv, RegTypeInv, AddWorker
    <2>3. BootInv' /\ ChainInv'
        BY <1>2 DEF RegInv, BootInv, ChainInv, Up, Scanning, PageOrdered, AddWorker
    <2>4. StableInv'
        BY <1>2 DEF RegInv, StableInv, Scanning, Keys, AddWorker
    <2> QED BY <2>2, <2>3, <2>4 DEF RegInv
<1>3. ASSUME NEW l \in Listeners, CreateSet(l) PROVE RegInv'
    <2> DEFINE i == req[l].id
    <2>1. i \in Ids /\ req[l].order \in Nat \ {0}
        BY <1>0, <1>3, RequestFields DEF CreateSet
    <2>2. /\ req' = [req EXCEPT ![l] = Idle] /\ Idle \in Requests /\ Idle.op = "idle"
          /\ ~ Scanning(l) /\ Up(l)
        BY <1>3, RequestKinds DEF CreateSet, Answer, Idle, Scanning, Up
    <2>3. /\ receipts' \in [Ids -> Nat]
          /\ {j \in Ids : receipts'[j] # 0} = {j \in Ids : receipts[j] # 0} \cup {i}
        BY <1>0, <1>3, <2>1 DEF CreateSet
    <2>4. IsFiniteSet({j \in Ids : receipts'[j] # 0})
        <3>1. IsFiniteSet({j \in Ids : receipts[j] # 0} \cup {i})
            BY <1>0, FS_AddElement
        <3> QED BY <2>3, <3>1
    <2>5. RegTypeInv'
        BY <1>0, <1>3, <2>2, <2>3, <2>4 DEF RegInv, RegTypeInv, CreateSet
    <2>6. BootInv'
        BY <1>3, <2>2, StaysUp DEF CreateSet
    <2>7. /\ req'[l] = Idle /\ \A k \in Listeners \ {l} : req'[k] = req[k]
          /\ \A k \in Listeners : Scanning(k)' => k # l /\ Scanning(k)
        BY <1>0, <2>2 DEF Scanning
    <2>8. ChainInv'
        BY <1>3, <2>7 DEF RegInv, ChainInv, PageOrdered, CreateSet
    <2>9. StableInv'
        BY <1>3, <2>3, <2>7 DEF RegInv, StableInv, Keys, CreateSet
    <2> QED BY <2>5, <2>6, <2>8, <2>9 DEF RegInv
<1>4. ASSUME NEW l \in Listeners, PurgeReceipt(l) PROVE RegInv'
    <2> DEFINE i == req[l].id
               kept == IF chain.table = "wo-receipts" THEN chain.stable \ {i} ELSE chain.stable
    <2>1. i \in Ids
        BY <1>0, <1>4, RequestFields DEF PurgeReceipt
    <2>2. /\ req' = [req EXCEPT ![l] = Idle] /\ Idle \in Requests /\ Idle.op = "idle"
          /\ ~ Scanning(l) /\ Up(l)
        BY <1>4, RequestKinds DEF PurgeReceipt, Answer, Idle, Scanning, Up
    <2>3. /\ receipts' \in [Ids -> Nat]
          /\ {j \in Ids : receipts'[j] # 0} = {j \in Ids : receipts[j] # 0} \ {i}
        BY <1>0, <1>4, <2>1 DEF PurgeReceipt
    <2>4. IsFiniteSet({j \in Ids : receipts'[j] # 0})
        <3>1. IsFiniteSet({j \in Ids : receipts[j] # 0} \ {i})
            BY <1>0, FS_RemoveElement
        <3> QED BY <2>3, <3>1
    <2>5. chain' = [chain EXCEPT !.stable = kept]
        BY <1>4 DEF PurgeReceipt
    <2>6. /\ chain'.table = chain.table /\ chain'.pages = chain.pages /\ chain'.tag = chain.tag
          /\ chain'.got = chain.got /\ chain'.open = chain.open /\ chain'.stable = kept
          /\ chain' \in [table : Tables \cup {"none"}, pages : Nat, tag : Nat, got : Seq(Ids),
                         stable : SUBSET Ids, open : BOOLEAN]
          /\ kept \subseteq chain.stable
        BY <1>0, <2>5
    <2>7. RegTypeInv'
        BY <1>0, <1>4, <2>2, <2>3, <2>4, <2>6 DEF RegInv, RegTypeInv, PurgeReceipt
    <2>8. BootInv'
        BY <1>4, <2>2, StaysUp DEF PurgeReceipt
    <2>9. /\ req'[l] = Idle /\ \A k \in Listeners \ {l} : req'[k] = req[k]
          /\ \A k \in Listeners : Scanning(k)' => k # l /\ Scanning(k)
        BY <1>0, <2>2 DEF Scanning
    <2>10. ChainInv'
        BY <1>4, <2>6, <2>9 DEF RegInv, ChainInv, PageOrdered
    <2>11. chain.pages > 0 => kept \subseteq IF chain.table = "workers" THEN workers
                                             ELSE {j \in Ids : receipts'[j] # 0}
        BY <2>3 DEF RegInv, StableInv, Keys, Tables
    <2>12. workers' = workers
        BY <1>4 DEF PurgeReceipt
    <2> HIDE DEF kept
    <2>13. StableInv'
        BY <2>6, <2>9, <2>11, <2>12 DEF RegInv, StableInv, Keys
    <2> QED BY <2>7, <2>8, <2>10, <2>13 DEF RegInv
<1> QED BY <1>1, <1>2, <1>3, <1>4


(***************************************************************************)
(* What is known of the state when a lookup begins: no other is under way. *)
(***************************************************************************)
LEMMA LookUpStarts ==
    ASSUME RegInv, NEW l \in Listeners, NEW t \in Tables, NEW s \in Seq(Ids),
           req[l] = Idle, ~ chain.open, Scan(l, t, s), Ascending(s),
           chain' \in [table : Tables \cup {"none"}, pages : Nat, tag : Nat, got : Seq(Ids),
                       stable : SUBSET Ids, open : BOOLEAN],
           chain'.open, chain'.table = t, chain'.pages > 0,
           Ascending(chain'.got), Below(ToSet(chain'.got), ToSet(s)),
           chain'.tag # 0 => \A x \in ToSet(chain'.got) : x <= chain'.tag,
           chain'.stable \subseteq Keys(t),
           chain'.stable \cap Matching \subseteq ToSet(chain'.got) \cup ToSet(s),
           UNCHANGED <<requests, submitted, receipts, workers, registries>>
    PROVE  RegInv'
<1> DEFINE r == [op |-> "scan", table |-> t, todo |-> s, ids |-> <<>>]
<1>1. /\ req \in [Listeners -> Requests] /\ req' = [req EXCEPT ![l] = r]
      /\ Up(l) /\ \A k \in Listeners : ~ Scanning(k)
    BY DEF RegInv, RegTypeInv, ChainInv, Scan, Up, Idle
<1>2. <<>> \in Seq(Ids) /\ Ascending(<<>>)
    BY DEF Ascending
<1>3. ToSet(<<>>) = {}
    BY DEF ToSet
<1>4. /\ r \in Requests /\ r.op = "scan" /\ r.table = t /\ r.todo = s /\ r.ids = <<>>
    BY <1>2, RequestKinds
<1> HIDE DEF r
<1>5. /\ req'[l] = r /\ \A k \in Listeners \ {l} : req'[k] = req[k]
      /\ \A k \in Listeners : Scanning(k)' => k = l
    BY <1>1 DEF Scanning
<1>6. RegTypeInv'
    BY <1>1, <1>4 DEF RegInv, RegTypeInv
<1>7. BootInv'
    BY <1>1, <1>4, StaysUp
<1>8. PageOrdered(l)'
    BY <1>2, <1>3, <1>4, <1>5 DEF PageOrdered, Below
<1>9. ChainInv'
    BY <1>4, <1>5, <1>8 DEF ChainInv
<1>10. StableInv'
    <2>1. chain'.table \in Tables /\ chain'.stable \subseteq Keys(chain.table)'
        BY DEF Keys
    <2> QED BY <1>4, <1>5, <2>1 DEF StableInv
<1> QED BY <1>6, <1>7, <1>9, <1>10 DEF RegInv

(***************************************************************************)
(* A lookup begins, or goes on with the next page.                         *)
(***************************************************************************)
LEMMA RegByLookUp ==
    ASSUME RegInv, NEW l \in Listeners,
           \/ WorkerLookUp(l) \/ WorkOrderReceiptLookUp(l)
           \/ WorkerLookUpNext(l) \/ WorkOrderReceiptLookUpNext(l)
    PROVE  RegInv'
<1>0. /\ req \in [Listeners -> Requests]
      /\ chain \in [table : Tables \cup {"none"}, pages : Nat, tag : Nat, got : Seq(Ids),
                    stable : SUBSET Ids, open : BOOLEAN]
    BY DEF RegInv, RegTypeInv
<1>1. \A t \in Tables : Keys(t) \in SUBSET Ids /\ IsFiniteSet(Keys(t))
    BY DEF RegInv, RegTypeInv, Keys
<1>2. ToSet(<<>>) = {} /\ <<>> \in Seq(Ids) /\ Ascending(<<>>)
    <2>1. ToSet(<<>>) = {}
        BY DEF ToSet
    <2> QED BY <2>1 DEF Ascending
<1>3. ASSUME NEW t \in Tables, req[l] = Idle, LookUp(l, t) PROVE RegInv'
    <2> DEFINE s == InOrder(Keys(t))
               c == [table |-> t, pages |-> 1, tag |-> 0, got |-> <<>>,
                     stable |-> Keys(t), open |-> TRUE]
    <2>1. s \in Seq(Ids) /\ ToSet(s) = Keys(t) /\ Ascending(s)
        BY <1>1, InOrderProperties
    <2>2. chain' = c /\ ~ chain.open /\ Scan(l, t, s)
          /\ UNCHANGED <<requests, submitted, receipts, workers, registries>>
        BY <1>3 DEF LookUp
    <2>3. /\ c.open /\ c.table = t /\ c.pages = 1 /\ c.tag = 0 /\ c.got = <<>>
          /\ c.stable = Keys(t)
          /\ c \in [table : Tables \cup {"none"}, pages : Nat, tag : Nat, got : Seq(Ids),
                    stable : SUBSET Ids, open : BOOLEAN]
        BY <1>1, <1>2
    <2> HIDE DEF s, c
    <2>4. Below({}, ToSet(s))
        BY DEF Below
    <2>5. c.pages > 0
        BY <2>3
    <2> QED BY <1>2, <1>3, <2>1, <2>2, <2>3, <2>4, <2>5, LookUpStarts
<1>4. CASE WorkerLookUp(l)
    BY <1>3, <1>4 DEF WorkerLookUp, Serves, Tables
<1>5. CASE WorkOrderReceiptLookUp(l)
    BY <1>3, <1>5 DEF WorkOrderReceiptLookUp, Serves, Tables
<1>6. ASSUME NEW t \in Tables, NEW s \in Seq(Ids), req[l] = Idle, NextPage(t), Scan(l, t, s),
             chain' = [chain EXCEPT !.pages = @ + 1, !.open = TRUE],
             UNCHANGED <<requests, submitted, receipts, workers, registries>>,
             Ascending(s), Below(ToSet(chain.got), ToSet(s))
      PROVE  RegInv'
    <2>1. /\ ~ chain.open /\ chain.table = t /\ chain.pages \in Nat /\ chain.pages > 0
        BY <1>0, <1>6, RegistriesAssumption DEF NextPage
    <2>2. /\ chain'.open /\ chain'.table = t /\ chain'.pages = chain.pages + 1
          /\ chain'.tag = chain.tag /\ chain'.got = chain.got /\ chain'.stable = chain.stable
          /\ chain' \in [table : Tables \cup {"none"}, pages : Nat, tag : Nat, got : Seq(Ids),
                         stable : SUBSET Ids, open : BOOLEAN]
        <3>1. chain.pages + 1 \in Nat
            BY <2>1
        <3>2. chain' = [table |-> chain.table, pages |-> chain.pages + 1, tag |-> chain.tag,
                        got |-> chain.got, stable |-> chain.stable, open |-> TRUE]
            BY <1>0, <1>6
        <3> QED BY <1>0, <2>1, <3>1, <3>2
    <2>3. /\ Ascending(chain.got)
          /\ chain.tag # 0 => \A x \in ToSet(chain.got) : x <= chain.tag
        BY DEF RegInv, ChainInv
    <2>4. /\ chain.stable \subseteq Keys(t)
          /\ chain.stable \cap Matching \subseteq ToSet(chain.got)
        BY <2>1 DEF RegInv, StableInv
    <2>5. chain'.pages > 0
        BY <2>1, <2>2
    <2> QED BY <1>6, <2>1, <2>2, <2>3, <2>4, <2>5, LookUpStarts
<1>7. CASE WorkOrderReceiptLookUpNext(l)
    <2> DEFINE K == Keys("wo-receipts")
               T == {k \in K : chain.tag \in K /\ k > chain.tag}
    <2>1. "wo-receipts" \in Tables /\ K \in SUBSET Ids /\ IsFiniteSet(K) /\ T \in SUBSET K
        BY <1>1 DEF Tables
    <2>2. IsFiniteSet(T) /\ T \in SUBSET Ids
        BY <2>1, FS_Subset
    <2>3. InOrder(T) \in Seq(Ids) /\ ToSet(InOrder(T)) = T /\ Ascending(InOrder(T))
        BY <2>2, InOrderProperties
    <2>4. ASSUME NEW x \in ToSet(chain.got), NEW y \in T PROVE x < y
        <3>1. chain.tag \in Ids /\ chain.tag # 0 /\ y \in Nat /\ y > chain.tag /\ chain.tag \in Nat
            BY <2>1, RegistriesAssumption
        <3>2. x \in Nat /\ x <= chain.tag
            <4>1. ToSet(chain.got) \subseteq Ids
                BY <1>0, ToSetBound
            <4> QED BY <3>1, <4>1, RegistriesAssumption DEF RegInv, ChainInv
        <3> QED BY <3>1, <3>2
    <2>5. /\ req[l] = Idle /\ NextPage("wo-receipts") /\ Scan(l, "wo-receipts", InOrder(T))
          /\ chain' = [chain EXCEPT !.pages = @ + 1, !.open = TRUE]
          /\ UNCHANGED <<requests, submitted, receipts, workers, registries>>
        BY <1>7 DEF WorkOrderReceiptLookUpNext, Serves, AfterTag
    <2> HIDE DEF T
    <2>6. Below(ToSet(chain.got), ToSet(InOrder(T)))
        BY <2>3, <2>4 DEF Below
    <2> QED BY <1>6, <2>1, <2>3, <2>5, <2>6
<1>8. CASE WorkerLookUpNext(l)
    <2>1. /\ req[l] = Idle /\ NextPage("workers") /\ "workers" \in Tables
          /\ UNCHANGED <<requests, submitted, receipts, workers, registries>>
        BY <1>8 DEF WorkerLookUpNext, Serves, Tables
    <2>2. CASE Scan(l, "workers", <<>>) /\ chain' = [chain EXCEPT !.pages = @ + 1, !.open = TRUE]
        <3>1. Below(ToSet(chain.got), ToSet(<<>>))
            BY <1>2 DEF Below
        <3> QED BY <1>2, <1>6, <2>1, <2>2, <3>1
    <2>3. CASE Answer(l, "internal_error") /\ chain' = [chain EXCEPT !.pages = @ + 1]
        <3>1. chain.pages \in Nat /\ chain.pages > 0
            BY <1>0, <2>1, RegistriesAssumption DEF NextPage
        <3>2. /\ chain'.open = chain.open /\ chain'.table = chain.table
              /\ chain'.pages = chain.pages + 1
              /\ chain'.tag = chain.tag /\ chain'.got = chain.got /\ chain'.stable = chain.stable
              /\ chain' \in [table : Tables \cup {"none"}, pages : Nat, tag : Nat,
                             got : Seq(Ids), stable : SUBSET Ids, open : BOOLEAN]
            BY <1>0, <2>3, <3>1
        <3>3. /\ req' = [req EXCEPT ![l] = Idle] /\ Idle \in Requests /\ Idle.op = "idle"
              /\ ~ Scanning(l) /\ Up(l)
            BY <2>1, <2>3, RequestKinds DEF Answer, Idle, Scanning, Up
        <3>4. /\ req'[l] = Idle /\ \A k \in Listeners \ {l} : req'[k] = req[k]
              /\ \A k \in Listeners : Scanning(k)' => k # l /\ Scanning(k)
            BY <1>0, <3>3 DEF Scanning
        <3>5. RegTypeInv'
            BY <1>0, <2>1, <3>2, <3>3 DEF RegInv, RegTypeInv
        <3>6. BootInv'
            BY <2>1, <3>3, StaysUp
        <3>7. ChainInv'
            BY <3>1, <3>2, <3>4 DEF RegInv, ChainInv, PageOrdered
        <3>8. StableInv'
            BY <2>1, <3>1, <3>2, <3>4 DEF RegInv, StableInv, Keys
        <3> QED BY <3>5, <3>6, <3>7, <3>8 DEF RegInv
    <2> QED BY <1>8, <2>2, <2>3 DEF WorkerLookUpNext
<1> QED BY <1>4, <1>5, <1>7, <1>8

(***************************************************************************)
(* One value is read: the page grows by at most the head of what is left.  *)
(***************************************************************************)
LEMMA RegByScanGet ==
    ASSUME RegInv, NEW l \in Listeners, ScanGet(l)
    PROVE  RegInv'
<1> DEFINE t == req[l].table
           todo == req[l].todo
           ids == req[l].ids
           page == Collect(t, Head(todo), ids)
           r == [req[l] EXCEPT !.todo = Tail(todo), !.ids = page]
<1>0. /\ req \in [Listeners -> Requests] /\ req[l] \in Requests /\ Ids \subseteq Nat
    BY RegistriesAssumption DEF RegInv, RegTypeInv
<1>1. /\ t \in Tables /\ todo \in Seq(Ids) /\ ids \in Seq(Ids) /\ todo # <<>>
      /\ req[l] = [op |-> "scan", table |-> t, todo |-> todo, ids |-> ids]
    BY <1>0, RequestFields DEF ScanGet
<1>2. /\ Head(todo) \in Ids /\ Head(todo) \in ToSet(todo) /\ Tail(todo) \in Seq(Ids)
      /\ ToSet(todo) = ToSet(Tail(todo)) \cup {Head(todo)}
    BY <1>1, PopProperties
<1>3. /\ page = ids \/ page = Append(ids, Head(todo))
      /\ Head(todo) \in Keys(t) \cap Matching => page = Append(ids, Head(todo))
    BY DEF Collect
<1>4. /\ Append(ids, Head(todo)) \in Seq(Ids)
      /\ ToSet(Append(ids, Head(todo))) = ToSet(ids) \cup {Head(todo)}
    BY <1>1, <1>2, AppendToSet
<1>5. /\ Scanning(l) /\ Up(l) /\ chain.open /\ t = chain.table /\ PageOrdered(l)
      /\ \A k \in Listeners : Scanning(k) => k = l
    BY DEF ScanGet, Scanning, Up, RegInv, ChainInv
<1>6. /\ Ascending(ids) /\ Ascending(todo)
      /\ Below(ToSet(chain.got), ToSet(ids)) /\ Below(ToSet(chain.got), ToSet(todo))
      /\ Below(ToSet(ids), ToSet(todo))
    BY <1>5 DEF PageOrdered
<1>7. req' = [req EXCEPT ![l] = r]
    BY <1>0 DEF ScanGet
<1>8. /\ r.op = "scan" /\ r.table = t /\ r.todo = Tail(todo) /\ r.ids = page /\ r \in Requests
    <2>1. page \in Seq(Ids)
        BY <1>1, <1>3, <1>4
    <2> HIDE DEF page, todo, ids, t
    <2>2. req[l] \in [op : {"scan"}, table : Tables, todo : Seq(Ids), ids : Seq(Ids)]
        BY <1>1
    <2>3. r \in [op : {"scan"}, table : Tables, todo : Seq(Ids), ids : Seq(Ids)]
        BY <1>2, <2>1, <2>2
    <2>4. r.op = "scan" /\ r.table = req[l].table /\ r.todo = Tail(todo) /\ r.ids = page
        BY <2>2
    <2> QED BY <2>3, <2>4 DEF Requests, t
<1> HIDE DEF r, page
<1>9. /\ req'[l] = r /\ \A k \in Listeners \ {l} : req'[k] = req[k]
      /\ \A k \in Listeners : Scanning(k)' => k = l
    BY <1>0, <1>5, <1>7 DEF Scanning
<1>10. UNCHANGED <<requests, submitted, receipts, workers, registries, chain>>
    BY DEF ScanGet
<1>11. RegTypeInv'
    BY <1>0, <1>7, <1>8, <1>10 DEF RegInv, RegTypeInv
<1>12. BootInv'
    BY <1>5, <1>7, <1>8, <1>10, StaysUp
<1>13. ids \in Seq(Nat) /\ todo \in Seq(Nat) /\ Head(todo) \in Nat
    BY <1>0, <1>1, <1>2, SeqDef
<1>14. Ascending(Tail(todo)) /\ \A x \in ToSet(Tail(todo)) : Head(todo) < x
    BY <1>1, <1>6, <1>13, AscendingTail
<1>15. Ascending(page)
    BY <1>2, <1>3, <1>6, <1>13, AscendingAppend DEF Below
<1>16. ToSet(page) \subseteq ToSet(ids) \cup {Head(todo)} /\ ToSet(ids) \subseteq ToSet(page)
    BY <1>3, <1>4
<1>17. /\ Below(ToSet(chain.got), ToSet(page)) /\ Below(ToSet(chain.got), ToSet(Tail(todo)))
       /\ Below(ToSet(page), ToSet(Tail(todo)))
    <2>1. Below(ToSet(chain.got), ToSet(page)) /\ Below(ToSet(chain.got), ToSet(Tail(todo)))
        BY <1>2, <1>6, <1>16 DEF Below
    <2>2. Below(ToSet(page), ToSet(Tail(todo)))
        BY <1>2, <1>6, <1>14, <1>16 DEF Below
    <2> QED BY <2>1, <2>2
<1>18. PageOrdered(l)'
    BY <1>8, <1>9, <1>10, <1>14, <1>15, <1>17 DEF PageOrdered
<1>19. ChainInv'
    BY <1>5, <1>8, <1>9, <1>10, <1>18 DEF RegInv, ChainInv
<1>20. chain.stable \cap Matching
           \subseteq ToSet(chain.got) \cup ToSet(page) \cup ToSet(Tail(todo))
    <2> SUFFICES ASSUME NEW i \in chain.stable \cap Matching
                 PROVE  i \in ToSet(chain.got) \cup ToSet(page) \cup ToSet(Tail(todo))
        OBVIOUS
    <2>1. i \in ToSet(chain.got) \cup ToSet(ids) \cup ToSet(todo)
        BY <1>5 DEF RegInv, StableInv
    <2>2. CASE i = Head(todo) /\ i \in Keys(t)
        BY <1>3, <1>4, <2>2
    <2>3. i \in Keys(t)
        BY <1>5 DEF RegInv, ChainInv, StableInv
    <2> QED BY <1>2, <1>16, <2>1, <2>2, <2>3
<1>21. StableInv'
    BY <1>5, <1>8, <1>9, <1>10, <1>20 DEF RegInv, StableInv, Keys
<1> QED BY <1>11, <1>12, <1>19, <1>21 DEF RegInv


(***************************************************************************)
(* The page is returned and joined to the earlier ones.                    *)
(***************************************************************************)
LEMMA RegByScanDone ==
    ASSUME RegInv, NEW l \in Listeners, ScanDone(l)
    PROVE  RegInv'
<1> DEFINE ids == req[l].ids
           tag == IF ids = <<>> THEN 0 ELSE Last(ids)
           got == chain.got \o ids
<1>0. /\ req \in [Listeners -> Requests] /\ req[l] \in Requests
      /\ Ids \in SUBSET Nat /\ \A i \in Ids : i # 0
      /\ chain \in [table : Tables \cup {"none"}, pages : Nat, tag : Nat, got : Seq(Ids),
                    stable : SUBSET Ids, open : BOOLEAN]
    BY RegistriesAssumption DEF RegInv, RegTypeInv
<1>1. ids \in Seq(Ids) /\ req[l].todo = <<>>
    BY <1>0, RequestFields DEF ScanDone
<1>2. /\ Scanning(l) /\ Up(l) /\ PageOrdered(l) /\ Ascending(chain.got)
      /\ \A k \in Listeners : Scanning(k) => k = l
    BY DEF ScanDone, Scanning, Up, RegInv, ChainInv
<1>3. Ascending(ids) /\ Below(ToSet(chain.got), ToSet(ids))
    BY <1>2 DEF PageOrdered
<1>4. got \in Seq(Ids) /\ ToSet(got) = ToSet(chain.got) \cup ToSet(ids) /\ Ascending(got)
    BY <1>0, <1>1, <1>2, <1>3, AscendingConcat
<1>5. ids # <<>> => /\ Last(ids) \in ToSet(ids) /\ Last(ids) \in Ids
                    /\ \A x \in ToSet(ids) : x <= Last(ids)
    BY <1>0, <1>1, <1>3, AscendingLast
<1>6. ToSet(chain.got) \subseteq Nat /\ ToSet(ids) \subseteq Nat
    BY <1>0, <1>1, ToSetBound
<1>7. tag \in Nat
    BY <1>0, <1>5
<1>8. tag # 0 => \A x \in ToSet(got) : x <= tag
    <2> SUFFICES ASSUME ids # <<>>, NEW x \in ToSet(chain.got) \cup ToSet(ids)
                 PROVE  x <= Last(ids)
        BY <1>4
    <2>1. CASE x \in ToSet(ids)
        BY <1>5, <2>1
    <2>2. CASE x \in ToSet(chain.got)
        <3>1. x < Last(ids) /\ x \in Nat /\ Last(ids) \in Nat
            BY <1>0, <1>3, <1>5, <1>6, <2>2 DEF Below
        <3> QED BY <3>1
    <2> QED BY <2>1, <2>2
<1>9. chain' = [chain EXCEPT !.got = got, !.tag = tag, !.open = FALSE]
    BY DEF ScanDone
<1> HIDE DEF tag, got
<1>10. /\ chain'.open = FALSE /\ chain'.table = chain.table /\ chain'.pages = chain.pages
       /\ chain'.tag = tag /\ chain'.got = got /\ chain'.stable = chain.stable
       /\ chain' \in [table : Tables \cup {"none"}, pages : Nat, tag : Nat, got : Seq(Ids),
                      stable : SUBSET Ids, open : BOOLEAN]
    BY <1>0, <1>4, <1>7, <1>9
<1>11. /\ req' = [req EXCEPT ![l] = Idle] /\ Idle \in Requests /\ Idle.op = "idle"
       /\ UNCHANGED <<requests, submitted, receipts, workers, registries>>
    BY RequestKinds DEF ScanDone, Idle
<1>12. req'[l] = Idle /\ \A k \in Listeners : ~ Scanning(k)'
    BY <1>0, <1>2, <1>11 DEF Scanning
<1>13. RegTypeInv'
    BY <1>0, <1>10, <1>11 DEF RegInv, RegTypeInv
<1>14. BootInv'
    BY <1>2, <1>11, StaysUp
<1>15. ChainInv'
    BY <1>4, <1>8, <1>10, <1>12 DEF ChainInv
<1>16. chain.stable \cap Matching \subseteq ToSet(got)
    <2>1. ToSet(<<>>) = {}
        BY DEF ToSet
    <2> QED BY <1>1, <1>2, <1>4, <2>1 DEF RegInv, StableInv
<1>17. StableInv'
    BY <1>10, <1>11, <1>12, <1>16 DEF RegInv, StableInv, Keys
<1> QED BY <1>13, <1>14, <1>15, <1>17 DEF RegInv

(***************************************************************************)
(* Every step keeps the invariant.                                         *)
(***************************************************************************)
LEMMA NextReg == RegInv /\ [RegNext]_regVars => RegInv'
<1> SUFFICES ASSUME RegInv, [RegNext]_regVars PROVE RegInv'
    OBVIOUS
<1>1. CASE UNCHANGED regVars
    <2> USE DEF regVars
    <2>1. RegTypeInv' /\ BootInv'
        BY <1>1 DEF RegInv, RegTypeInv, BootInv, Up
    <2>2. ChainInv'
        BY <1>1 DEF RegInv, ChainInv, PageOrdered, Scanning
    <2>3. StableInv'
        BY <1>1 DEF RegInv, StableInv, Scanning, Keys
    <2> QED BY <2>1, <2>2, <2>3 DEF RegInv
<1> QED BY <1>1, RegByRequest, RegByBoot, RegByTables, RegByLookUp, RegByScanGet,
           RegByScanDone DEF RegNext

(***************************************************************************)
(* However many listeners boot beside each other, each of them emptying    *)
(* the registries table before it sets its entry: once all are up the      *)
(* table holds the entry and no leftover.                                  *)
(***************************************************************************)
THEOREM BootLeavesRegistry ==
    ASSUME Listeners # {} PROVE RegSpec => []RegistryPublished
<1>1. RegInv => RegistryPublished
    <2> SUFFICES ASSUME RegInv, \A l \in Listeners : Up(l) PROVE registries = {"regid"}
        BY DEF RegistryPublished, Up
    <2>1. "regid" \in registries /\ "other" \notin registries
        BY DEF RegInv, BootInv
    <2> QED BY <2>1 DEF RegInv, RegTypeInv, Entries
<1> QED BY <1>1, InitReg, NextReg, PTL DEF RegSpec

(***************************************************************************)
(* A chain of lookup pages returns ids in ascending order and so none of   *)
(* them twice, for any number of pages, listeners and ids, and whatever is *)
(* purged and created again between two pages.                             *)
(***************************************************************************)
THEOREM PagesAscend == RegSpec => []ChainAscending
<1>1. RegInv => ChainAscending
    BY DEF RegInv, ChainInv, Ascending, ChainAscending
<1> QED BY <1>1, InitReg, NextReg, PTL DEF RegSpec

(***************************************************************************)
(* A finished chain of pages has returned every worker or receipt that     *)
(* meets the criteria and was there all along.                             *)
(***************************************************************************)
THEOREM PagesReturnStableKeys == RegSpec => []StableKeysReturned
<1>1. RegInv => StableKeysReturned
    <2>1. \A s : Range(s) = ToSet(s)
        BY DEF Range, ToSet
    <2> QED BY <2>1 DEF RegInv, StableInv, StableKeysReturned
<1> QED BY <1>1, InitReg, NextReg, PTL DEF RegSpec
=============================================================================
