------------------------ MODULE WorkOrderProtocolProofs ------------------------
(***************************************************************************)
(* Proofs about a work order from the client that encrypts it to the       *)
(* client that checks the answer: the key of an SGX worker is kept as long *)
(* as its sealed data is, and a result that is accepted is the right one.  *)
(***************************************************************************)
EXTENDS WorkOrderProtocol, SequenceLemmas

-----------------------------------------------------------------------------
(* The shape of the records                                                *)

MgrShape == mgr = [pc |-> mgr.pc, key |-> mgr.key, proof |-> mgr.proof, nonce |-> mgr.nonce,
                   uid |-> mgr.uid, order |-> mgr.order, info |-> mgr.info, resp |-> mgr.resp]

CallShape == call = [st |-> call.st, n |-> call.n, quote |-> call.quote, resp |-> call.resp]

WorkerShape == worker = [gen |-> worker.gen, nonce |-> worker.nonce, uid |-> worker.uid]

ClientShape == client = [c \in Clients |-> [pc |-> client[c].pc, view |-> client[c].view,
                                            out |-> client[c].out, req |-> client[c].req]]

Shapes ==
    /\ MgrShape /\ CallShape /\ WorkerShape /\ ClientShape
    /\ kind \in Kinds
    /\ gens \in Nat /\ sealed \in Nat /\ worker.gen \in Nat /\ worker.nonce \in Nat
    /\ mgr.key \in Nat /\ mgr.nonce \in Nat /\ call.n \in Nat
    /\ queue \in Seq(Clients)
    /\ responses = [c \in Clients |-> responses[c]]
    \* The manager waits for the reply of its request and does nothing else.
    /\ call.st # "idle" => kind # "sgx" /\ mgr.pc \in Methods

-----------------------------------------------------------------------------
(* The key pair of an SGX worker                                           *)

\* What is published is the key pair of the sealed data unless that was removed, and
\* a manager that boots uses the sealed pair again; a pair that is not sealed yet
\* was never published.
SgxKeyInv ==
    kind = "sgx" =>
        /\ published # NoKey /\ published \notin erased
               => sealed # 0 /\ published = WorkerKey(sealed)
        /\ mgr.pc \in {"sigrl", "attest", "seal"} =>
               mgr.key # 0 /\ (sealed # 0 => mgr.key = sealed)
        /\ mgr.pc = "publish" => sealed # 0 /\ mgr.key = sealed

-----------------------------------------------------------------------------
(* The orders                                                              *)

Submitted(c) == client[c].pc \in {"waiting", "accepted", "rejected", "failed"}

Items(c) == [index : Nat, key : ItemKeys, data : [by : {NoKey, SessionKey(c)}, of : {c} \X Nat]]

\* The items a client adds, and an item without a key is plain.
Itemized(c, items) ==
    /\ items \in Seq(Items(c))
    /\ \A i \in 1..Len(items) : items[i].key = "-" => items[i].data.by = NoKey

\* A result is the output on the data the client hashed.
RightResult(c, resp) ==
    \/ resp.error
    \/ kind = "graphene" /\ EncryptedAfterPlain(client[c].req)
    \/ resp.result.outData.of = HashedData(client[c].req)

\* The keys the KME made are those of the order the manager holds.
RightKeys(req, info) ==
    info.keys.input_data_keys =
        [i \in 1..Len(req.items) |-> item_key(req.items[i], req.session.of)]

OrderInv ==
    /\ \A c \in Clients : Itemized(c, client[c].req.items)
    /\ \A i \in 1..Len(queue) : Submitted(queue[i])
    /\ mgr.pc \in {"preprocess", "execute", "persist"} =>
           mgr.order \in Clients /\ Submitted(mgr.order)
    /\ mgr.pc = "execute" /\ kind = "wpe" => RightKeys(client[mgr.order].req, mgr.info[1])
    /\ mgr.pc = "persist" => RightResult(mgr.order, mgr.resp[1])
    /\ mgr.pc = "execute" /\ call.st = "replied" => RightResult(mgr.order, call.resp[1])
    /\ \A c \in Clients : responses[c] # <<>> => Submitted(c) /\ RightResult(c, responses[c][1])
    /\ AcceptedResultCorrect

(***************************************************************************)
(* What a Graphene worker makes of a request keeps its shape.              *)
(***************************************************************************)
LEMMA HandledShape ==
    ASSUME Shapes, call.st = "sent"
    PROVE  /\ Handled[1] = [gen |-> Handled[1].gen, nonce |-> Handled[1].nonce,
                            uid |-> Handled[1].uid]
           /\ Handled[1].gen \in Nat /\ Handled[1].nonce \in Nat
           /\ Handled[2] = [st |-> "idle", n |-> Handled[2].n, quote |-> Handled[2].quote,
                            resp |-> Handled[2].resp]
           /\ Handled[2].n \in Nat
<1> USE DEF Shapes, WorkerShape, Idle
<1>0. mgr.pc \in Methods
    OBVIOUS
<1>1. CASE kind = "graphene" /\ mgr.pc = "signup"
    <2>1. Handled = process_worker_signup(worker, NoKey)
        BY <1>1 DEF Handled, handle_methods
    <2> QED BY <2>1 DEF process_worker_signup, generate_worker_signup
<1>2. CASE kind = "graphene" /\ mgr.pc # "signup"
    <2>1. Handled = <<worker, [Idle EXCEPT !.resp =
             <<process_work_order(client[mgr.order].req, WorkerKey(worker.gen))>>]>>
        BY <1>2 DEF Handled, handle_methods
    <2> QED BY <2>1
<1>3. CASE kind # "graphene" /\ mgr.pc = "nonce"
    <2>1. Handled = generate_nonce(worker)
        BY <1>3 DEF Handled, handle_wpe_methods
    <2> DEFINE g == gens + 1
    <2>2. g \in Nat
        OBVIOUS
    <2>3. Handled = <<[worker EXCEPT !.nonce = g], [Idle EXCEPT !.n = g]>>
        BY <2>1 DEF generate_nonce
    <2> HIDE DEF g
    <2> QED BY <2>2, <2>3
<1>4. CASE kind # "graphene" /\ mgr.pc = "verify"
    <2>1. Handled = verify_uid_signature(worker, mgr.uid)
        BY <1>4 DEF Handled, handle_wpe_methods
    <2> QED BY <2>1 DEF verify_uid_signature
<1>5. CASE kind # "graphene" /\ mgr.pc = "signup"
    <2>1. Handled = process_worker_signup(worker, mgr.uid)
        BY <1>5 DEF Handled, handle_wpe_methods
    <2> QED BY <2>1 DEF process_worker_signup, generate_worker_signup
<1>6. CASE kind # "graphene" /\ mgr.pc = "execute"
    <2>1. Handled = <<worker, [Idle EXCEPT !.resp =
                <<process_wpe_work_order(client[mgr.order].req, mgr.info[1],
                                         WorkerKey(worker.gen), worker.uid)>>]>>
        BY <1>6 DEF Handled, handle_wpe_methods
    <2> QED BY <2>1
<1> QED BY <1>0, <1>1, <1>2, <1>3, <1>4, <1>5, <1>6 DEF Methods

(***************************************************************************)
(* The shapes hold at first, and every step keeps them.                    *)
(***************************************************************************)
LEMMA ShapesInit == ProtocolInit => Shapes
<1> SUFFICES ASSUME ProtocolInit PROVE Shapes
    OBVIOUS
<1> USE DEF ProtocolInit
<1>1. MgrShape /\ CallShape
    BY DEF Down, Idle, MgrShape, CallShape
<1>2. gens \in Nat /\ sealed \in Nat /\ WorkerShape /\ worker.gen \in Nat /\ worker.nonce \in Nat
    BY DEF NoWorker, WorkerShape
<1>3. ClientShape
    BY DEF ClientShape
<1>4. mgr.key \in Nat /\ mgr.nonce \in Nat /\ call.n \in Nat /\ call.st = "idle"
    BY DEF Down, Idle
<1> QED BY <1>1, <1>2, <1>3, <1>4 DEF Shapes

(***************************************************************************)
(* A client's step changes its own record, where it is and one field more. *)
(***************************************************************************)
LEMMA ClientUpdate ==
    ASSUME ClientShape, NEW c \in Clients, NEW p, NEW v,
           \/ client' = [client EXCEPT ![c].pc = p]
           \/ client' = [client EXCEPT ![c].pc = p, ![c].view = v]
           \/ client' = [client EXCEPT ![c].pc = p, ![c].out = v]
           \/ client' = [client EXCEPT ![c].pc = p, ![c].req = v]
    PROVE  /\ ClientShape'
           /\ client'[c].pc = p
           /\ \A d \in Clients \ {c} : client'[d] = client[d]
<1>0. /\ DOMAIN client = Clients
      /\ client[c] = [pc |-> client[c].pc, view |-> client[c].view,
                      out |-> client[c].out, req |-> client[c].req]
    BY DEF ClientShape
<1>1. /\ DOMAIN client' = Clients
      /\ client' = [d \in Clients |-> client'[d]]
      /\ \A d \in Clients \ {c} : client'[d] = client[d]
    BY DEF ClientShape
<1>2. CASE client' = [client EXCEPT ![c].pc = p]
    <2>1. client'[c] = [client[c] EXCEPT !.pc = p]
        BY ONLY <1>0, <1>2, c \in Clients
    <2>2. client'[c] = [pc |-> p, view |-> client[c].view, out |-> client[c].out,
                        req |-> client[c].req]
        BY ONLY <1>0, <2>1
    <2> QED BY <1>1, <2>2 DEF ClientShape
<1>3. CASE client' = [client EXCEPT ![c].pc = p, ![c].view = v]
    <2>1. client'[c] = [[client[c] EXCEPT !.pc = p] EXCEPT !.view = v]
        BY ONLY <1>0, <1>3, c \in Clients
    <2>2. client'[c] = [pc |-> p, view |-> v, out |-> client[c].out, req |-> client[c].req]
        BY ONLY <1>0, <2>1
    <2> QED BY <1>1, <2>2 DEF ClientShape
<1>4. CASE client' = [client EXCEPT ![c].pc = p, ![c].out = v]
    <2>1. client'[c] = [[client[c] EXCEPT !.pc = p] EXCEPT !.out = v]
        BY ONLY <1>0, <1>4, c \in Clients
    <2>2. client'[c] = [pc |-> p, view |-> client[c].view, out |-> v, req |-> client[c].req]
        BY ONLY <1>0, <2>1
    <2> QED BY <1>1, <2>2 DEF ClientShape
<1>5. CASE client' = [client EXCEPT ![c].pc = p, ![c].req = v]
    <2>1. client'[c] = [[client[c] EXCEPT !.pc = p] EXCEPT !.req = v]
        BY ONLY <1>0, <1>5, c \in Clients
    <2>2. client'[c] = [pc |-> p, view |-> client[c].view, out |-> client[c].out, req |-> v]
        BY ONLY <1>0, <2>1
    <2> QED BY <1>1, <2>2 DEF ClientShape
<1> QED BY <1>2, <1>3, <1>4, <1>5

LEMMA ShapesClient ==
    ASSUME Shapes, NEW c \in Clients, ClientStep(c)
    PROVE  Shapes'
<1> USE DEF Shapes, MgrShape, CallShape, WorkerShape, workerVars, keyVars, tableVars
<1>1. CASE get_worker_details(c)
    <2>1. ClientShape'
        BY <1>1, ClientUpdate DEF get_worker_details
    <2> QED BY <1>1, <2>1 DEF get_worker_details
<1>2. CASE CreateOrder(c)
    <2>1. ClientShape'
        BY <1>2, ClientUpdate DEF CreateOrder
    <2> QED BY <1>2, <2>1 DEF CreateOrder
<1>3. CASE submit_work_order(c)
    <2>1. CASE SchemaAccepts(client[c].req)
        <3>1. queue' = Append(queue, c) /\ client' = [client EXCEPT ![c].pc = "waiting"]
            BY <1>3, <2>1 DEF submit_work_order
        <3>2. queue' \in Seq(Clients)
            BY <3>1, AppendProperties
        <3>3. ClientShape'
            BY <3>1, ClientUpdate
        <3> QED BY <1>3, <3>2, <3>3 DEF submit_work_order
    <2>2. CASE ~SchemaAccepts(client[c].req)
        <3>1. queue' = queue /\ client' = [client EXCEPT ![c].pc = "refused"]
            BY <1>3, <2>2 DEF submit_work_order
        <3>2. ClientShape'
            BY <3>1, ClientUpdate
        <3> QED BY <1>3, <3>1, <3>2 DEF submit_work_order
    <2> QED BY <2>1, <2>2
<1>4. CASE get_work_order_result(c)
    <2>1. \/ \E p, o : client' = [client EXCEPT ![c].pc = p, ![c].out = o]
          \/ client' = [client EXCEPT ![c].pc = "failed"]
        BY <1>4 DEF get_work_order_result
    <2>2. ClientShape'
        BY <2>1, ClientUpdate
    <2> QED BY <1>4, <2>2 DEF get_work_order_result
<1> QED BY <1>1, <1>2, <1>3, <1>4 DEF ClientStep

LEMMA ShapesManager ==
    ASSUME Shapes, ManagerStep
    PROVE  Shapes'
<1> USE DEF Shapes, MgrShape, CallShape, WorkerShape, ClientShape, workerVars, keyVars,
            tableVars, GoTo, Methods
<1>1. CASE ManagerStart
    <2>1. /\ UNCHANGED <<kind, gens, worker, call, tableVars, client>> /\ mgr.pc = "down"
          /\ sealed' \in Nat
        BY <1>1 DEF ManagerStart, RemoveSealed
    <2>2. \E pc : mgr' = [mgr EXCEPT !.pc = pc]
        BY <1>1 DEF ManagerStart
    <2> QED BY <2>1, <2>2
<1>2. CASE InitEnclave
    <2> DEFINE g == IF sealed = 0 THEN gens + 1 ELSE sealed
    <2>1. g \in Nat /\ gens' \in Nat
        BY <1>2 DEF InitEnclave
    <2>2. worker' = [worker EXCEPT !.gen = g] /\ mgr' = [mgr EXCEPT !.pc = "sigrl", !.key = g]
        BY <1>2 DEF InitEnclave
    <2>3. call.st = "idle"
        BY <1>2 DEF InitEnclave
    <2> HIDE DEF g
    <2> QED BY <1>2, <2>1, <2>2, <2>3 DEF InitEnclave
<1>3. CASE WriteSealed \/ Publish
    BY <1>3 DEF WriteSealed, Publish
<1>4. CASE CleanUp
    BY <1>4 DEF CleanUp
<1>5. ASSUME NEW answer \in Answers,
             UpdateSigRl(answer) \/ AttestSgx(answer) \/ AttestGraphene(answer) \/ AttestWpe(answer)
      PROVE  Shapes'
    <2> USE DEF Exit, NoWorker, Down
    <2>1. CASE UpdateSigRl(answer)
        <3>1. \/ mgr' = [mgr EXCEPT !.pc = "attest"] /\ worker' = worker
              \/ mgr' = mgr /\ worker' = worker
              \/ Exit
            <4>1. answer \in {"OK", "REFUSED", "UNREACHABLE"}
                BY <2>1 DEF UpdateSigRl, Answers
            <4>2. CASE answer = "OK"
                BY <2>1, <4>2 DEF UpdateSigRl, get_signature_revocation_lists
            <4>3. CASE answer = "REFUSED"
                BY <2>1, <4>3 DEF UpdateSigRl, get_signature_revocation_lists
            <4>4. CASE answer = "UNREACHABLE"
                BY <2>1, <4>4 DEF UpdateSigRl, get_signature_revocation_lists
            <4> QED BY <4>1, <4>2, <4>3, <4>4
        <3> QED BY <2>1, <3>1 DEF UpdateSigRl
    <2>2. CASE AttestSgx(answer)
        BY <2>2 DEF AttestSgx
    <2>3. CASE AttestGraphene(answer) \/ AttestWpe(answer)
        <3>1. \/ mgr' = Down
              \/ \E p, q : mgr' = [mgr EXCEPT !.pc = p, !.proof = q]
            BY ONLY <2>3, Zenon DEF AttestGraphene, AttestWpe, Attested
        <3>2. call.st = "idle" /\ UNCHANGED <<kind, workerVars, call, tableVars, client>>
            BY <2>3 DEF AttestGraphene, AttestWpe, Attested
        <3>3. CASE mgr' = Down
            BY <3>2, <3>3
        <3>4. ASSUME NEW p, NEW q, mgr' = [mgr EXCEPT !.pc = p, !.proof = q] PROVE Shapes'
            BY <3>2, <3>4
        <3> QED BY <3>1, <3>3, <3>4
    <2> QED BY <1>5, <2>1, <2>2, <2>3
<1>6. CASE GetUniqueKey
    BY <1>6 DEF GetUniqueKey
<1>7. CASE Register
    BY <1>7 DEF Register, Exit, NoWorker, Down
<1>8. CASE PopOrder
    <2>1. queue' \in Seq(Clients)
        BY <1>8 DEF PopOrder
    <2> QED BY <1>8, <2>1 DEF PopOrder
<1>9. CASE Preprocess
    BY <1>9 DEF Preprocess
<1>10. CASE ExecuteInEnclave
    BY <1>10 DEF ExecuteInEnclave
<1>11. CASE Persist
    BY <1>11 DEF Persist
<1>12. CASE SendRequest
    BY <1>12 DEF SendRequest
<1>13. CASE ReceiveNonce \/ ReceiveVerification
    <2>1. /\ call' = Idle /\ UNCHANGED <<kind, workerVars, tableVars, client>>
          /\ \/ mgr' = [mgr EXCEPT !.pc = "unique", !.nonce = call.n]
             \/ mgr' = [mgr EXCEPT !.pc = "signup"]
             \/ mgr' = Down
        BY <1>13 DEF ReceiveNonce, ReceiveVerification, Received
    <2>2. CASE mgr' = [mgr EXCEPT !.pc = "unique", !.nonce = call.n]
        BY <2>1, <2>2 DEF Idle
    <2>3. CASE mgr' = [mgr EXCEPT !.pc = "signup"]
        BY <2>1, <2>3 DEF Idle
    <2>4. CASE mgr' = Down
        BY <2>1, <2>4 DEF Idle, Down
    <2> QED BY <2>1, <2>2, <2>3, <2>4
<1>14. CASE ReceiveSignup \/ ReceiveWpeSignup
    <2>1. /\ call' = Idle /\ UNCHANGED <<kind, workerVars, tableVars, client>>
          /\ mgr' = [mgr EXCEPT !.pc = "attest", !.key = call.n, !.proof = call.quote]
        BY <1>14 DEF ReceiveSignup, ReceiveWpeSignup, Received
    <2> QED BY <2>1 DEF Idle
<1>15. CASE ReceiveResult \/ ReceiveWpeResult
    <2>1. /\ call' = Idle /\ UNCHANGED <<kind, workerVars, tableVars, client>>
          /\ mgr' = [mgr EXCEPT !.pc = "persist", !.resp = call.resp]
        BY <1>15 DEF ReceiveResult, ReceiveWpeResult, Received
    <2> QED BY <2>1 DEF Idle
<1> QED BY <1>1, <1>2, <1>3, <1>4, <1>5, <1>6, <1>7, <1>8, <1>9, <1>10, <1>11, <1>12,
           <1>13, <1>14, <1>15 DEF ManagerStep

LEMMA ShapesStep ==
    ASSUME Shapes, [ProtocolNext]_vars
    PROVE  Shapes'
<1> USE DEF Shapes, MgrShape, CallShape, WorkerShape, ClientShape, workerVars, keyVars, tableVars
<1>1. CASE WorkerServe
    <2>1. /\ worker' = Handled[1]
          /\ call' = [Handled[2] EXCEPT !.st = "replied"]
          /\ gens' \in Nat /\ call.st = "sent"
        BY <1>1 DEF WorkerServe
    <2> QED BY <1>1, <2>1, HandledShape DEF WorkerServe
<1>2. CASE WorkerRestart
    <2> DEFINE g == gens + 1
    <2>1. g \in Nat /\ gens' = g /\ worker' = [NoWorker EXCEPT !.gen = g]
        BY <1>2 DEF WorkerRestart
    <2> HIDE DEF g
    <2> QED BY <1>2, <2>1 DEF WorkerRestart, NoWorker, Idle
<1>3. CASE ManagerCrash
    <2>1. WorkerShape' /\ worker'.gen \in Nat /\ worker'.nonce \in Nat
        BY <1>3, HandledShape DEF ManagerCrash, NoWorker
    <2>2. gens' \in Nat
        BY <1>3, <2>1 DEF ManagerCrash
    <2> QED BY <1>3, <2>1, <2>2 DEF ManagerCrash, Down, Idle
<1>4. CASE UNCHANGED vars
    BY <1>4 DEF vars
<1> QED BY <1>1, <1>2, <1>3, <1>4, ShapesClient, ShapesManager DEF ProtocolNext

-----------------------------------------------------------------------------
(* The key pair of an SGX worker stays                                     *)

(***************************************************************************)
(* Sealing comes before publishing, and a restart that finds the sealed    *)
(* data uses it: a published key pair is replaced only when it was erased. *)
(***************************************************************************)
LEMMA SgxKeyStep ==
    ASSUME Shapes, SgxKeyInv, [ProtocolNext]_vars
    PROVE  /\ SgxKeyInv'
           /\ kind = "sgx" /\ published # NoKey /\ published \notin erased
                  => published' = published
<1> USE DEF SgxKeyInv, Shapes, MgrShape, workerVars, keyVars, tableVars, GoTo
<1>0. kind' = kind
    BY DEF ProtocolNext, ClientStep, ManagerStep, get_worker_details, CreateOrder,
           submit_work_order, get_work_order_result, ManagerStart, InitEnclave, WriteSealed,
           Publish, CleanUp, UpdateSigRl, AttestSgx, AttestGraphene, AttestWpe, Attested,
           GetUniqueKey, Register, PopOrder, Preprocess, ExecuteInEnclave, Persist,
           SendRequest, ReceiveNonce, ReceiveVerification, ReceiveSignup, ReceiveWpeSignup,
           ReceiveResult, ReceiveWpeResult, Received, WorkerServe, WorkerRestart,
           ManagerCrash, vars
<1> SUFFICES ASSUME kind = "sgx"
             PROVE  /\ SgxKeyInv'
                    /\ published # NoKey /\ published \notin erased => published' = published
    BY <1>0
<1>1. CASE \/ UNCHANGED vars \/ \E c \in Clients : ClientStep(c)
           \/ WorkerServe \/ SendRequest \/ WorkerRestart
    <2>1. UNCHANGED <<mgr, published, sealed, erased>>
        BY <1>1 DEF vars, ClientStep, get_worker_details, CreateOrder, submit_work_order,
               get_work_order_result, WorkerServe, SendRequest, WorkerRestart
    <2> QED BY <1>0, <2>1
<1>2. CASE ManagerCrash
    BY <1>2 DEF ManagerCrash, Down
<1>3. CASE ManagerStart
    <2>1. /\ published' = published /\ mgr'.pc = "init"
          /\ \/ erased' = erased /\ sealed' = sealed
             \/ erased' = erased \cup {WorkerKey(sealed)}
        BY <1>3 DEF ManagerStart, RemoveSealed
    <2> QED BY <1>0, <2>1
<1>4. CASE InitEnclave
    <2> DEFINE g == IF sealed = 0 THEN gens + 1 ELSE sealed
    <2>1. /\ mgr'.pc = "sigrl" /\ mgr'.key = g /\ UNCHANGED <<published, sealed, erased>>
          /\ g # 0 /\ (sealed # 0 => g = sealed)
        BY <1>4 DEF InitEnclave, WorkerShape
    <2> HIDE DEF g
    <2> QED BY <1>0, <2>1
<1>5. CASE WriteSealed
    BY <1>5 DEF WriteSealed
<1>6. CASE Publish
    BY <1>6 DEF Publish
<1>7. ASSUME NEW answer \in Answers, UpdateSigRl(answer) \/ AttestSgx(answer)
      PROVE  SgxKeyInv' /\ published' = published
    <2>1. /\ UNCHANGED <<published, sealed, erased>>
          /\ mgr.pc \in {"sigrl", "attest"}
          /\ \/ mgr'.key = mgr.key /\ mgr'.pc \in {"sigrl", "attest", "seal"}
             \/ mgr' = Down
        <3>1. CASE UpdateSigRl(answer)
            <4>1. answer \in {"OK", "REFUSED", "UNREACHABLE"}
                BY <3>1 DEF UpdateSigRl, Answers
            <4>2. CASE answer = "OK"
                BY <3>1, <4>2 DEF UpdateSigRl, get_signature_revocation_lists
            <4>3. CASE answer = "REFUSED"
                BY <3>1, <4>3 DEF UpdateSigRl, get_signature_revocation_lists
            <4>4. CASE answer = "UNREACHABLE"
                BY <3>1, <4>4 DEF UpdateSigRl, get_signature_revocation_lists, Exit
            <4> QED BY <4>1, <4>2, <4>3, <4>4
        <3>2. CASE AttestSgx(answer)
            BY <3>2 DEF AttestSgx, Exit
        <3> QED BY <1>7, <3>1, <3>2
    <2> QED BY <1>0, <2>1 DEF Down
<1>8. CASE \/ CleanUp \/ GetUniqueKey \/ Register \/ PopOrder \/ Preprocess
           \/ ExecuteInEnclave \/ Persist
    <2>1. /\ UNCHANGED <<published, sealed, erased>>
          /\ mgr'.pc \notin {"sigrl", "attest", "seal", "publish"}
        <3>1. CASE CleanUp \/ GetUniqueKey
            BY <3>1 DEF CleanUp, GetUniqueKey
        <3>5. CASE Register
            <4>1. UNCHANGED <<published, sealed, erased>> /\ (mgr' = Down \/ mgr' = [mgr EXCEPT !.pc = "serve"])
                BY <3>5 DEF Register, Exit
            <4> QED BY <4>1 DEF Down
        <3>2. CASE PopOrder \/ ExecuteInEnclave
            BY <3>2 DEF PopOrder, ExecuteInEnclave
        <3>3. CASE Preprocess
            BY <3>3 DEF Preprocess
        <3>4. CASE Persist
            BY <3>4 DEF Persist
        <3> QED BY <1>8, <3>1, <3>2, <3>3, <3>4, <3>5
    <2> QED BY <1>0, <2>1
<1>9. CASE \/ ReceiveNonce \/ ReceiveVerification \/ ReceiveSignup \/ ReceiveWpeSignup
           \/ ReceiveResult \/ ReceiveWpeResult
    BY <1>9 DEF ReceiveNonce, ReceiveVerification, ReceiveSignup, ReceiveWpeSignup,
           ReceiveResult, ReceiveWpeResult, Received
<1>10. CASE \E answer \in Answers : AttestGraphene(answer) \/ AttestWpe(answer)
    BY <1>10 DEF AttestGraphene, AttestWpe
<1> QED BY <1>1, <1>2, <1>3, <1>4, <1>5, <1>6, <1>7, <1>8, <1>9, <1>10
        DEF ProtocolNext, ManagerStep

(***************************************************************************)
(* Through any number of crashes, failed attestations and restarts, some   *)
(* of which remove the sealed data, the published key pair of an SGX       *)
(* worker is replaced only after its own sealed data was removed           *)
(* (PublishedKeyKept): the sealed data is written before the keys are      *)
(* published, and read back before new ones are made.                      *)
(***************************************************************************)
THEOREM KeyChangesOnlyWhenErased == ProtocolSpec => PublishedKeyKept
<1>1. ProtocolInit => Shapes /\ SgxKeyInv
    BY ShapesInit DEF ProtocolInit, SgxKeyInv, Down
<1>2. Shapes /\ SgxKeyInv /\ [ProtocolNext]_vars => (Shapes /\ SgxKeyInv)'
    BY ShapesStep, SgxKeyStep
<1>3. Shapes /\ SgxKeyInv /\ [ProtocolNext]_vars
        => [kind = "sgx" /\ published # NoKey /\ published \notin erased
                => published' = published]_vars
    BY SgxKeyStep
<1> QED BY <1>1, <1>2, <1>3, PTL DEF ProtocolSpec, PublishedKeyKept

-----------------------------------------------------------------------------
(* What is accepted is right                                               *)

(***************************************************************************)
(* The calls that build a work order add well-formed items, whatever the   *)
(* program: the recursion over the calls has a solution, and each call     *)
(* keeps the items well formed.                                            *)
(***************************************************************************)
LEMMA BuiltItemized ==
    ASSUME NEW c \in Clients, NEW k, NEW program, program.calls \in Seq(Calls)
    PROVE  Itemized(c, create_work_order_params(c, k, program).items)
<1> DEFINE calls == program.calls
           n == Len(calls)
           first == create_request(c, k, program.workload)
           ItemSeqs == {items \in Seq(Items(c)) : Itemized(c, items)}
           hashes == {NoHash} \cup {encrypt_data(<<<<c, program.workload>>, calculate_datahash(items)>>,
                                                 SessionKey(c)) : items \in ItemSeqs}
           V == [client : {c}, workload : {program.workload}, session : {first.session},
                 items : ItemSeqs, hash : hashes]
           Step(i, req) == IF calls[i] = "hash" THEN add_encrypted_request_hash(req)
                           ELSE add_in_data(req, calls[i])
           Fix(f) == f = [i \in 0..n |-> IF i = 0 THEN first
                              ELSE IF calls[i] = "hash" THEN add_encrypted_request_hash(f[i - 1])
                              ELSE add_in_data(f[i - 1], calls[i])]
<1>0. n \in Nat /\ \A i \in 1..n : calls[i] \in Calls
    OBVIOUS
<1>1. first \in V
    <2>1. <<>> \in ItemSeqs
        BY DEF Itemized
    <2>2. first.session = encrypt_session_key(c, k)
        BY DEF create_request
    <2> HIDE DEF ItemSeqs, hashes
    <2>3. first = [client |-> c, workload |-> program.workload, session |-> first.session,
                   items |-> <<>>, hash |-> NoHash]
        BY <2>2 DEF create_request
    <2>4. NoHash \in hashes
        BY DEF hashes
    <2> HIDE DEF first
    <2> QED BY <2>1, <2>3, <2>4
<1>2. ASSUME NEW i \in 1..n, NEW req \in V PROVE Step(i, req) \in V
    <2>1. CASE calls[i] = "hash"
        <3>1. req.client = c /\ req.workload = program.workload /\ req.items \in ItemSeqs
            OBVIOUS
        <3> DEFINE h == encrypt_data(calculate_request_hash(req), SessionKey(req.client))
        <3>2. h = encrypt_data(<<<<c, program.workload>>, calculate_datahash(req.items)>>, SessionKey(c))
            BY <3>1 DEF calculate_request_hash
        <3>3. h \in hashes
            BY <3>1, <3>2
        <3>4. Step(i, req) = [req EXCEPT !.hash = h]
            BY <2>1 DEF add_encrypted_request_hash
        <3> HIDE DEF h, hashes, ItemSeqs, first, Step
        <3> QED BY <3>3, <3>4
    <2>2. CASE calls[i] # "hash"
        <3> DEFINE items == req.items
                   e == calls[i]
                   it == [index |-> Len(items), key |-> e,
                          data |-> encrypt_item(c, <<c, Len(items)>>, e)]
        <3>1. /\ req.client = c /\ items \in Seq(Items(c)) /\ Itemized(c, items) /\ e \in ItemKeys
              /\ Len(items) \in Nat
            BY <1>0, <2>2 DEF Calls
        <3>2. it \in Items(c) /\ (e = "-" => it.data.by = NoKey) /\ it.key = e
            <4>1. encrypt_item(c, <<c, Len(items)>>, e) \in [by : {NoKey, SessionKey(c)}, of : {c} \X Nat]
                BY <3>1 DEF encrypt_item, encrypt_data
            <4>2. e = "-" => encrypt_item(c, <<c, Len(items)>>, e).by = NoKey
                BY DEF encrypt_item, encrypt_data
            <4> QED BY <3>1, <4>1, <4>2 DEF Items
        <3>3. Step(i, req) = [req EXCEPT !.items = Append(items, it)]
            BY <2>2, <3>1 DEF add_in_data, add_data_params
        <3> HIDE DEF items, e, it, Step
        <3>4. Append(items, it) \in ItemSeqs
            <4>1. /\ Append(items, it) \in Seq(Items(c)) /\ Len(Append(items, it)) = Len(items) + 1
                  /\ \A j \in 1..Len(items) : Append(items, it)[j] = items[j]
                  /\ Append(items, it)[Len(items) + 1] = it
                BY <3>1, <3>2, AppendProperties
            <4>2. ASSUME NEW j \in 1..(Len(items) + 1), Append(items, it)[j].key = "-"
                  PROVE  Append(items, it)[j].data.by = NoKey
                <5>1. CASE j = Len(items) + 1
                    BY <3>2, <4>1, <4>2, <5>1
                <5>2. CASE j # Len(items) + 1
                    <6>1. j \in 1..Len(items)
                        BY <3>1, <5>2
                    <6> QED BY <3>1, <4>1, <4>2, <6>1 DEF Itemized
                <5> QED BY <5>1, <5>2
            <4> QED BY <4>1, <4>2 DEF Itemized
        <3> HIDE DEF hashes, ItemSeqs, first
        <3> QED BY <3>3, <3>4
    <2> QED BY <2>1, <2>2
<1> HIDE DEF V, first, ItemSeqs
<1>3. \E f : Fix(f)
    <2> DEFINE S == 0..n
               r == [i \in S |-> i]
               G == [p \in S \X [S -> V] |-> IF p[1] = 0 THEN first ELSE Step(p[1], p[2][p[1] - 1])]
    <2>1. r \in [S -> 0..n]
        OBVIOUS
    <2>2. G \in [S \X [S -> V] -> V]
        <3>1. ASSUME NEW i \in S, NEW f \in [S -> V]
              PROVE  (IF i = 0 THEN first ELSE Step(i, f[i - 1])) \in V
            <4>1. i # 0 => i \in 1..n /\ f[i - 1] \in V
                BY <1>0
            <4> HIDE DEF Step
            <4> QED BY <1>1, <1>2, <4>1
        <3> HIDE DEF Step
        <3> QED BY <3>1
    <2>3. ASSUME NEW i \in S, NEW f \in [S -> V], NEW g \in [S -> V],
                 \A j \in S : r[j] < r[i] => f[j] = g[j]
          PROVE  G[<<i, f>>] = G[<<i, g>>]
        <3>1. i # 0 => f[i - 1] = g[i - 1]
            <4> SUFFICES ASSUME i # 0 PROVE f[i - 1] = g[i - 1]
                OBVIOUS
            <4>1. i - 1 \in S /\ r[i - 1] < r[i]
                BY <1>0
            <4> QED BY <2>3, <4>1
        <3> HIDE DEF Step
        <3>2. G[<<i, f>>] = IF i = 0 THEN first ELSE Step(i, f[i - 1])
            OBVIOUS
        <3>3. G[<<i, g>>] = IF i = 0 THEN first ELSE Step(i, g[i - 1])
            OBVIOUS
        <3> QED BY <3>1, <3>2, <3>3
    <2>4. \E f \in [S -> V] : \A i \in S : f[i] = G[<<i, f>>]
        <3>1. V # {} /\ n \in Nat
            BY <1>0, <1>1
        <3> HIDE DEF S, r, G, n
        <3>2. \A i \in S, f \in [S -> V], g \in [S -> V] :
                  (\A j \in S : r[j] < r[i] => f[j] = g[j]) => G[<<i, f>>] = G[<<i, g>>]
            BY <2>3
        <3>3. IsRecursion(S, V, n, r, G)
            BY ONLY <2>1, <2>2, <3>1, <3>2 DEF IsRecursion
        <3> QED BY ONLY <3>3, RecursiveFunction
    <2>5. PICK f \in [S -> V] : \A i \in S : f[i] = G[<<i, f>>]
        BY <2>4
    <2>6. \A i \in S : f[i] = IF i = 0 THEN first ELSE Step(i, f[i - 1])
        <3> HIDE DEF Step
        <3> QED BY <2>5
    <2>7. f = [i \in S |-> f[i]]
        OBVIOUS
    <2>8. Fix(f)
        BY <2>6, <2>7
    <2> QED BY <2>8
<1> DEFINE b == CHOOSE f : Fix(f)
<1>4. Fix(b)
    BY <1>3
<1>5. create_work_order_params(c, k, program) = b[n]
    BY DEF create_work_order_params, first
<1> HIDE DEF b
<1>6. ASSUME NEW i \in 0..n, 0..(i - 1) \subseteq {j \in 0..n : b[j] \in V}
      PROVE  i \in {j \in 0..n : b[j] \in V}
    <2>1. CASE i = 0
        BY <1>1, <1>4, <2>1
    <2>2. CASE i # 0
        <3>1. i \in 1..n /\ i - 1 \in 0..(i - 1)
            BY <1>0, <2>2
        <3>2. b[i] = Step(i, b[i - 1])
            BY <1>4, <2>2, <3>1
        <3> HIDE DEF Step, Fix
        <3> QED BY <1>2, <1>6, <3>1, <3>2
    <2> QED BY <2>1, <2>2
<1>7. b[n] \in V
    <2>1. 0..n \subseteq {j \in 0..n : b[j] \in V}
        <3> DEFINE T == {j \in 0..n : b[j] \in V}
        <3>1. 0 \in Nat /\ n \in Nat
            BY <1>0
        <3>2. \A i \in 0..n : 0..(i - 1) \subseteq T => i \in T
            BY <1>6
        <3> HIDE DEF Fix, n, T
        <3>3. 0..n \subseteq T
            BY ONLY <3>1, <3>2, InductionUp
        <3> QED BY <3>3 DEF T
    <2> QED BY <1>0, <2>1
<1> QED BY <1>5, <1>7 DEF V, ItemSeqs

(***************************************************************************)
(* The hash that a worker has verified is over the items of the request.   *)
(***************************************************************************)
LEMMA HashedItems ==
    ASSUME NEW req, req.hash.of = calculate_request_hash(req)
    PROVE  HashedData(req) = Unpack(req.items)
<1> DEFINE h == req.hash.of[2]
<1>1. h = [i \in 1..Len(req.items) |-> <<req.items[i].data, req.items[i].key>>]
    BY DEF calculate_request_hash, calculate_datahash
<1> HIDE DEF h
<1>2. DOMAIN h = 1..Len(req.items) /\ \A i \in 1..Len(req.items) : h[i][1] = req.items[i].data
    BY <1>1
<1>3. HashedData(req) = [i \in DOMAIN h |-> Plain(h[i][1])]
    BY DEF HashedData, h
<1> QED BY <1>2, <1>3 DEF Unpack

(***************************************************************************)
(* Where only plain items are taken as they are, a Graphene worker sees    *)
(* the data in plain.                                                      *)
(***************************************************************************)
LEMMA SeenInPlain ==
    ASSUME NEW c, NEW items, Itemized(c, items),
           \A i \in 1..Len(items) : TakenAsIs(items, i) => items[i].key = "-"
    PROVE  decrypt_work_order_data_json(items) = Unpack(items)
<1>1. ASSUME NEW i \in 1..Len(items), TakenAsIs(items, i)
      PROVE  items[i].data = Plain(items[i].data)
    <2>1. items[i].data.by = NoKey
        BY <1>1 DEF Itemized
    <2>2. items[i].data \in [by : {NoKey, SessionKey(c)}, of : {c} \X Nat]
        <3>1. items[i] \in Items(c)
            BY LenProperties DEF Itemized
        <3> QED BY <3>1 DEF Items
    <2> QED BY <2>1, <2>2 DEF Plain, encrypt_data
<1> QED BY <1>1 DEF decrypt_work_order_data_json, Unpack

(***************************************************************************)
(* The three kinds of worker: a result that is no error is over the data   *)
(* the client hashed.                                                      *)
(***************************************************************************)
LEMMA SgxRight ==
    ASSUME NEW req, NEW k
    PROVE  LET resp == HandleWorkOrderRequest(req, k)
           IN  resp.error \/ resp.result.outData.of = HashedData(req)
<1> DEFINE resp == HandleWorkOrderRequest(req, k)
<1>1. CASE resp = ErrorResponse
    BY <1>1 DEF ErrorResponse
<1>2. CASE resp # ErrorResponse
    <2>1. /\ req.hash.of = calculate_request_hash(req)
          /\ resp = encrypt_and_sign_response(req, Unpack(req.items), req.session.of, k)
        BY <1>2 DEF HandleWorkOrderRequest, verify_work_order_request, execute_workload
    <2> HIDE DEF resp
    <2>2. resp.result.outData.of = Unpack(req.items)
        BY <2>1 DEF encrypt_and_sign_response, create_work_order_response,
               create_response_out_data, encrypt_work_order_data_json, encrypt_data
    <2> QED BY <2>1, <2>2, HashedItems DEF resp
<1> QED BY <1>1, <1>2

LEMMA GrapheneRight ==
    ASSUME NEW c, NEW req, NEW k, Itemized(c, req.items)
    PROVE  LET resp == process_work_order(req, k)
           IN  resp.error \/ EncryptedAfterPlain(req) \/ resp.result.outData.of = HashedData(req)
<1> DEFINE resp == process_work_order(req, k)
           seen == decrypt_work_order_data_json(req.items)
<1> SUFFICES ASSUME ~EncryptedAfterPlain(req)
             PROVE  resp.error \/ resp.result.outData.of = HashedData(req)
    OBVIOUS
<1>1. CASE resp = ErrorResponse
    BY <1>1 DEF ErrorResponse
<1>2. CASE resp # ErrorResponse
    <2>1. /\ req.hash.of = calculate_request_hash(req)
          /\ resp = encrypt_and_sign_response(req, seen, req.session.of, k)
        BY <1>2 DEF process_work_order, verify_work_order_request, execute_workload
    <2>2. seen = Unpack(req.items)
        <3>1. ASSUME NEW i \in 1..Len(req.items), TakenAsIs(req.items, i)
              PROVE  req.items[i].key = "-"
            <4>1. req.items \in Seq(Items(c)) /\ DOMAIN req.items = 1..Len(req.items)
                  /\ Len(req.items) \in Nat
                BY DEF Itemized
            <4>2. PICK j \in 1..i : req.items[j].key = "-"
                BY <3>1 DEF TakenAsIs
            <4>3. j \in DOMAIN req.items /\ i \in DOMAIN req.items /\ (j < i \/ j = i)
                BY <4>1, <4>2
            <4> QED BY <4>2, <4>3 DEF EncryptedAfterPlain
        <3> HIDE DEF resp
        <3> QED BY <3>1, SeenInPlain
    <2> HIDE DEF resp, seen
    <2>3. resp.result.outData.of = seen
        BY <2>1 DEF encrypt_and_sign_response, create_work_order_response,
               create_response_out_data, encrypt_work_order_data_json, encrypt_data
    <2> QED BY <2>1, <2>2, <2>3, HashedItems
<1> QED BY <1>1, <1>2

LEMMA WpeRight ==
    ASSUME NEW c, NEW req, NEW info, NEW k, NEW uid, Itemized(c, req.items), RightKeys(req, info)
    PROVE  LET resp == process_wpe_work_order(req, info, k, uid)
           IN  resp.error \/ resp.result.outData.of = HashedData(req)
<1> DEFINE resp == process_wpe_work_order(req, info, k, uid)
           seen == decrypt_work_order_data_json(req.items)
           order_key == info.keys.wo_key.of
<1>1. CASE resp = ErrorResponse
    BY <1>1 DEF ErrorResponse
<1>2. CASE resp # ErrorResponse
    <2>1. /\ req.hash.of = calculate_request_hash(req)
          /\ process_pre_proc_work_order_keys(info, k, uid)
          /\ resp = create_wpe_response(req, seen, order_key, info)
        BY <1>2 DEF process_wpe_work_order, verify_work_order_request, execute_workload
    <2>2. \A i \in 1..Len(req.items) : req.items[i].key # "-"
        <3>1. \A i \in 1..Len(req.items) : item_key(req.items[i], req.session.of) # NoKey
            BY <2>1 DEF process_pre_proc_work_order_keys, unpack, RightKeys
        <3> QED BY <3>1 DEF item_key
    <2>3. seen = Unpack(req.items)
        <3>1. ASSUME NEW i \in 1..Len(req.items) PROVE ~TakenAsIs(req.items, i)
            <4>1. Len(req.items) \in Nat
                BY DEF Itemized
            <4>2. \A j \in 1..i : j \in 1..Len(req.items)
                BY <4>1
            <4> QED BY <2>2, <4>2 DEF TakenAsIs
        <3> HIDE DEF resp
        <3> QED BY <3>1, SeenInPlain
    <2> HIDE DEF resp, seen, order_key
    <2>4. resp.result.outData.of = seen
        BY <2>1 DEF create_wpe_response, create_work_order_response,
               create_response_out_data, encrypt_work_order_data_json, encrypt_data
    <2> QED BY <2>1, <2>3, <2>4, HashedItems DEF resp
<1> QED BY <1>1, <1>2

(***************************************************************************)
(* A step that leaves the orders, their clients and the place of the       *)
(* manager alone, or moves the manager to a step without an order.         *)
(***************************************************************************)
LEMMA OrderFrame ==
    ASSUME OrderInv, UNCHANGED <<kind, queue, responses, client>>,
           \/ mgr'.pc \notin {"preprocess", "execute", "persist"}
           \/ UNCHANGED <<mgr, call>>
    PROVE  OrderInv'
<1>1. /\ \A c \in Clients : Itemized(c, client'[c].req.items)
      /\ \A i \in 1..Len(queue') : Submitted(queue[i])'
      /\ AcceptedResultCorrect'
      /\ \A c \in Clients : responses'[c] # <<>> => Submitted(c)' /\ RightResult(c, responses[c][1])'
    BY DEF OrderInv, AcceptedResultCorrect, Submitted, RightResult
<1>2. CASE mgr'.pc \notin {"preprocess", "execute", "persist"}
    BY <1>1, <1>2 DEF OrderInv
<1>3. CASE UNCHANGED <<mgr, call>>
    BY <1>1, <1>3 DEF OrderInv, Submitted, RightResult
<1> QED BY <1>2, <1>3

LEMMA OrderClient ==
    ASSUME Shapes, OrderInv, NEW c \in Clients, ClientStep(c)
    PROVE  OrderInv'
<1> USE DEF workerVars, keyVars, tableVars
<1>0. /\ UNCHANGED <<kind, mgr, call, responses>>
      /\ client[c] = [pc |-> client[c].pc, view |-> client[c].view,
                      out |-> client[c].out, req |-> client[c].req]
      /\ DOMAIN client = Clients
    BY DEF ClientStep, get_worker_details, CreateOrder, submit_work_order,
           get_work_order_result, Shapes, ClientShape
<1>1. ASSUME \A d \in Clients \ {c} : client'[d] = client[d],
             Itemized(c, client'[c].req.items),
             Submitted(c) => Submitted(c)' /\ client'[c].req = client[c].req,
             \/ queue' = queue
             \/ queue' = Append(queue, c) /\ Submitted(c)',
             client'[c].pc = "accepted" =>
                 \/ kind = "graphene" /\ EncryptedAfterPlain(client'[c].req)
                 \/ client'[c].out = HashedData(client'[c].req)
      PROVE  OrderInv'
    <2>1. /\ \A d \in Clients : Submitted(d) => Submitted(d)'
          /\ \A d \in Clients : Submitted(d) => client'[d].req = client[d].req
        BY <1>1 DEF Submitted
    <2>2. \A d \in Clients : Itemized(d, client'[d].req.items)
        BY <1>1 DEF OrderInv
    <2>3. \A i \in 1..Len(queue') : Submitted(queue[i])'
        <3>0. queue \in Seq(Clients) /\ \A i \in 1..Len(queue) : queue[i] \in Clients /\ Submitted(queue[i])
            BY DEF Shapes, OrderInv
        <3>1. CASE queue' = queue
            BY <2>1, <3>0, <3>1 DEF Submitted
        <3>2. CASE queue' = Append(queue, c) /\ Submitted(c)'
            <4>1. ASSUME NEW i \in 1..(Len(queue) + 1)
                  PROVE  \/ i \in 1..Len(queue) /\ Append(queue, c)[i] = queue[i]
                         \/ Append(queue, c)[i] = c
                BY <3>0, AppendProperties
            <4>2. Len(queue') = Len(queue) + 1
                BY <3>0, <3>2, AppendProperties
            <4> QED BY <2>1, <3>0, <3>2, <4>1, <4>2 DEF Submitted
        <3> QED BY <1>1, <3>1, <3>2
    <2>4. mgr.pc \in {"preprocess", "execute", "persist"} =>
              mgr.order \in Clients /\ Submitted(mgr.order) /\ Submitted(mgr.order)'
              /\ client'[mgr.order].req = client[mgr.order].req
        BY <1>0, <2>1 DEF OrderInv, Submitted
    <2>5. \A d \in Clients : \A resp : Submitted(d) /\ RightResult(d, resp) => RightResult(d, resp)'
        BY <1>0, <2>1 DEF RightResult
    <2>6. AcceptedResultCorrect'
        BY <1>0, <1>1 DEF OrderInv, AcceptedResultCorrect
    <2>7. \A d \in Clients : responses'[d] # <<>> => Submitted(d)' /\ RightResult(d, responses[d][1])'
        BY <1>0, <2>1, <2>5 DEF OrderInv
    <2>8. /\ mgr.pc = "persist" => RightResult(mgr.order, mgr.resp[1])'
          /\ mgr.pc = "execute" /\ call.st = "replied" => RightResult(mgr.order, call.resp[1])'
        <3>1. ASSUME mgr.pc = "persist" PROVE RightResult(mgr.order, mgr.resp[1])'
            <4>1. RightResult(mgr.order, mgr.resp[1])
                BY <3>1 DEF OrderInv
            <4> QED BY <1>0, <2>4, <3>1, <4>1 DEF RightResult
        <3>2. ASSUME mgr.pc = "execute", call.st = "replied" PROVE RightResult(mgr.order, call.resp[1])'
            <4>1. RightResult(mgr.order, call.resp[1])
                BY <3>2 DEF OrderInv
            <4> QED BY <1>0, <2>4, <3>2, <4>1 DEF RightResult
        <3> QED BY <3>1, <3>2
    <2>9. mgr.pc = "execute" /\ kind = "wpe" => RightKeys(client'[mgr.order].req, mgr.info[1])
        BY <2>4 DEF OrderInv
    <2> QED BY <1>0, <2>2, <2>3, <2>4, <2>6, <2>7, <2>8, <2>9 DEF OrderInv
<1>2. CASE get_worker_details(c)
    <2>1. /\ client'[c].pc = "ready" /\ client'[c].req = client[c].req /\ queue' = queue
          /\ client[c].pc = "start"
          /\ \A d \in Clients \ {c} : client'[d] = client[d]
        BY <1>0, <1>2 DEF get_worker_details
    <2> QED BY <1>1, <2>1 DEF OrderInv, Submitted
<1>3. CASE CreateOrder(c)
    <2>1. PICK program \in Programs[c] : client' = [client EXCEPT ![c].pc = "built",
              ![c].req = create_work_order_params(c, client[c].view, program)]
        BY <1>3 DEF CreateOrder
    <2>2. /\ client'[c].pc = "built" /\ client[c].pc = "ready" /\ queue' = queue
          /\ client'[c].req = create_work_order_params(c, client[c].view, program)
          /\ \A d \in Clients \ {c} : client'[d] = client[d]
        BY <1>0, <1>3, <2>1 DEF CreateOrder
    <2>3. program.calls \in Seq(Calls)
        BY ProtocolAssumption
    <2>4. Itemized(c, client'[c].req.items)
        BY <2>2, <2>3, BuiltItemized
    <2> QED BY <1>1, <2>2, <2>4 DEF Submitted
<1>4. CASE submit_work_order(c)
    <2>1. CASE SchemaAccepts(client[c].req)
        <3>1. /\ client' = [client EXCEPT ![c].pc = "waiting"] /\ queue' = Append(queue, c)
              /\ client[c].pc = "built"
            BY <1>4, <2>1 DEF submit_work_order
        <3>2. /\ client'[c].pc = "waiting" /\ client'[c].req = client[c].req
              /\ \A d \in Clients \ {c} : client'[d] = client[d]
            BY <1>0, <3>1
        <3> QED BY <1>1, <3>1, <3>2 DEF OrderInv, Submitted
    <2>2. CASE ~SchemaAccepts(client[c].req)
        <3>1. /\ client' = [client EXCEPT ![c].pc = "refused"] /\ queue' = queue
              /\ client[c].pc = "built"
            BY <1>4, <2>2 DEF submit_work_order
        <3>2. /\ client'[c].pc = "refused" /\ client'[c].req = client[c].req
              /\ \A d \in Clients \ {c} : client'[d] = client[d]
            BY <1>0, <3>1
        <3> QED BY <1>1, <3>1, <3>2 DEF OrderInv, Submitted
    <2> QED BY <2>1, <2>2
<1>5. CASE get_work_order_result(c)
    <2> DEFINE resp == responses[c][1]
    <2>0. queue' = queue /\ client[c].pc = "waiting"
        BY <1>5 DEF get_work_order_result
    <2>1. CASE responses[c] # <<>> /\ client' = [client EXCEPT ![c].pc = Verdict(c, resp),
                     ![c].out = IF Verdict(c, resp) = "accepted"
                                THEN resp.result.outData.of ELSE <<>>]
        <3>1. /\ client'[c].pc = Verdict(c, resp)
              /\ client'[c].out = IF Verdict(c, resp) = "accepted" THEN resp.result.outData.of ELSE <<>>
              /\ client'[c].req = client[c].req
              /\ \A d \in Clients \ {c} : client'[d] = client[d]
            BY <1>0, <2>1
        <3>2. /\ Verdict(c, resp) \in {"accepted", "rejected", "failed"}
              /\ Verdict(c, resp) = "accepted" => ~resp.error
            BY DEF Verdict
        <3>3. RightResult(c, resp)
            BY <2>1 DEF OrderInv
        <3>4. Itemized(c, client'[c].req.items) /\ Submitted(c)'
            BY <3>1, <3>2 DEF OrderInv, Submitted
        <3>5. client'[c].pc = "accepted" =>
                 \/ kind = "graphene" /\ EncryptedAfterPlain(client'[c].req)
                 \/ client'[c].out = HashedData(client'[c].req)
            BY <3>1, <3>2, <3>3 DEF RightResult
        <3> QED BY <1>1, <2>0, <3>1, <3>4, <3>5
    <2>2. CASE client' = [client EXCEPT ![c].pc = "failed"]
        <3>1. /\ client'[c].pc = "failed" /\ client'[c].req = client[c].req
              /\ \A d \in Clients \ {c} : client'[d] = client[d]
            BY <1>0, <2>2
        <3> QED BY <1>1, <2>0, <3>1 DEF OrderInv, Submitted
    <2> QED BY <1>5, <2>1, <2>2 DEF get_work_order_result
<1> QED BY <1>2, <1>3, <1>4, <1>5 DEF ClientStep

LEMMA OrderManager ==
    ASSUME Shapes, OrderInv, ManagerStep
    PROVE  OrderInv'
<1> USE DEF workerVars, keyVars, tableVars, GoTo
<1>0. MgrShape /\ kind \in {"sgx", "graphene", "wpe"} /\ queue \in Seq(Clients)
      /\ responses = [c \in Clients |-> responses[c]]
      /\ (call.st # "idle" => mgr.pc \in Methods)
    BY ProtocolAssumption DEF Shapes
<1>1. CASE \/ ManagerStart \/ InitEnclave \/ WriteSealed \/ Publish \/ GetUniqueKey
           \/ ReceiveNonce \/ ReceiveVerification \/ ReceiveSignup \/ ReceiveWpeSignup
    <2>1. UNCHANGED <<kind, queue, responses, client>>
        BY <1>1 DEF ManagerStart, InitEnclave, WriteSealed, Publish, GetUniqueKey,
               ReceiveNonce, ReceiveVerification, ReceiveSignup, ReceiveWpeSignup, Received
    <2>2. mgr'.pc \notin {"preprocess", "execute", "persist"}
        <3>1. CASE ManagerStart
            BY <1>0, <3>1 DEF ManagerStart, MgrShape
        <3>2. CASE InitEnclave \/ WriteSealed \/ Publish \/ GetUniqueKey
            BY <1>0, <3>2 DEF InitEnclave, WriteSealed, Publish, GetUniqueKey, MgrShape
        <3>3. CASE ReceiveNonce \/ ReceiveVerification
            <4>1. \/ mgr' = [mgr EXCEPT !.pc = "unique", !.nonce = call.n]
                  \/ mgr' = [mgr EXCEPT !.pc = "signup"]
                  \/ mgr' = Down
                BY <3>3 DEF ReceiveNonce, ReceiveVerification, Received
            <4>2. mgr'.pc \in {"unique", "signup", "down"}
                <5>1. CASE mgr' = [mgr EXCEPT !.pc = "unique", !.nonce = call.n]
                    BY <1>0, <5>1 DEF MgrShape
                <5>2. CASE mgr' = [mgr EXCEPT !.pc = "signup"]
                    BY <1>0, <5>2 DEF MgrShape
                <5>3. CASE mgr' = Down
                    BY <5>3 DEF Down
                <5> QED BY <4>1, <5>1, <5>2, <5>3
            <4> QED BY <4>2
        <3>4. CASE ReceiveSignup \/ ReceiveWpeSignup
            BY <1>0, <3>4 DEF ReceiveSignup, ReceiveWpeSignup, Received, MgrShape
        <3> QED BY <1>1, <3>1, <3>2, <3>3, <3>4
    <2> QED BY <2>1, <2>2, OrderFrame
<1>2. CASE Register
    <2>1. /\ UNCHANGED <<kind, queue, responses, client>>
          /\ mgr' = Down \/ mgr' = [mgr EXCEPT !.pc = "serve"]
        BY <1>2 DEF Register, Exit
    <2>2. mgr'.pc \notin {"preprocess", "execute", "persist"}
        BY <1>0, <2>1 DEF Down, MgrShape
    <2> QED BY <2>1, <2>2, OrderFrame
<1>3. ASSUME NEW answer \in Answers,
             UpdateSigRl(answer) \/ AttestSgx(answer) \/ AttestGraphene(answer) \/ AttestWpe(answer)
      PROVE  OrderInv'
    <2>1. /\ UNCHANGED <<kind, queue, responses, client>>
        BY <1>3 DEF UpdateSigRl, AttestSgx, AttestGraphene, AttestWpe, Attested
    <2>2. mgr'.pc \notin {"preprocess", "execute", "persist"}
        <3>1. CASE UpdateSigRl(answer)
            <4>1. answer \in {"OK", "REFUSED", "UNREACHABLE"}
                BY <3>1 DEF UpdateSigRl, Answers
            <4>2. CASE answer = "OK"
                BY <1>0, <3>1, <4>2 DEF UpdateSigRl, get_signature_revocation_lists, MgrShape
            <4>3. CASE answer = "REFUSED"
                BY <3>1, <4>3 DEF UpdateSigRl, get_signature_revocation_lists
            <4>4. CASE answer = "UNREACHABLE"
                BY <3>1, <4>4 DEF UpdateSigRl, get_signature_revocation_lists, Exit, Down
            <4> QED BY <4>1, <4>2, <4>3, <4>4
        <3>2. CASE AttestSgx(answer)
            BY <1>0, <3>2 DEF AttestSgx, Exit, Down, MgrShape
        <3>3. CASE AttestGraphene(answer) \/ AttestWpe(answer)
            <4>1. \/ mgr' = Down
                  \/ \E p \in {"publish", "register"} : \E q : mgr' = [mgr EXCEPT !.pc = p, !.proof = q]
                BY ONLY <3>3, Zenon DEF AttestGraphene, AttestWpe, Attested
            <4>2. ASSUME NEW p \in {"publish", "register"}, NEW q,
                         mgr' = [mgr EXCEPT !.pc = p, !.proof = q]
                  PROVE  mgr'.pc = p
                BY <1>0, <4>2 DEF MgrShape
            <4>3. mgr' = Down => mgr'.pc = "down"
                BY DEF Down
            <4>4. mgr'.pc \in {"publish", "register", "down"}
                BY <4>1, <4>2, <4>3
            <4> QED BY <4>4
        <3> QED BY <1>3, <3>1, <3>2, <3>3
    <2> QED BY <2>1, <2>2, OrderFrame
<1>4. CASE CleanUp
    <2>1. /\ UNCHANGED <<kind, queue, client>> /\ mgr'.pc = "serve"
          /\ \A c \in Clients : responses'[c] # <<>> => responses'[c] = responses[c]
        BY <1>0, <1>4 DEF CleanUp, MgrShape
    <2>2. \A c \in Clients : responses'[c] # <<>> => Submitted(c)' /\ RightResult(c, responses[c][1])'
        BY <2>1 DEF OrderInv, Submitted, RightResult
    <2> QED BY <2>1, <2>2 DEF OrderInv, Submitted, AcceptedResultCorrect
<1>5. CASE PopOrder
    <2>1. /\ UNCHANGED <<kind, responses, client, call>> /\ queue # <<>> /\ queue' = Tail(queue)
          /\ mgr'.order = Head(queue)
          /\ mgr'.pc = (IF kind = "wpe" THEN "preprocess" ELSE "execute")
          /\ mgr.pc = "serve"
        BY <1>0, <1>5 DEF PopOrder, MgrShape
    <2>2. /\ Head(queue) \in Clients /\ Submitted(Head(queue))
          /\ \A i \in 1..Len(Tail(queue)) : Submitted(Tail(queue)[i])
        <3>1. Len(queue) \in Nat /\ 1 \in 1..Len(queue) /\ Head(queue) = queue[1] /\ queue[1] \in Clients
            BY <1>0, <2>1
        <3>2. Len(Tail(queue)) = Len(queue) - 1 /\ \A i \in 1..(Len(queue) - 1) : Tail(queue)[i] = queue[i + 1]
            BY <1>0, <2>1, HeadTailProperties
        <3>3. \A i \in 1..(Len(queue) - 1) : i + 1 \in 1..Len(queue)
            BY <3>1
        <3> QED BY <3>1, <3>2, <3>3 DEF OrderInv
    <2>3. /\ \A i \in 1..Len(queue') : Submitted(queue[i])'
          /\ mgr'.order \in Clients /\ Submitted(mgr.order)'
        BY <2>1, <2>2 DEF Submitted
    <2>4. call.st = "idle"
        BY <1>0, <2>1 DEF Methods
    <2>5. /\ \A c \in Clients : responses'[c] # <<>> => Submitted(c)' /\ RightResult(c, responses[c][1])'
          /\ \A c \in Clients : Itemized(c, client'[c].req.items)
          /\ AcceptedResultCorrect'
        BY <2>1 DEF OrderInv, Submitted, RightResult, AcceptedResultCorrect
    <2> QED BY <2>1, <2>3, <2>4, <2>5 DEF OrderInv
<1>6. ASSUME UNCHANGED <<kind, queue, responses, client>>,
             mgr.pc \in {"preprocess", "execute"}, mgr'.order = mgr.order,
             \/ mgr'.pc = "persist" /\ RightResult(mgr.order, mgr'.resp[1])
             \/ /\ mgr'.pc = "execute" /\ call'.st = "idle"
                /\ RightKeys(client[mgr.order].req, mgr'.info[1])
      PROVE  OrderInv'
    <2>1. /\ \A c \in Clients : responses'[c] # <<>> => Submitted(c)' /\ RightResult(c, responses[c][1])'
          /\ \A c \in Clients : Itemized(c, client'[c].req.items)
          /\ \A i \in 1..Len(queue') : Submitted(queue[i])'
          /\ AcceptedResultCorrect'
        BY <1>6 DEF OrderInv, Submitted, RightResult, AcceptedResultCorrect
    <2>2. mgr'.order \in Clients /\ Submitted(mgr.order)'
        BY <1>6 DEF OrderInv, Submitted
    <2>3. CASE mgr'.pc = "persist" /\ RightResult(mgr.order, mgr'.resp[1])
        <3>1. RightResult(mgr.order, mgr.resp[1])'
            BY <1>6, <2>3 DEF RightResult
        <3> QED BY <2>1, <2>2, <2>3, <3>1 DEF OrderInv
    <2>4. CASE /\ mgr'.pc = "execute" /\ call'.st = "idle"
               /\ RightKeys(client[mgr.order].req, mgr'.info[1])
        <3>1. RightKeys(client'[mgr'.order].req, mgr'.info[1])
            BY <1>6, <2>4
        <3> QED BY <2>1, <2>2, <2>4, <3>1 DEF OrderInv
    <2> QED BY <1>6, <2>3, <2>4
<1>7. CASE Preprocess
    <2> DEFINE req == client[mgr.order].req
               info == CreateWorkOrderKeyInfo(req, WorkerKey(mgr.key), registered[mgr.key])
    <2>0. UNCHANGED <<kind, queue, responses, client, call>> /\ mgr.pc = "preprocess" /\ call.st = "idle"
        BY <1>0, <1>7 DEF Preprocess, Methods
    <2>1. CASE mgr' = [mgr EXCEPT !.pc = "execute", !.info = <<info>>]
        <3>1. RightKeys(req, info)
            BY DEF RightKeys, CreateWorkOrderKeyInfo
        <3> HIDE DEF info, req
        <3>2. mgr'.pc = "execute" /\ mgr'.info[1] = info /\ mgr'.order = mgr.order
            BY <1>0, <2>1 DEF MgrShape
        <3> QED BY <1>6, <2>0, <2>1, <3>1, <3>2 DEF req
    <2>2. CASE mgr' = [mgr EXCEPT !.pc = "persist", !.resp = <<ErrorResponse>>]
        <3>1. mgr'.pc = "persist" /\ mgr'.resp[1] = ErrorResponse /\ mgr'.order = mgr.order
            BY <1>0, <2>2 DEF MgrShape
        <3>2. RightResult(mgr.order, mgr'.resp[1])
            BY <3>1 DEF RightResult, ErrorResponse
        <3> QED BY <1>6, <2>0, <3>1, <3>2
    <2> QED BY <1>7, <2>1, <2>2 DEF Preprocess
<1>8. CASE ExecuteInEnclave
    <2> DEFINE resp == HandleWorkOrderRequest(client[mgr.order].req, WorkerKey(worker.gen))
    <2>1. RightResult(mgr.order, resp)
        BY SgxRight DEF RightResult
    <2> HIDE DEF resp
    <2>2. /\ UNCHANGED <<kind, queue, responses, client, call>> /\ mgr.pc = "execute"
          /\ mgr' = [mgr EXCEPT !.pc = "persist", !.resp = <<resp>>]
        BY <1>8 DEF ExecuteInEnclave, resp
    <2>3. mgr'.pc = "persist" /\ mgr'.resp[1] = resp /\ mgr'.order = mgr.order
        BY <1>0, <2>2 DEF MgrShape
    <2> QED BY <1>6, <2>1, <2>2, <2>3
<1>9. CASE Persist
    <2>1. /\ UNCHANGED <<kind, queue, client>> /\ mgr'.pc = "serve" /\ mgr.pc = "persist"
          /\ responses' = [responses EXCEPT ![mgr.order] = mgr.resp]
        BY <1>0, <1>9 DEF Persist, MgrShape
    <2>2. mgr.order \in Clients /\ Submitted(mgr.order) /\ RightResult(mgr.order, mgr.resp[1])
        BY <2>1 DEF OrderInv
    <2>3. \A c \in Clients : responses'[c] # <<>> => Submitted(c) /\ RightResult(c, responses'[c][1])
        BY <1>0, <2>1, <2>2 DEF OrderInv
    <2>4. \A c \in Clients : responses'[c] # <<>> => Submitted(c)' /\ RightResult(c, responses[c][1])'
        BY <2>1, <2>3 DEF Submitted, RightResult
    <2> QED BY <2>1, <2>4 DEF OrderInv, Submitted, AcceptedResultCorrect
<1>10. CASE SendRequest
    <2>1. /\ UNCHANGED <<kind, queue, responses, client, mgr>> /\ call'.st = "sent"
        BY <1>10 DEF SendRequest, Shapes, CallShape
    <2> QED BY <2>1 DEF OrderInv, Submitted, RightResult, AcceptedResultCorrect
<1>11. CASE ReceiveResult \/ ReceiveWpeResult
    <2>1. /\ UNCHANGED <<kind, queue, responses, client>> /\ mgr.pc = "execute" /\ call.st = "replied"
          /\ mgr' = [mgr EXCEPT !.pc = "persist", !.resp = call.resp]
        BY <1>11 DEF ReceiveResult, ReceiveWpeResult, Received
    <2>2. mgr'.pc = "persist" /\ mgr'.resp = call.resp /\ mgr'.order = mgr.order
        BY <1>0, <2>1 DEF MgrShape
    <2>3. RightResult(mgr.order, mgr'.resp[1])
        BY <2>1, <2>2 DEF OrderInv
    <2> QED BY <1>6, <2>1, <2>2, <2>3
<1> QED BY <1>1, <1>2, <1>3, <1>4, <1>5, <1>7, <1>8, <1>9, <1>10, <1>11 DEF ManagerStep

(***************************************************************************)
(* A reply of a Graphene worker is about the order its manager waits for.  *)
(***************************************************************************)
LEMMA OrderServe ==
    ASSUME Shapes, OrderInv, WorkerServe
    PROVE  OrderInv'
<1>1. /\ UNCHANGED <<kind, queue, responses, client, mgr>> /\ call.st = "sent"
      /\ call' = [Handled[2] EXCEPT !.st = "replied"]
      /\ kind \in {"graphene", "wpe"} /\ mgr.pc \in Methods
    BY ProtocolAssumption DEF WorkerServe, tableVars, Shapes
<1>2. call'.resp = Handled[2].resp
    BY <1>1, HandledShape
<1>3. mgr.pc = "execute" => RightResult(mgr.order, call'.resp[1])
    <2> SUFFICES ASSUME mgr.pc = "execute" PROVE RightResult(mgr.order, Handled[2].resp[1])
        BY <1>2
    <2> DEFINE req == client[mgr.order].req
               k == WorkerKey(worker.gen)
    <2>0. mgr.order \in Clients /\ Itemized(mgr.order, req.items)
        BY DEF OrderInv
    <2>1. CASE kind = "graphene"
        <3>1. Handled[2].resp[1] = process_work_order(req, k)
            BY <2>1 DEF Handled, handle_methods, Idle
        <3> HIDE DEF k
        <3> QED BY <2>0, <2>1, <3>1, GrapheneRight DEF RightResult
    <2>2. CASE kind = "wpe"
        <3>1. Handled = <<worker, [Idle EXCEPT !.resp =
                              <<process_wpe_work_order(req, mgr.info[1], k, worker.uid)>>]>>
            BY <2>2 DEF Handled, handle_wpe_methods
        <3>2. Handled[2].resp[1] = process_wpe_work_order(req, mgr.info[1], k, worker.uid)
            BY <3>1 DEF Idle
        <3>3. RightKeys(req, mgr.info[1])
            BY <2>2 DEF OrderInv
        <3> HIDE DEF k
        <3> QED BY <2>0, <3>2, <3>3, WpeRight DEF RightResult
    <2> QED BY <1>1, <2>1, <2>2
<1>4. mgr'.pc = "execute" => RightResult(mgr.order, call.resp[1])'
    BY <1>1, <1>3 DEF RightResult
<1> QED BY <1>1, <1>4 DEF OrderInv, Submitted, RightResult, AcceptedResultCorrect

LEMMA OrderStep ==
    ASSUME Shapes, OrderInv, [ProtocolNext]_vars
    PROVE  OrderInv'
<1>1. CASE UNCHANGED vars
    BY <1>1, OrderFrame DEF vars, tableVars
<1>2. CASE WorkerRestart
    <2>1. /\ UNCHANGED <<kind, queue, responses, client, mgr>>
          /\ call'.st = "replied" => call' = call
        BY <1>2 DEF WorkerRestart, tableVars, Idle
    <2> QED BY <2>1 DEF OrderInv, Submitted, RightResult, AcceptedResultCorrect
<1>3. CASE ManagerCrash
    <2>1. UNCHANGED <<kind, queue, responses, client>> /\ mgr'.pc = "down"
        BY <1>3 DEF ManagerCrash, tableVars, Down
    <2> QED BY <2>1, OrderFrame
<1> QED BY <1>1, <1>2, <1>3, OrderClient, OrderManager, OrderServe DEF ProtocolNext

(***************************************************************************)
(* Whatever the kind of worker, the program that builds the order and the  *)
(* faults in between, a result that a client accepts is the workload's     *)
(* output on exactly the data the client hashed (AcceptedResultCorrect).   *)
(***************************************************************************)
THEOREM AcceptedIsRight == ProtocolSpec => []AcceptedResultCorrect
<1>1. ProtocolInit => Shapes /\ OrderInv
    <2> SUFFICES ASSUME ProtocolInit PROVE OrderInv
        BY ShapesInit
    <2>1. /\ \A c \in Clients : client[c].pc = "start" /\ client[c].req.items = <<>>
          /\ queue = <<>> /\ mgr.pc = "down"
          /\ \A c \in Clients : responses[c] = <<>>
        BY DEF ProtocolInit, Down, create_request
    <2>2. \A c \in Clients : Itemized(c, <<>>)
        BY DEF Itemized
    <2> QED BY <2>1, <2>2 DEF OrderInv, AcceptedResultCorrect
<1>2. Shapes /\ OrderInv /\ [ProtocolNext]_vars => (Shapes /\ OrderInv)'
    BY ShapesStep, OrderStep
<1>3. OrderInv => AcceptedResultCorrect
    BY DEF OrderInv
<1> QED BY <1>1, <1>2, <1>3, PTL DEF ProtocolSpec

=============================================================================
