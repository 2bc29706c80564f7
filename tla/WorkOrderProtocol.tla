-------------------------- MODULE WorkOrderProtocol --------------------------
(***************************************************************************)
(* A work order from the client that encrypts it to the client that checks *)
(* the answer: key set-up and attestation when a manager boots, the        *)
(* manager's requests to a Graphene worker process over ZeroMQ, and what   *)
(* restarts of either do to orders under way.                              *)
(*                                                                         *)
(* One worker id is served, by one of three kinds of worker: an SGX        *)
(* enclave inside its manager's process ("sgx"), a Graphene process        *)
(* ("graphene"), or a Graphene WPE process that gets the keys of each      *)
(* order from a KME ("wpe").  The KME, which WorkerPool models with its    *)
(* crashes, always answers here.  The listener and the store, modelled in  *)
(* WorkOrderListener, WorkOrderStore and StoreProtocol, answer in one step *)
(* here, and the table updates that EnclaveManager takes apart are joined. *)
(* Hardware mode: in simulation mode there are no proofs, and none is      *)
(* asked for.  The main of the Graphene WPE's manager leaves out the       *)
(* set-up calls the other managers make and ends at once; the WPE here is  *)
(* started the way they are.                                               *)
(***************************************************************************)
EXTENDS WorkOrderCrypto, FiniteSets

CONSTANTS
    Clients,       \* each submits one work order
    Kinds,         \* the kinds of worker that may be deployed
    Programs,      \* per client, the workloads and SDK calls that make its order
    MaxFaults      \* bound on crashes, restarts and failed attestations

Calls == ItemKeys \cup {"hash"}

ASSUME ProtocolAssumption ==
    /\ Clients \subseteq Nat \ {0}
    /\ Kinds \subseteq {"sgx", "graphene", "wpe"}
    /\ \A c \in Clients : Programs[c] \subseteq [workload : Workloads, calls : Seq(Calls)]
    /\ MaxFaults \in Nat

VARIABLES
    kind,        \* the kind of worker deployed
    gens,        \* key pairs and nonces made so far
    sealed,      \* the key pair in the sealed data file, 0 if there is none
    erased,      \* key pairs whose sealed data was removed
    worker,      \* the worker's key pair, nonce and unique id (self.uid)
    mgr,         \* the manager: its step, and what it holds
    call,        \* the manager's ZeroMQ request to the worker
    published,   \* the public keys in the workers table
    registered,  \* wpe_enc_key_map of the KME: key pair |-> unique key
    queue,       \* wo-worker-scheduled
    requests,    \* the keys of wo-requests
    responses,   \* wo-responses
    processed,   \* wo-worker-processed
    client,      \* each client: its step, its view of the keys, its order
    dropped,     \* orders held or answered when their manager went down
    faults

workerVars == <<gens, sealed, erased, worker>>
tableVars  == <<queue, requests, responses, processed>>
keyVars    == <<published, registered>>
vars == <<kind, workerVars, mgr, call, keyVars, tableVars, client, dropped, faults>>

NoWorker == [gen |-> 0, nonce |-> 0, uid |-> NoKey]
Idle     == [st |-> "idle", n |-> 0, quote |-> <<>>, resp |-> <<>>]
Down     == [pc |-> "down", key |-> 0, proof |-> <<>>, nonce |-> 0, uid |-> NoKey,
             order |-> 0, info |-> <<>>, resp |-> <<>>]

\* A Graphene worker makes its keys when its process starts.
ProtocolInit ==
    /\ kind \in Kinds
    /\ gens = IF kind = "sgx" THEN 0 ELSE 1
    /\ worker = [NoWorker EXCEPT !.gen = gens]
    /\ sealed = 0 /\ erased = {}
    /\ mgr = Down /\ call = Idle
    /\ published = IF kind = "wpe" THEN KmeKey ELSE NoKey
    /\ registered = <<>>
    /\ queue = <<>> /\ requests = {} /\ processed = {}
    /\ responses = [c \in Clients |-> <<>>]
    /\ client = [c \in Clients |-> [pc |-> "start", view |-> NoKey, out |-> <<>>,
                                    req |-> create_request(c, NoKey, "known")]]
    /\ dropped = {} /\ faults = 0

-----------------------------------------------------------------------------
(* The client                                                              *)

\* get_worker_details: only an active worker, one that is published, is used.
get_worker_details(c) ==
    /\ client[c].pc = "start" /\ published # NoKey
    /\ client' = [client EXCEPT ![c].pc = "ready", ![c].view = published]
    /\ UNCHANGED <<kind, workerVars, mgr, call, keyVars, tableVars, dropped, faults>>

\* add_encrypted_request_hash: over the data added so far.
add_encrypted_request_hash(req) ==
    [req EXCEPT !.hash = encrypt_data(calculate_request_hash(req),
                                      SessionKey(req.client))]

\* add_in_data
add_in_data(req, e_key) ==
    [req EXCEPT !.items = add_data_params(req.items, req.client, e_key)]

\* create_work_order_params: the calls of the work order object, in the order
\* of the program.  The generic client adds all its data, then the hash.
create_work_order_params(c, k, program) ==
    LET calls == program.calls
        built[i \in 0..Len(calls)] ==
            IF i = 0 THEN create_request(c, k, program.workload)
            ELSE IF calls[i] = "hash" THEN add_encrypted_request_hash(built[i - 1])
                 ELSE add_in_data(built[i - 1], calls[i])
    IN  built[Len(calls)]

CreateOrder(c) ==
    /\ client[c].pc = "ready"
    /\ \E program \in Programs[c] :
           client' = [client EXCEPT ![c].pc = "built", ![c].req =
                          create_work_order_params(c, client[c].view, program)]
    /\ UNCHANGED <<kind, workerVars, mgr, call, keyVars, tableVars, dropped, faults>>

\* submit_work_order: the listener's schema refuses a request without a hash.
submit_work_order(c) ==
    /\ client[c].pc = "built"
    /\ IF SchemaAccepts(client[c].req)
       THEN /\ requests' = requests \cup {c}
            /\ queue' = Append(queue, c)
            /\ client' = [client EXCEPT ![c].pc = "waiting"]
       ELSE /\ client' = [client EXCEPT ![c].pc = "refused"]
            /\ UNCHANGED <<requests, queue>>
    /\ UNCHANGED <<kind, workerVars, mgr, call, keyVars, responses, processed,
                   dropped, faults>>

\* What the client makes of an answer: an error ends it; a result is used if its
\* signature verifies with the keys the client had read, and it decrypts.
Verdict(c, resp) ==
    IF resp.error THEN "failed"
    ELSE IF /\ verify_signature(resp, client[c].view, c)
            /\ decrypt_wo_response(resp, c)
         THEN "accepted" ELSE "rejected"

\* get_work_order_result polls: a pending order is asked for again, an order
\* whose request is gone from the store is an error.
get_work_order_result(c) ==
    /\ client[c].pc = "waiting"
    /\ \/ /\ responses[c] # <<>>
          /\ LET resp == responses[c][1]
             IN  client' = [client EXCEPT
                     ![c].pc = Verdict(c, resp),
                     ![c].out = IF Verdict(c, resp) = "accepted"
                                THEN resp.result.outData.of ELSE <<>>]
       \/ /\ responses[c] = <<>> /\ c \notin requests
          /\ client' = [client EXCEPT ![c].pc = "failed"]
    /\ UNCHANGED <<kind, workerVars, mgr, call, keyVars, tableVars, dropped, faults>>

-----------------------------------------------------------------------------
(* Boot of a manager                                                       *)

GoTo(pc) == mgr' = [mgr EXCEPT !.pc = pc]

\* The process ends; an enclave in it ends too.
Exit ==
    /\ mgr' = Down
    /\ worker' = IF kind = "sgx" THEN NoWorker ELSE worker

\* The command that starts an SGX manager's container removes the sealed data if
\* CLEAN_SEALED_DATA is 1, as it is in .env; a deployment may set it to 0.
RemoveSealed ==
    /\ kind = "sgx" /\ sealed # 0
    /\ sealed' = 0
    /\ erased' = erased \cup {WorkerKey(sealed)}

ManagerStart ==
    /\ mgr.pc = "down"
    /\ RemoveSealed \/ UNCHANGED <<sealed, erased>>
    /\ GoTo(CASE kind = "sgx" -> "init" [] kind = "graphene" -> "signup"
              [] kind = "wpe" -> "nonce")
    /\ UNCHANGED <<kind, gens, worker, call, keyVars, tableVars, client, dropped, faults>>

\* _init_enclave_with: the keys of the sealed data file, or new ones.
InitEnclave ==
    /\ mgr.pc = "init"
    /\ gens' = IF sealed = 0 THEN gens + 1 ELSE gens
    /\ worker' = [worker EXCEPT !.gen = IF sealed = 0 THEN gens + 1 ELSE sealed]
    /\ mgr' = [mgr EXCEPT !.pc = "sigrl", !.key = worker'.gen]
    /\ UNCHANGED <<kind, sealed, erased, call, keyVars, tableVars, client, dropped, faults>>

\* What the Intel attestation service (IAS) makes of a request.
Answers == {"OK", "GROUP_OUT_OF_DATE", "REFUSED", "UNREACHABLE"}

\* Every answer but OK is a fault.
Answered(answer) ==
    \/ answer = "OK" /\ UNCHANGED faults
    \/ answer # "OK" /\ faults < MaxFaults /\ faults' = faults + 1

\* get_signature_revocation_lists: the list, or what it raises.
get_signature_revocation_lists(answer) ==
    CASE answer = "REFUSED" -> "HTTPError"
      [] answer = "UNREACHABLE" -> "ConnectionError"
      [] OTHER -> "list"

\* init_enclave_info tries again after an HTTPError; a connection that fails ends
\* the start.
UpdateSigRl(answer) ==
    /\ mgr.pc = "sigrl" /\ answer # "GROUP_OUT_OF_DATE" /\ Answered(answer)
    /\ LET sig_rl == get_signature_revocation_lists(answer)
       IN  CASE sig_rl = "list" -> GoTo("attest") /\ UNCHANGED worker
             [] sig_rl = "HTTPError" -> UNCHANGED <<mgr, worker>>
             [] sig_rl = "ConnectionError" -> Exit
    /\ UNCHANGED <<kind, gens, sealed, erased, call, keyVars, tableVars, client, dropped>>

\* verify_report_fields: the report is about this quote, and its status is OK.
verify_report_fields(answer) == answer = "OK"

\* EpidAttestation.get_signup_info: no answer raises, a bad report yields no
\* sign-up info, but a platform that wants an update is let through.
epid_signup_info(answer) ==
    CASE answer = "UNREACHABLE" -> "raises"
      [] verify_report_fields(answer) \/ answer = "GROUP_OUT_OF_DATE" -> "proof"
      [] OTHER -> "none"

\* PccsClient.verify_report_fields takes every quote for good.
pccs_verify_report_fields(answer) == TRUE

\* DcapAttestation.get_signup_info
dcap_signup_info(answer) == IF pccs_verify_report_fields(answer) THEN "proof" ELSE "none"

\* The attestation type of an enclave is part of its configuration.
AttestationTypes == {"EPID", "DCAP"}

get_signup_info(type, answer) ==
    IF type = "EPID" THEN epid_signup_info(answer) ELSE dcap_signup_info(answer)

\* _generate_avr, for the quote of a Graphene worker; the same as for EPID.
generate_avr(answer) ==
    CASE answer = "UNREACHABLE" -> "raises"
      [] verify_report_fields(answer) \/ answer = "GROUP_OUT_OF_DATE" -> "proof"
      [] OTHER -> "none"

\* _create_enclave_signup_data of an SGX worker; without sign-up info it raises,
\* and setup_enclave ends the process.
AttestSgx(answer) ==
    /\ mgr.pc = "attest" /\ kind = "sgx" /\ Answered(answer)
    /\ \E type \in AttestationTypes :
           IF get_signup_info(type, answer) = "proof"
           THEN GoTo("seal") /\ UNCHANGED worker ELSE Exit
    /\ UNCHANGED <<kind, gens, sealed, erased, call, keyVars, tableVars, client, dropped>>

\* A bad report only leaves a Graphene worker without a proof.
Attested(answer, pc) ==
    /\ mgr.pc = "attest" /\ Answered(answer)
    /\ mgr' = IF generate_avr(answer) = "raises" THEN Down
              ELSE [mgr EXCEPT !.pc = pc,
                    !.proof = IF generate_avr(answer) = "proof" THEN mgr.proof ELSE <<>>]
    /\ UNCHANGED <<kind, workerVars, call, keyVars, tableVars, client, dropped>>

\* GrapheneEnclaveInfo
AttestGraphene(answer) == kind = "graphene" /\ Attested(answer, "publish")

\* GrapheneWPESignupInfo
AttestWpe(answer) == kind = "wpe" /\ Attested(answer, "register")

\* Fault: the sealed data is not written to its file.
SkipSealed ==
    /\ mgr.pc = "seal"
    /\ GoTo("publish")
    /\ UNCHANGED <<kind, workerVars, call, keyVars, tableVars, client, dropped, faults>>

\* _create_signup_info writes the sealed data once the enclave is attested.
WriteSealed ==
    /\ mgr.pc = "seal"
    /\ sealed' = mgr.key
    /\ GoTo("publish")
    /\ UNCHANGED <<kind, gens, erased, worker, call, keyVars, tableVars, client, dropped, faults>>

\* _manager_on_boot, first part: the worker's public keys are published.
Publish ==
    /\ mgr.pc = "publish"
    /\ published' = WorkerKey(mgr.key)
    /\ GoTo("clean")
    /\ UNCHANGED <<kind, workerVars, call, registered, tableVars, client, dropped, faults>>

\* cleanup_work_orders: of every processed order; the scheduled ones stay.
CleanUp ==
    /\ mgr.pc = "clean"
    /\ requests' = requests \ processed
    /\ responses' = [c \in Clients |-> IF c \in processed THEN <<>> ELSE responses[c]]
    /\ processed' = {}
    /\ dropped' = dropped \cup processed
    /\ GoTo("serve")
    /\ UNCHANGED <<kind, workerVars, call, keyVars, queue, client, faults>>

\* get_unique_verification_key: the KME signs the key and the WPE's nonce with it.
GetUniqueKey ==
    /\ mgr.pc = "unique"
    /\ mgr' = [mgr EXCEPT !.pc = "verify", !.uid = UniqueKey(mgr.nonce)]
    /\ UNCHANGED <<kind, workerVars, call, keyVars, tableVars, client, dropped, faults>>

\* Fault: a key that is registered keeps its first unique key.
RegisterOnce ==
    /\ mgr.pc = "register"
    /\ registered' = [g \in DOMAIN registered \cup {mgr.key} |->
                          IF g \in DOMAIN registered THEN registered[g] ELSE mgr.uid]
    /\ GoTo("serve")
    /\ UNCHANGED <<kind, workerVars, call, published, tableVars, client, dropped, faults>>

\* register_wo_processor: the KME wants a proof of a quote of this key and this
\* unique key.  A key that registers again gets the new unique key.
Register ==
    /\ mgr.pc = "register"
    /\ IF mgr.proof = <<wpe_quote(mgr.key, mgr.uid)>>
       THEN /\ registered' = [g \in DOMAIN registered \cup {mgr.key} |->
                                  IF g = mgr.key THEN mgr.uid ELSE registered[g]]
            /\ GoTo("serve") /\ UNCHANGED worker
       ELSE Exit /\ UNCHANGED registered
    /\ UNCHANGED <<kind, gens, sealed, erased, call, published, tableVars, client, dropped, faults>>

-----------------------------------------------------------------------------
(* Work orders at the manager                                              *)

\* _process_work_orders
PopOrder ==
    /\ mgr.pc = "serve" /\ queue # <<>>
    /\ queue' = Tail(queue)
    /\ mgr' = [mgr EXCEPT !.order = Head(queue),
                          !.pc = IF kind = "wpe" THEN "preprocess" ELSE "execute"]
    /\ UNCHANGED <<kind, workerVars, call, keyVars, requests, responses, processed,
                   client, dropped, faults>>

\* preprocess_work_order at the KME, for the WPE key the manager sends along,
\* which is registered; an error of the KME, which also refuses a request without
\* data, is the answer to the order.
Preprocess ==
    /\ mgr.pc = "preprocess"
    /\ LET req == client[mgr.order].req
       IN  IF DecryptsSessionKey(req.session, KmeKey) /\ req.items # <<>>
           THEN mgr' = [mgr EXCEPT !.pc = "execute", !.info =
                   <<CreateWorkOrderKeyInfo(req, WorkerKey(mgr.key), registered[mgr.key])>>]
           ELSE mgr' = [mgr EXCEPT !.pc = "persist", !.resp = <<ErrorResponse>>]
    /\ UNCHANGED <<kind, workerVars, call, keyVars, tableVars, client, dropped, faults>>

\* SgxWorkOrderRequest.execute: a call into the enclave.
ExecuteInEnclave ==
    /\ mgr.pc = "execute" /\ kind = "sgx"
    /\ mgr' = [mgr EXCEPT !.pc = "persist", !.resp =
           <<HandleWorkOrderRequest(client[mgr.order].req, WorkerKey(worker.gen))>>]
    /\ UNCHANGED <<kind, workerVars, call, keyVars, tableVars, client, dropped, faults>>

\* Fault: only results are kept.
PersistResult ==
    /\ mgr.pc = "persist"
    /\ responses' = IF mgr.resp[1].error THEN responses
                    ELSE [responses EXCEPT ![mgr.order] = mgr.resp]
    /\ processed' = processed \cup {mgr.order}
    /\ mgr' = [mgr EXCEPT !.pc = "serve", !.order = 0, !.info = <<>>, !.resp = <<>>]
    /\ UNCHANGED <<kind, workerVars, call, keyVars, queue, requests, client, dropped, faults>>

\* _persist_wo_response_to_db: errors as well as results.
Persist ==
    /\ mgr.pc = "persist"
    /\ responses' = [responses EXCEPT ![mgr.order] = mgr.resp]
    /\ processed' = processed \cup {mgr.order}
    /\ mgr' = [mgr EXCEPT !.pc = "serve", !.order = 0, !.info = <<>>, !.resp = <<>>]
    /\ UNCHANGED <<kind, workerVars, call, keyVars, queue, requests, client, dropped, faults>>

-----------------------------------------------------------------------------
(* Requests to a Graphene worker                                           *)

Methods == {"nonce", "verify", "signup", "execute"}

\* send_request_zmq: sends, then waits for the reply without a time limit.
SendRequest ==
    /\ kind # "sgx" /\ mgr.pc \in Methods /\ call.st = "idle"
    /\ call' = [call EXCEPT !.st = "sent"]
    /\ UNCHANGED <<kind, workerVars, mgr, keyVars, tableVars, client, dropped, faults>>

\* _generate_nonce of the WPE worker, which keeps the nonce.
generate_nonce(w) ==
    <<[w EXCEPT !.nonce = gens + 1], [Idle EXCEPT !.n = gens + 1]>>

\* _verfify_uid_signature: with the nonce the worker has; none raises.
verify_uid_signature(w, uid) ==
    <<w, [Idle EXCEPT !.n = IF w.nonce # 0 /\ uid = UniqueKey(w.nonce) THEN 1 ELSE 0]>>

\* _generate_worker_signup: the worker's keys and its quote.
generate_worker_signup(w, uid) ==
    [Idle EXCEPT !.n = w.gen,
        !.quote = <<IF kind = "wpe" THEN wpe_quote(w.gen, uid) ELSE worker_quote(w.gen)>>]

\* _process_worker_signup; a WPE keeps the unique key for the orders.
process_worker_signup(w, uid) ==
    <<[w EXCEPT !.uid = uid], generate_worker_signup(w, uid)>>

\* _handle_methods of a Graphene worker: its new state, and what it replies.
handle_methods(method) ==
    IF method = "signup" THEN process_worker_signup(worker, NoKey)
    ELSE <<worker, [Idle EXCEPT !.resp =
             <<process_work_order(client[mgr.order].req, WorkerKey(worker.gen))>>]>>

\* _handle_methods of a Graphene WPE
handle_wpe_methods(method) ==
    CASE method = "nonce"   -> generate_nonce(worker)
      [] method = "verify"  -> verify_uid_signature(worker, mgr.uid)
      [] method = "signup"  -> process_worker_signup(worker, mgr.uid)
      [] method = "execute" ->
            <<worker, [Idle EXCEPT !.resp =
                <<process_wpe_work_order(client[mgr.order].req, mgr.info[1],
                                         WorkerKey(worker.gen), worker.uid)>>]>>

\* process_work_order of the worker turns every exception into an error.
Handled ==
    IF kind = "graphene" THEN handle_methods(mgr.pc) ELSE handle_wpe_methods(mgr.pc)

\* start_zmq_listener: one request at a time.
WorkerServe ==
    /\ call.st = "sent"
    /\ worker' = Handled[1]
    /\ gens' = IF mgr.pc = "nonce" THEN gens + 1 ELSE gens
    /\ call' = [Handled[2] EXCEPT !.st = "replied"]
    /\ UNCHANGED <<kind, sealed, erased, mgr, keyVars, tableVars, client, dropped, faults>>

\* send_request_zmq returns the reply to the caller at pc, which goes on as m.
Received(pc, m) ==
    /\ call.st = "replied" /\ mgr.pc = pc
    /\ call' = Idle
    /\ mgr' = m
    /\ UNCHANGED <<kind, workerVars, keyVars, tableVars, client, dropped, faults>>

\* _generate_nonce of the manager
ReceiveNonce == Received("nonce", [mgr EXCEPT !.pc = "unique", !.nonce = call.n])

\* _verify_unique_id_signature: a key that does not verify ends the start.
ReceiveVerification ==
    Received("verify", IF call.n = 1 THEN [mgr EXCEPT !.pc = "signup"] ELSE Down)

\* _create_signup_data of a Graphene worker's manager
ReceiveSignup ==
    /\ kind = "graphene"
    /\ Received("signup", [mgr EXCEPT !.pc = "attest", !.key = call.n, !.proof = call.quote])

\* _signup_worker of a Graphene WPE's manager
ReceiveWpeSignup ==
    /\ kind = "wpe"
    /\ Received("signup", [mgr EXCEPT !.pc = "attest", !.key = call.n, !.proof = call.quote])

\* _execute_wo_in_trusted_enclave
ReceiveResult ==
    /\ kind = "graphene"
    /\ Received("execute", [mgr EXCEPT !.pc = "persist", !.resp = call.resp])

\* _send_wo_to_process
ReceiveWpeResult ==
    /\ kind = "wpe"
    /\ Received("execute", [mgr EXCEPT !.pc = "persist", !.resp = call.resp])

-----------------------------------------------------------------------------
(* Restarts                                                                *)

\* A Graphene worker process that starts again has new keys, no nonce and no
\* unique id.  A request it had received and a reply on its way may be lost, and
\* then the manager waits for ever.
WorkerRestart ==
    /\ kind # "sgx" /\ faults < MaxFaults
    /\ faults' = faults + 1
    /\ gens' = gens + 1
    /\ worker' = [NoWorker EXCEPT !.gen = gens + 1]
    /\ \/ UNCHANGED call
       \/ call.st \in {"sent", "replied"} /\ call' = [Idle EXCEPT !.st = "lost"]
    /\ UNCHANGED <<kind, sealed, erased, mgr, keyVars, tableVars, client, dropped>>

\* A manager that dies loses the order it holds.  The worker may still serve the
\* request it was sent; nobody gets the reply.
ManagerCrash ==
    /\ mgr.pc # "down" /\ faults < MaxFaults
    /\ faults' = faults + 1
    /\ mgr' = Down
    /\ call' = Idle
    /\ dropped' = dropped \cup ({mgr.order} \ {0})
    /\ IF kind = "sgx" THEN worker' = NoWorker
       ELSE worker' \in {worker} \cup (IF call.st = "sent" THEN {Handled[1]} ELSE {})
    /\ gens' = IF worker'.nonce > gens THEN worker'.nonce ELSE gens
    /\ UNCHANGED <<kind, sealed, erased, keyVars, tableVars, client>>

-----------------------------------------------------------------------------

ClientStep(c) ==
    \/ get_worker_details(c) \/ CreateOrder(c) \/ submit_work_order(c)
    \/ get_work_order_result(c)

ManagerStep ==
    \/ ManagerStart \/ InitEnclave \/ WriteSealed \/ Publish \/ CleanUp
    \/ \E answer \in Answers :
           \/ UpdateSigRl(answer) \/ AttestSgx(answer)
           \/ AttestGraphene(answer) \/ AttestWpe(answer)
    \/ GetUniqueKey \/ Register
    \/ PopOrder \/ Preprocess \/ ExecuteInEnclave \/ Persist
    \/ SendRequest \/ ReceiveNonce \/ ReceiveVerification \/ ReceiveSignup
    \/ ReceiveWpeSignup \/ ReceiveResult \/ ReceiveWpeResult

ProtocolNext ==
    \/ \E c \in Clients : ClientStep(c)
    \/ ManagerStep \/ WorkerServe
    \/ WorkerRestart \/ ManagerCrash

\* Managers and workers run their loops; a stopped manager is started again; a
\* client polls until it has an answer.
ProtocolFairness ==
    /\ WF_vars(ManagerStep) /\ WF_vars(WorkerServe)
    /\ \A c \in Clients : WF_vars(get_work_order_result(c))

ProtocolSpec == ProtocolInit /\ [][ProtocolNext]_vars /\ ProtocolFairness

-----------------------------------------------------------------------------
(* Properties                                                              *)

\* The data a client had added when it made the request hash, in plain.
HashedData(req) == [i \in DOMAIN req.hash.of[2] |-> Plain(req.hash.of[2][i][1])]

\* A Graphene worker decrypts nothing after a plain item.
EncryptedAfterPlain(req) ==
    \E i, j \in DOMAIN req.items : i < j /\ req.items[i].key = "-" /\ req.items[j].key # "-"

\* A result whose signature a client has verified is the workload's output on
\* exactly the data the client hashed, in its order: what was added behind the
\* hash, or reached the workload undecrypted, never ends in an accepted result.
\* Graphene orders with encrypted data after plain data are the exception, which
\* MixedItemsDecrypted is about.
AcceptedResultCorrect ==
    \A c \in Clients :
        client[c].pc = "accepted" /\ ~(kind = "graphene" /\ EncryptedAfterPlain(client[c].req))
            => client[c].out = HashedData(client[c].req)

\* decrypt_work_order_data_json decrypts every item that has a key, wherever it
\* stands in the list.
MixedItemsDecrypted ==
    \A c \in Clients : client[c].pc = "accepted"
        => client[c].out = HashedData(client[c].req)

\* The published key pair of an SGX worker changes only when its sealed data has
\* been removed: no crash, failed attestation or restart by itself, at whatever
\* step of the boot, takes the key from clients that encrypt with it.
PublishedKeyKept ==
    [][kind = "sgx" /\ published # NoKey /\ published \notin erased
           => published' = published]_vars

Hung == call.st = "lost"

\* An order the listener took is answered, with a result or an error, unless
\* the manager died holding it or waits for a reply that is lost: undecryptable
\* and badly hashed orders, and orders for keys that are gone, get their error.
EveryOrderAnswered ==
    \A c \in Clients :
        client[c].pc = "waiting" ~> (client[c].pc # "waiting" \/ c \in dropped \/ Hung)

WellFormed(c) ==
    LET req == client[c].req
    IN  /\ req.hash.of = calculate_request_hash(req) /\ req.workload = "known"
        /\ kind # "graphene" => req.items # <<>>
        /\ kind = "wpe" => \A i \in DOMAIN req.items : req.items[i].key # "-"

\* The key the client encrypted with is gone: the sealed data of the SGX worker has
\* been removed, or the Graphene worker's process has been started again since the
\* client read its key or since its manager signed it up.
Outdated(c) ==
    \/ kind = "sgx" /\ client[c].view \in erased
    \/ kind = "graphene" /\ client[c].view # WorkerKey(worker.gen)
    \/ kind # "sgx" /\ mgr.key # 0 /\ mgr.key # worker.gen

\* A well-formed order not yet answered ends in an accepted result, through any
\* restart of the manager that leaves the worker its keys, unless the manager held
\* or had answered it when it went down.
GoodOrderServed ==
    \A c \in Clients :
        client[c].pc = "waiting" /\ WellFormed(c) /\ responses[c] = <<>>
            ~> (client[c].pc = "accepted" \/ c \in dropped \/ Outdated(c) \/ Hung)
=============================================================================
