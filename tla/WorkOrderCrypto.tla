--------------------------- MODULE WorkOrderCrypto ---------------------------
(***************************************************************************)
(* What clients, workers and the key management enclave (KME) do to a work *)
(* order: encryption, hashes and signatures as symbolic terms.             *)
(*                                                                         *)
(* A term [by |-> key, of |-> data] is data encrypted or signed with a     *)
(* key; only the key opens or verifies it.  A term by NoKey is plain.      *)
(* Encodings (hex, base64) are left out, and so are the initialization     *)
(* vectors: the two ends always use the one sent along with the request.   *)
(* A worker's encryption and signing key pairs are made together and are   *)
(* one key here.  An order is named by the client that submits it, which   *)
(* makes a session key, an order id and a nonce of its own.                *)
(***************************************************************************)
EXTENDS Naturals, Sequences

NoKey         == <<"none", 0>>
SessionKey(c) == <<"session", c>>     \* made by the client for its order
WorkerKey(g)  == <<"worker", g>>      \* the g-th key pair a worker made
KmeKey        == <<"kme", 0>>         \* the worker pool's published key pair
OrderKey(c)   == <<"order", c>>       \* made by the KME to sign the response
UniqueKey(n)  == <<"unique", n>>      \* made by the KME for the WPE with nonce n

\* A quote: the processor's word for the data the worker wrote before.
get_quote(user_data) == [quoted |-> user_data]

\* _get_quote of a Graphene worker: its key.
worker_quote(g) == get_quote(<<WorkerKey(g)>>)

\* _get_quote of a Graphene WPE: its key and its unique key.
wpe_quote(g, uid) == get_quote(<<WorkerKey(g), uid>>)

\* encrypt_data: AES-GCM.
encrypt_data(d, k) == [by |-> k, of |-> d]

\* decrypt_data: any other key fails the tag, and raises.
Decrypts(t, k) == t.by = k

\* encrypt_session_key: RSA-OAEP with the worker's public key.
encrypt_session_key(c, k) == [by |-> k, of |-> SessionKey(c)]

\* decrypt_session_key raises unless the private key is the one.
DecryptsSessionKey(t, k) == t.by = k

\* sign_message
sign_message(m, k) == [by |-> k, of |-> m]

\* verify_signature_from_pubkey: any failure is a FALSE.
verify_signature_from_pubkey(s, m, k) == s = [by |-> k, of |-> m]

-----------------------------------------------------------------------------
(* The request                                                             *)

\* Where the key of an item is given as absent ("session" here), the session
\* key is used, where it is "-" the data stays plain.
ItemKeys == {"session", "-"}

\* __encrypt_data
encrypt_item(c, v, e_key) ==
    encrypt_data(v, IF e_key = "-" THEN NoKey ELSE SessionKey(c))

\* __add_data_params: the index of an item is the length of the list.
add_data_params(items, c, e_key) ==
    Append(items, [index |-> Len(items), key |-> e_key,
                   data |-> encrypt_item(c, <<c, Len(items)>>, e_key)])

\* calculate_datahash: data and key of every item, by index; the index itself is
\* not part of the hash.
calculate_datahash(items) ==
    [i \in 1..Len(items) |-> <<items[i].data, items[i].key>>]

\* calculate_request_hash: the nonce and ids of the order, and its data.
calculate_request_hash(req) ==
    <<<<req.client, req.workload>>, calculate_datahash(req.items)>>

NoHash == [by |-> NoKey, of |-> <<<<0, "known">>, <<>>>>]

\* create_request: no data and no hash yet.
create_request(c, worker, workload) ==
    [client |-> c, workload |-> workload, session |-> encrypt_session_key(c, worker),
     items |-> <<>>, hash |-> NoHash]

\* The schema of WorkOrderSubmit wants an encrypted request hash.
SchemaAccepts(req) == req.hash # NoHash

-----------------------------------------------------------------------------
(* The worker                                                              *)

\* _verify_work_order_request: the hash the client sent is that of the request.
verify_work_order_request(req, k) ==
    /\ Decrypts(req.hash, k)
    /\ req.hash.of = calculate_request_hash(req)

\* decrypt_work_order_data_json: do_decrypt is set to False at the first plain
\* item and never set again, so everything from there on is taken as it is.
TakenAsIs(items, i) == \E j \in 1..i : items[j].key = "-"

Plain(t) == encrypt_data(t.of, NoKey)

decrypt_work_order_data_json(items) ==
    [i \in 1..Len(items) |-> IF TakenAsIs(items, i) THEN items[i].data
                                                    ELSE Plain(items[i].data)]

\* Fault: the SGX worker also stops decrypting at the first plain item.
UnpackAsIs(items) == decrypt_work_order_data_json(items)

\* WorkOrderDataHandler::Unpack in the SGX enclave decides for each item alone.
Unpack(items) == [i \in 1..Len(items) |-> Plain(items[i].data)]

\* _create_workload_processor: the workloads the worker has a class for.
Workloads == {"known", "unknown"}

create_workload_processor(workload) == workload = "known"

\* execute_workload: the output is a function of the data the workload sees.
execute_workload(seen) == seen

\* _create_response_out_data: one item, with the key "null".
create_response_out_data(out) == [key |-> "session", data |-> out]

\* encrypt_work_order_data_json: an item without a key of its own is encrypted
\* with the session key.
encrypt_work_order_data_json(item, k) ==
    encrypt_data(item.data, IF item.key = "-" THEN NoKey ELSE k)

\* calculate_response_hash: the ids of the order, and the output.
calculate_response_hash(client, out) == <<client, out>>

ErrorResponse == [error |-> TRUE]

\* _create_work_order_response
create_work_order_response(req, out, k) ==
    [client |-> req.client,
     outData |-> encrypt_work_order_data_json(create_response_out_data(out), k)]

\* SingletonWorkOrderProcessor._encrypt_and_sign_response: signed with the
\* worker's own key.
encrypt_and_sign_response(req, out, k, worker) ==
    LET resp == create_work_order_response(req, out, k)
    IN  [error |-> FALSE, result |-> resp, ext |-> <<>>,
         sig |-> sign_message(calculate_response_hash(resp.client, resp.outData), worker)]

\* SingletonWorkOrderProcessor._process_work_order.  A session key that cannot
\* be decrypted raises, which process_work_order turns into an error as well.
process_work_order(req, worker) ==
    LET k == req.session.of
    IN  IF /\ DecryptsSessionKey(req.session, worker) /\ verify_work_order_request(req, k)
           /\ create_workload_processor(req.workload)
        THEN encrypt_and_sign_response(
                 req, execute_workload(decrypt_work_order_data_json(req.items)), k, worker)
        ELSE ErrorResponse

\* The same in the SGX enclave, which refuses a request without data.
HandleWorkOrderRequest(req, worker) ==
    LET k == req.session.of
    IN  IF /\ DecryptsSessionKey(req.session, worker) /\ req.items # <<>>
           /\ verify_work_order_request(req, k) /\ create_workload_processor(req.workload)
        THEN encrypt_and_sign_response(req, execute_workload(Unpack(req.items)), k, worker)
        ELSE ErrorResponse

-----------------------------------------------------------------------------
(* The worker pool: the KME's keys for an order, and the WPE's use of them *)

\* WorkOrderDataHandler::InitializeDataEncryptionKey, one key per item.
item_key(item, k) == IF item.key = "-" THEN NoKey ELSE k

\* CalculateWorkOrderKeyInfoHash, and the same in the WPE.
calculate_wo_pre_proc_keys_hash(info) ==
    <<info.sym, info.wo_key, info.signing_key, info.input_data_keys>>

\* CreateWorkOrderKeyInfo: the keys of the order for one WPE.  The signature of
\* the order's verification key also covers the requester's nonce.
CreateWorkOrderKeyInfo(req, wpe, unique) ==
    LET c == req.client
        keys == [sym |-> encrypt_data(c, wpe),
                 wo_key |-> encrypt_data(req.session.of, <<"sym", c>>),
                 signing_key |-> encrypt_data(OrderKey(c), <<"sym", c>>),
                 input_data_keys |-> [i \in 1..Len(req.items) |->
                                         item_key(req.items[i], req.session.of)]]
    IN  [keys |-> keys,
         verification_key |-> OrderKey(c),
         verification_key_sig |-> sign_message(<<OrderKey(c), c>>, KmeKey),
         signature |-> sign_message(calculate_wo_pre_proc_keys_hash(keys), unique)]

\* unpack returns nothing for the empty key of a plain item, which the caller
\* cannot take apart.
unpack(key) == key # NoKey

\* verify_wo_keys_signature, with the unique key the WPE was signed up with.
verify_wo_keys_signature(info, uid) ==
    verify_signature_from_pubkey(info.signature,
                                 calculate_wo_pre_proc_keys_hash(info.keys), uid)

\* process_pre_proc_work_order_keys: each failure ends in an error response,
\* here or where the caller takes the error text for a dictionary.
process_pre_proc_work_order_keys(info, worker, uid) ==
    /\ Decrypts(info.keys.sym, worker)
    /\ \A i \in DOMAIN info.keys.input_data_keys : unpack(info.keys.input_data_keys[i])
    /\ verify_wo_keys_signature(info, uid)

\* WPEWorkOrderProcessor._encrypt_and_sign_response: signed with the order's key.
encrypt_and_sign_with_order_key(resp, info) ==
    sign_message(calculate_response_hash(resp.client, resp.outData),
                 info.keys.signing_key.of)

\* WPEWorkOrderProcessor._create_work_order_response adds the verification key.
create_wpe_response(req, out, k, info) ==
    LET resp == create_work_order_response(req, out, k)
    IN  [error |-> FALSE, result |-> resp,
         ext |-> <<[key |-> info.verification_key, sig |-> info.verification_key_sig]>>,
         sig |-> encrypt_and_sign_with_order_key(resp, info)]

\* WPEWorkOrderProcessor._process_work_order
process_wpe_work_order(req, info, worker, uid) ==
    LET k == info.keys.wo_key.of
    IN  IF /\ process_pre_proc_work_order_keys(info, worker, uid)
           /\ verify_work_order_request(req, k) /\ create_workload_processor(req.workload)
        THEN create_wpe_response(
                 req, execute_workload(decrypt_work_order_data_json(req.items)), k, info)
        ELSE ErrorResponse

-----------------------------------------------------------------------------
(* The response at the client                                              *)

\* _verify_wo_verification_key_signature
verify_wo_verification_key_signature(ext, k, nonce) ==
    verify_signature_from_pubkey(ext.sig, <<ext.key, nonce>>, k)

\* _verify_wo_response_signature
verify_wo_response_signature(resp, k) ==
    verify_signature_from_pubkey(
        resp.sig, calculate_response_hash(resp.result.client, resp.result.outData), k)

\* verify_signature: in two steps if the response brings a verification key.
verify_signature(resp, k, nonce) ==
    IF resp.ext = <<>>
    THEN verify_wo_response_signature(resp, k)
    ELSE /\ verify_wo_verification_key_signature(resp.ext[1], k, nonce)
         /\ verify_wo_response_signature(resp, resp.ext[1].key)

\* decrypt_wo_response
decrypt_wo_response(resp, c) == Decrypts(resp.result.outData, SessionKey(c))
=============================================================================
