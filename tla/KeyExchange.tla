---------------------------- MODULE KeyExchange ----------------------------
(***************************************************************************)
(* One run of the key exchange (key_exchange.c and the functions of        *)
(* helper_func.c and certificates.c it uses), with its arithmetic.         *)
(*                                                                         *)
(* A number travels in a buffer of WIDTH digits (DH_KEY_SIZE bytes), which *)
(* Numbers represents by the number it reads as.  The buffers are never    *)
(* cleared, so behind a number of fewer digits stands whatever the stack   *)
(* held.                                                                   *)
(*                                                                         *)
(* The key derivation, encryption and signature are taken to be collision  *)
(* free, and represented by what they are computed from.                   *)
(***************************************************************************)
EXTENDS Numbers

CONSTANTS
    DH_G,     \* the generator
    Primes,   \* what get_big_prime may find
    Secrets,  \* what mpz_urandomb may draw
    Stale,    \* what a buffer may hold before it is written
    Pems      \* the RSA keys that the key files may hold

ASSUME KeyExchangeAssumption ==
    /\ DH_G \in Nat
    /\ Primes \subseteq BufferValues \ {0}
    /\ Secrets \subseteq BufferValues
    /\ Stale \subseteq BufferValues
    /\ Pems \cap {"missing", "malformed"} = {}

VARIABLES
    private_pem,   \* the responder's key file, ./keys/private.pem
    server_pem,    \* the initiator's key file, ./keys/server.pem
    ipc, rpc,      \* where initiator and responder are
    prime, a,      \* the initiator's numbers
    session_key,   \* the key at each end
    signed_ok,     \* outcome of is_server_response_sign_valid
    hello,         \* the packet on its way
    short          \* history: an exported number had fewer than WIDTH digits

files == <<private_pem, server_pem>>
vars == <<files, ipc, rpc, prime, a, session_key, signed_ok, hello, short>>

Ends == {"init", "resp"}
NoKey == << >>
NoHello == << >>
GarbageKey == <<"garbage">>   \* derived from uninitialised numbers
Dead == {"killed", "ub", "segv", "exit"}

(***************************************************************************)
(* generate_session_key: HKDF over the buffer of the master key, salted    *)
(* with the two nonces.  The nonces are sent as the arrays they are, so    *)
(* both ends have the same ones.                                           *)
(***************************************************************************)
\* Mutant: the end's own generator takes the place of the peer's number.
Mut_Master(dh, secret, p) == PowM(DH_G, secret, p)

Master(dh, secret, p) == PowM(dh, secret, p)

CreateSessionKey(master_key, n0, n1) == <<"HKDF", master_key, n0, n1>>

\* aes_encrypt under key, and whether aes_decrypt under key undoes it.
AesEncrypt(plaintext, key) == [plaintext |-> plaintext, key |-> key]
AesDecrypts(ciphertext, key) == ciphertext.key = key

(***************************************************************************)
(* certificates.c: get_public_key, and then sign_data, read the private    *)
(* key file.  Without the file the first of them ends the process in       *)
(* fclose(NULL), without a key in it in handle_openssl_error.              *)
(* What sign_data_to_client signs, and what is_server_response_sign_valid  *)
(* checks: first the public key against the initiator's file, then the     *)
(* signature with the key of that file.                                    *)
(***************************************************************************)
KeyFileEffect(pem) ==
    CASE pem = "missing"   -> "segv"
      [] pem = "malformed" -> "exit"
      [] OTHER             -> "done"

SignDataToClient(n0, n1, dhA_bytes, dhB_bytes, pem) ==
    [public_key |-> pem, signed |-> <<n0, n1, dhA_bytes, dhB_bytes, pem>>]

\* Mutant: the public key is not compared.
Mut_SignValid(plaintext, n0, n1, dhA_bytes, dhB_bytes, pem) ==
    plaintext.signed =
        <<n0, n1, dhA_bytes, dhB_bytes, plaintext.public_key>>

SignValid(plaintext, n0, n1, dhA_bytes, dhB_bytes, pem) ==
    /\ plaintext.public_key = pem
    /\ plaintext.signed = <<n0, n1, dhA_bytes, dhB_bytes, pem>>

\* External: send, to a process that may have ended.
Delivered(packet, to) == IF to \in Dead THEN NoHello ELSE packet

-----------------------------------------------------------------------------
Init ==
    /\ private_pem \in Pems \cup {"missing", "malformed"}
    /\ server_pem \in Pems \cup {"missing"}
    /\ ipc = "start" /\ rpc = "client_hello"
    /\ prime = 0 /\ a = 0
    /\ session_key = [e \in Ends |-> NoKey]
    /\ signed_ok = FALSE
    /\ hello = NoHello
    /\ short = FALSE

TypeOK ==
    /\ private_pem \in Pems \cup {"missing", "malformed"}
    /\ server_pem \in Pems \cup {"missing"}
    /\ ipc \in {"start", "server_hello", "done", "segv", "killed"}
    /\ rpc \in {"client_hello", "done"} \cup Dead
    /\ prime \in BufferValues /\ a \in BufferValues
    /\ DOMAIN session_key = Ends
    /\ signed_ok \in BOOLEAN /\ short \in BOOLEAN
    /\ hello = NoHello \/ hello.dh \in BufferValues

\* get_big_prime, initialize_values and send_client_hello.
SendClientHello(p, x, old1, old2) ==
    LET dhA == PowM(DH_G, x, p) IN
    /\ ipc = "start"
    /\ ipc' = "server_hello"
    /\ prime' = p
    /\ a' = x
    /\ hello' = Delivered([prime |-> Export(p, old1), dh |-> Export(dhA, old2),
                           n0 |-> "n0"], rpc)
    /\ short' = (Short(p) \/ Short(dhA))
    /\ UNCHANGED <<files, rpc, session_key, signed_ok>>

\* receive_client_hello and send_server_hello.
AnswerClientHello(b, old1, old2, old3) ==
    LET p   == Import(hello.prime)
        dhA == Import(hello.dh)
        dhB == PowM(DH_G, b, p)
        dhB_bytes  == Export(dhB, old1)
        master_key == Master(dhA, b, p)
        key == CreateSessionKey(Export(master_key, old2), hello.n0, "n1")
        signature == SignDataToClient(hello.n0, "n1", Export(dhA, old3),
                                      dhB_bytes, private_pem)
    IN
    /\ rpc = "client_hello"
    /\ hello # NoHello
    /\ rpc' = KeyFileEffect(private_pem)
    /\ session_key' = [session_key EXCEPT !["resp"] = key]
    /\ hello' = IF rpc' # "done" THEN NoHello
                ELSE Delivered([dh |-> dhB_bytes, n1 |-> "n1",
                                ciphertext |-> AesEncrypt(signature, key)], ipc)
    /\ short' = (short \/ Short(dhB) \/ Short(master_key) \/ Short(dhA))
    /\ UNCHANGED <<files, ipc, prime, a, signed_ok>>

(***************************************************************************)
(* The initiator ended before its hello: receive_client_hello returns with *)
(* prime and dhA_mpz uninitialised, and send_server_hello computes with    *)
(* them all the same.  It dies of that, or derives some key and goes on.   *)
(***************************************************************************)
AnswerNothing ==
    /\ rpc = "client_hello"
    /\ ipc \in Dead
    /\ hello = NoHello
    /\ \/ rpc' = "ub" /\ UNCHANGED session_key
       \/ /\ rpc' = KeyFileEffect(private_pem)
          /\ session_key' = [session_key EXCEPT !["resp"] = GarbageKey]
    /\ UNCHANGED <<files, ipc, prime, a, signed_ok, hello, short>>

(***************************************************************************)
(* receive_server_hello.  If the hello does not decrypt under the derived  *)
(* key, plaintext_len is -1, and copying plaintext_len - 256 bytes ends    *)
(* the process; so does fseek(NULL) if there is no key file.  The outcome  *)
(* of the signature check is only logged.                                  *)
(***************************************************************************)
\* Mutant: the outcome of the decryption is not looked at.
Mut_Survives(ciphertext, key) == server_pem # "missing"

Survives(ciphertext, key) ==
    AesDecrypts(ciphertext, key) /\ server_pem # "missing"

ReceiveServerHello(old1, old2) ==
    LET master_key == Master(Import(hello.dh), a, prime)
        key == CreateSessionKey(Export(master_key, old1), "n0", hello.n1)
        dhA_bytes == Export(PowM(DH_G, a, prime), old2)
    IN
    /\ ipc = "server_hello"
    /\ rpc # "client_hello"
    /\ hello # NoHello
    /\ session_key' = [session_key EXCEPT !["init"] = key]
    /\ short' = (short \/ Short(master_key))
    /\ \/ /\ Survives(hello.ciphertext, key)
          /\ ipc' = "done"
          /\ signed_ok' = SignValid(hello.ciphertext.plaintext, "n0", hello.n1,
                                   dhA_bytes, hello.dh, server_pem)
       \/ /\ ~Survives(hello.ciphertext, key)
          /\ ipc' = "segv"
          /\ UNCHANGED signed_ok
    /\ hello' = NoHello
    /\ UNCHANGED <<files, rpc, prime, a>>

\* The responder ended without an answer: receive_server_hello returns early
\* and its caller goes on with the session key it never got.
ReceiveNothing ==
    /\ ipc = "server_hello"
    /\ rpc \in Dead
    /\ hello = NoHello
    /\ ipc' = "done"
    /\ UNCHANGED <<files, rpc, prime, a, session_key, signed_ok, hello, short>>

(***************************************************************************)
(* External: a process is killed.  What it has sent still arrives; what    *)
(* was sent to it is lost.                                                 *)
(***************************************************************************)
KillInitiator ==
    /\ ipc \in {"start", "server_hello"}
    /\ ipc' = "killed"
    /\ hello' = IF rpc = "client_hello" THEN hello ELSE NoHello
    /\ UNCHANGED <<files, rpc, prime, a, session_key, signed_ok, short>>

KillResponder ==
    /\ rpc \in {"client_hello", "done"}
    /\ rpc' = "killed"
    /\ hello' = IF rpc = "client_hello" THEN NoHello ELSE hello
    /\ UNCHANGED <<files, ipc, prime, a, session_key, signed_ok, short>>

Next ==
    \/ \E p \in Primes, x \in Secrets, old1, old2 \in Stale :
           SendClientHello(p, x, old1, old2)
    \/ \E b \in Secrets, old1, old2, old3 \in Stale :
           AnswerClientHello(b, old1, old2, old3)
    \/ AnswerNothing
    \/ \E old1, old2 \in Stale : ReceiveServerHello(old1, old2)
    \/ ReceiveNothing
    \/ KillInitiator
    \/ KillResponder

Spec == Init /\ [][Next]_vars

-----------------------------------------------------------------------------
(***************************************************************************)
(* What an exchange may fail of.  An initiator dies in it only if a number *)
(* was short or its key file is missing.  A responder dies in it only if   *)
(* its key file is bad, or of an initiator that was killed before it sent  *)
(* its hello.                                                              *)
(***************************************************************************)
FailureCauses ==
    /\ ipc = "segv" => short \/ server_pem = "missing"
    /\ rpc \in {"segv", "exit"} => private_pem \notin Pems
    /\ rpc = "ub" => ipc = "killed" /\ prime = 0

(***************************************************************************)
(* An initiator that goes on has the responder's key, or the responder is  *)
(* dead and it has none; it never goes on with a key of its own, short     *)
(* numbers or not.                                                         *)
(***************************************************************************)
NoKeyOfItsOwn ==
    ipc = "done" =>
        \/ session_key["init"] = session_key["resp"]
        \/ session_key["init"] = NoKey /\ rpc \in Dead

(***************************************************************************)
(* The signature is found valid exactly when it should be: never for a     *)
(* responder that does not hold the key that the initiator has on file,    *)
(* short numbers or not; and always for one that does, if no number was    *)
(* short.  With a short number the two ends may sign and verify different  *)
(* bytes, and the signature of the right responder is refused.             *)
(***************************************************************************)
VerdictIsRight ==
    ipc = "done" /\ session_key["init"] # NoKey =>
        /\ signed_ok => private_pem = server_pem
        /\ ~short /\ private_pem = server_pem => signed_ok

\* README.md, connect_and_key_exchange_with_servers: "Uses Diffie-Hellman Key
\* Exchange to generate a shared session key": every exchange between two
\* processes that live and have their key files ends with one.
ExchangeSucceeds ==
    rpc = "done" /\ private_pem = server_pem => ipc # "segv"

=============================================================================
