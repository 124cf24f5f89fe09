-------------------------------- MODULE Net --------------------------------
(***************************************************************************)
(* What the three programs share: their processes and the TCP connections  *)
(* between them, with the packets that key_exchange.c and helper_func.c    *)
(* put on them.                                                            *)
(*                                                                         *)
(* External: the operating system.  A connection delivers in order and     *)
(* without loss while both ends are open.  An end that is closed (also by  *)
(* the death of its process) reads as end of file at the other end, after  *)
(* what was already delivered.  Sending to a closed end, closing an end    *)
(* with unread input, and the death of a listener with the connection      *)
(* still in its queue all reset the connection; a later send on a reset    *)
(* connection may raise SIGPIPE, which none of the programs handles.       *)
(***************************************************************************)
EXTENDS Naturals, Sequences

CONSTANTS
    NUM_SERVERS,   \* router.h
    Clients,       \* client processes
    Router,        \* the router process
    KeysMayDiffer, \* a key exchange may leave the ends with different keys
    MaxConns       \* bound: connections at a time

ASSUME NetAssumption ==
    /\ NUM_SERVERS \in Nat \ {0}
    /\ MaxConns \in Nat
    /\ KeysMayDiffer \in BOOLEAN
    /\ Router \notin Clients \cup (0 .. NUM_SERVERS - 1)
    /\ Clients \cap (0 .. NUM_SERVERS - 1) = {}

Servers == 0 .. NUM_SERVERS - 1
Procs == Servers \cup Clients \cup {Router}

VARIABLES
    conns,     \* the connections, by number
    backlog,   \* per process: connections made to it and not yet accepted
    life,      \* per process: "up", or how it ended
    failed     \* history: the processes that ever ended by a signal

netvars == <<conns, backlog, life, failed>>

Ends == {"init", "resp"}
Other(e) == IF e = "init" THEN "resp" ELSE "init"
NoConn == 0

(***************************************************************************)
(* The session key at one end: unset, the one both ends derived, or a      *)
(* garbage one that no other process has.                                  *)
(***************************************************************************)
Keys == {"unset", "shared", "garbage"}

(***************************************************************************)
(* helper_func.c: a data packet is nonce, tag and ciphertext.              *)
(* send_encypted_data labels it with the key it is encrypted with.         *)
(***************************************************************************)
OVERHEAD == 16 + 16                  \* DH_NONCE_SIZE + AES_TAG_SIZE
RECV_MAX == 16 + 16 + 2048           \* expected_payload_len

\* External: bytes that TCP puts into one segment on the Ethernet links of
\* the deployment.  A longer packet arrives in pieces (see SecureChannel).
SEGMENT_MAX == 1448

DataPacket(cs, c, e, body, len) ==
    [type |-> "Data", key |-> cs[c].key[e], body |-> body,
     len |-> OVERHEAD + len]

(***************************************************************************)
(* key_exchange.c: the two packets of the handshake.  A server hello whose *)
(* key is garbage is one after which the two ends derive different keys    *)
(* (a number exported in fewer than DH_KEY_SIZE bytes: see KeyExchange).   *)
(***************************************************************************)
Hello(type, key, len) ==
    [type |-> type, key |-> key, body |-> [kind |-> "HELLO"], len |-> len]

ClientHello == Hello("ClientHello", "unset", 256 + 256 + 16)
ServerHello(key) == Hello("ServerHello", key, 256 + 16 + 16 + 256 + 451)

-----------------------------------------------------------------------------
(***************************************************************************)
(* External: sockets, as operators on the connections cs.                  *)
(***************************************************************************)
FreeConns == (1 .. MaxConns) \ DOMAIN conns
FreshConn == CHOOSE c \in FreeConns : \A d \in FreeConns : c <= d

Connected(p, q) ==
    [c \in DOMAIN conns \cup {FreshConn} |->
        IF c # FreshConn THEN conns[c]
        ELSE [who   |-> [e \in Ends |-> IF e = "init" THEN p ELSE q],
              open  |-> [e \in Ends |-> TRUE],
              inbox |-> [e \in Ends |-> << >>],
              reset |-> FALSE,
              key   |-> [e \in Ends |-> "unset"]]]

\* send: delivered if the other end is open, otherwise it provokes a reset.
Sent(cs, c, e, packet) ==
    IF cs[c].open[Other(e)]
    THEN [cs EXCEPT ![c].inbox[Other(e)] = Append(@, packet)]
    ELSE [cs EXCEPT ![c].reset = TRUE]

\* A send on c may raise SIGPIPE.
Broken(cs, c, e) == ~cs[c].open[Other(e)] /\ cs[c].reset

\* recv: does not block, and then takes the next packet or is at the end.
\* Mutant: recv gives up instead of waiting.
Mut_CanRecv(c, e) == TRUE

CanRecv(c, e) == conns[c].inbox[e] # << >> \/ ~conns[c].open[Other(e)]
AtEnd(c, e) == conns[c].inbox[e] = << >>
Received(c, e) == Head(conns[c].inbox[e])
Taken(c, e) ==
    IF AtEnd(c, e) THEN conns ELSE [conns EXCEPT ![c].inbox[e] = Tail(@)]

(***************************************************************************)
(* receive_encypted_data returns data, not an error: recv takes at most    *)
(* RECV_MAX bytes, and they decrypt if they are a whole packet under the   *)
(* key of this end.                                                        *)
(***************************************************************************)
\* Mutant: packets shorter than one more AES block count as errors.
Mut_Decrypts(packet, key) ==
    /\ packet.type = "Data"
    /\ packet.len \in OVERHEAD + 16 .. RECV_MAX
    /\ packet.key = "shared"
    /\ key = "shared"

Decrypts(packet, key) ==
    /\ packet.type = "Data"
    /\ packet.len <= RECV_MAX
    /\ packet.key = "shared"
    /\ key = "shared"

Readable(c, e) ==
    IF AtEnd(c, e) THEN FALSE ELSE Decrypts(Received(c, e), conns[c].key[e])

WithKey(cs, c, e, key) == [cs EXCEPT ![c].key[e] = key]

\* close: a connection with both ends closed is forgotten.
Shut(conn, e, pending) ==
    [conn EXCEPT !.open[e] = FALSE,
                 !.inbox[e] = << >>,
                 !.key[e] = "unset",
                 !.reset = @ \/ conn.inbox[e] # << >> \/ pending]

Closed(cs, c, e) ==
    IF cs[c].open[Other(e)]
    THEN [cs EXCEPT ![c] = Shut(@, e, FALSE)]
    ELSE [d \in DOMAIN cs \ {c} |-> cs[d]]

EndOf(conn, p) == IF conn.who["init"] = p THEN "init" ELSE "resp"

\* The death of p closes every end p has open.
HasOpen(conn, p) == \E e \in Ends : conn.who[e] = p /\ conn.open[e]

Orphaned(cs, p) ==
    [c \in {d \in DOMAIN cs : HasOpen(cs[d], p) =>
                cs[d].open[Other(EndOf(cs[d], p))]} |->
        IF HasOpen(cs[c], p)
        THEN Shut(cs[c], EndOf(cs[c], p),
                  \E i \in 1 .. Len(backlog[p]) : backlog[p][i] = c)
        ELSE cs[c]]

-----------------------------------------------------------------------------
(***************************************************************************)
(* key_exchange.c.  The responder of connection c answers a client hello   *)
(* with a server hello (server_get_session_key).  If the connection ended  *)
(* first, receive_client_hello returns early with prime and dhA_mpz never  *)
(* initialised: send_server_hello then either dies of them or answers with *)
(* a key made of garbage.                                                  *)
(***************************************************************************)
HelloKeys == IF KeysMayDiffer THEN {"shared", "garbage"} ELSE {"shared"}

ResponderKeys(c) == IF AtEnd(c, "resp") THEN {"garbage"} ELSE HelloKeys

\* Mutant: the server hello is not sent.
Mut_Answered(c, key) == WithKey(Taken(c, "resp"), c, "resp", key)

Answered(c, key) ==
    Sent(WithKey(Taken(c, "resp"), c, "resp", key),
         c, "resp", ServerHello(key))

(***************************************************************************)
(* The initiator of connection c (receive_server_hello) returns early if   *)
(* the connection ended, and leaves its key unset.  If the two keys        *)
(* differ, aes_decrypt returns -1, and copying the server_public_key_len = *)
(* -1 - 256 bytes ends the process.  The outcome of the signature check is *)
(* only logged.                                                            *)
(***************************************************************************)
\* Mutant: a hello that does not decrypt is accepted.
Mut_HelloUsable(c) == TRUE

HelloUsable(c) == ~AtEnd(c, "init") => Received(c, "init").key = "shared"

HelloReceived(c) ==
    IF AtEnd(c, "init") THEN conns
    ELSE WithKey(Taken(c, "init"), c, "init", "shared")

-----------------------------------------------------------------------------
(***************************************************************************)
(* Steps of a process on the network.                                      *)
(***************************************************************************)
Listening(q) == life[q] = "up"

\* connect to q, which is listening; q need not be ready to accept.
Connect(p, q) ==
    /\ FreeConns # {}
    /\ Listening(q)
    /\ conns' = Connected(p, q)
    /\ backlog' = [backlog EXCEPT ![q] = Append(@, FreshConn)]
    /\ UNCHANGED <<life, failed>>

Accept(p) ==
    /\ backlog[p] # << >>
    /\ backlog' = [backlog EXCEPT ![p] = Tail(@)]
    /\ UNCHANGED <<conns, life, failed>>

Communicate(cs) ==
    /\ conns' = cs
    /\ UNCHANGED <<backlog, life, failed>>

\* p ends, with its connections as they are in cs.
End(p, how, cs) ==
    /\ conns' = Orphaned(cs, p)
    /\ backlog' = [backlog EXCEPT ![p] = << >>]
    /\ life' = [life EXCEPT ![p] = how]
    /\ failed' = IF how \in {"exit", "refused"} THEN failed ELSE failed \cup {p}

Begin(p) ==
    /\ life[p] # "up"
    /\ life' = [life EXCEPT ![p] = "up"]
    /\ UNCHANGED <<conns, backlog, failed>>

NetInit ==
    /\ conns = << >>
    /\ backlog = [p \in Procs |-> << >>]
    /\ life = [p \in Procs |-> IF p \in Clients THEN "exit" ELSE "up"]
    /\ failed = {}

Lives == {"up", "exit", "refused", "killed", "sigpipe", "ub", "segv"}

NetTypeOK ==
    /\ DOMAIN conns \subseteq 1 .. MaxConns
    /\ \A c \in DOMAIN conns :
           /\ conns[c].who \in [Ends -> Procs]
           /\ conns[c].open \in [Ends -> BOOLEAN]
           /\ conns[c].key \in [Ends -> Keys]
           /\ conns[c].reset \in BOOLEAN
           /\ \E e \in Ends : conns[c].open[e]
    /\ backlog \in [Procs -> Seq(1 .. MaxConns)]
    /\ life \in [Procs -> Lives]
    /\ failed \subseteq Procs

=============================================================================
