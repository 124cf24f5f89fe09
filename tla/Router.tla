------------------------------- MODULE Router -------------------------------
(***************************************************************************)
(* The router (router.c): main listens, connects to every server and makes *)
(* the initiator's half of a key exchange with it, once; then it accepts   *)
(* one client at a time and runs handle_client on it, which passes every   *)
(* request on to the servers and answers with what they answered.  A step  *)
(* goes from one blocking call to the next; connecting and sending the     *)
(* client hello are two steps, with the search for a prime between them.   *)
(***************************************************************************)
EXTENDS Net, Chain

VARIABLES
    rpc,             \* where the router is
    ri,              \* i of its loops over the servers, or server_index
    current_server,  \* the server that gets the next store
    server_sockets,  \* the connection to each server
    client_sock,     \* the connection handle_client runs on
    request,         \* decrypted_data: the request being served
    replies,         \* the servers' answers to a RETRIEVE so far
    routerStarts     \* history: how often the router was started

routervars == <<rpc, ri, current_server, server_sockets, client_sock,
                request, replies, routerStarts>>

NoRequest == [kind |-> "NONE"]

RouterInit ==
    /\ rpc = "connect"
    /\ ri = 0
    /\ current_server = 0
    /\ server_sockets = [s \in Servers |-> NoConn]
    /\ client_sock = NoConn
    /\ request = NoRequest
    /\ replies = << >>
    /\ routerStarts = 1

RouterTypeOK ==
    /\ rpc \in {"connect", "connected", "server_hello",
                "accept", "client_hello", "serve", "await"}
    /\ ri \in Servers
    /\ current_server \in Servers
    /\ server_sockets \in [Servers -> 0 .. MaxConns]
    /\ client_sock \in 0 .. MaxConns
    /\ request.kind \in {"NONE", "RETRIEVE", "STORE"}
    /\ Len(replies) < NUM_SERVERS
    /\ routerStarts \in Nat

RouterGone ==
    /\ rpc' = "connect"
    /\ ri' = 0
    /\ current_server' = 0
    /\ server_sockets' = [s \in Servers |-> NoConn]
    /\ client_sock' = NoConn
    /\ request' = NoRequest
    /\ replies' = << >>
    /\ UNCHANGED routerStarts

RouterDies(how, cs) == End(Router, how, cs) /\ RouterGone

\* External: an operator starts a router that ended again.
RouterStart ==
    /\ Begin(Router)
    /\ routerStarts' = routerStarts + 1
    /\ UNCHANGED <<rpc, ri, current_server, server_sockets, client_sock,
                   request, replies>>

RouterAt(pc) == life[Router] = "up" /\ rpc = pc

-----------------------------------------------------------------------------
(***************************************************************************)
(* connect_and_key_exchange_with_servers, for server ri.                   *)
(***************************************************************************)
RouterConnect ==
    /\ RouterAt("connect")
    /\ \/ /\ Connect(Router, ri)
          /\ server_sockets' = [server_sockets EXCEPT ![ri] = FreshConn]
          /\ rpc' = "connected"
          /\ UNCHANGED <<ri, current_server, client_sock, request, replies,
                         routerStarts>>
       \/ /\ ~Listening(ri)
          /\ RouterDies("refused", conns)

RouterSendHello ==
    LET c == server_sockets[ri] IN
    /\ RouterAt("connected")
    /\ \/ /\ Communicate(Sent(conns, c, "init", ClientHello))
          /\ rpc' = "server_hello"
          /\ UNCHANGED <<ri, current_server, server_sockets, client_sock,
                         request, replies, routerStarts>>
       \/ /\ Broken(conns, c, "init")
          /\ RouterDies("sigpipe", conns)

RouterRecvHello ==
    LET c == server_sockets[ri] IN
    /\ RouterAt("server_hello")
    /\ CanRecv(c, "init")
    /\ \/ /\ HelloUsable(c)
          /\ Communicate(HelloReceived(c))
          /\ IF ri + 1 < NUM_SERVERS
             THEN rpc' = "connect" /\ ri' = ri + 1
             ELSE rpc' = "accept" /\ ri' = 0
          /\ UNCHANGED <<current_server, server_sockets, client_sock,
                         request, replies, routerStarts>>
       \/ /\ ~HelloUsable(c)
          /\ RouterDies("segv", Taken(c, "init"))

-----------------------------------------------------------------------------
RouterAccept ==
    /\ RouterAt("accept")
    /\ Accept(Router)
    /\ client_sock' = Head(backlog[Router])
    /\ rpc' = "client_hello"
    /\ UNCHANGED <<ri, current_server, server_sockets, request, replies,
                   routerStarts>>

\* server_get_session_key in handle_client.
RouterHandshake ==
    LET c == client_sock IN
    /\ RouterAt("client_hello")
    /\ CanRecv(c, "resp")
    /\ \/ /\ \E key \in ResponderKeys(c) : Communicate(Answered(c, key))
          /\ rpc' = "serve"
          /\ UNCHANGED <<ri, current_server, server_sockets, client_sock,
                         request, replies, routerStarts>>
       \/ /\ AtEnd(c, "resp")
          /\ RouterDies("ub", conns)

(***************************************************************************)
(* send_command_to_server up to its recv: request r goes to server i on    *)
(* the connections cs.  The router goes on with current_server = next and  *)
(* with the answers it has so far.                                         *)
(***************************************************************************)
CommandLen(r) == IF r.kind = "RETRIEVE" THEN 8 ELSE DATA_LEN

SendCommand(cs, i, r, next, answers) ==
    LET c == server_sockets[i] IN
    \/ /\ Communicate(Sent(cs, c, "init",
                           DataPacket(cs, c, "init", r, CommandLen(r))))
       /\ rpc' = "await"
       /\ ri' = i
       /\ request' = r
       /\ current_server' = next
       /\ replies' = answers
       /\ UNCHANGED <<server_sockets, client_sock, routerStarts>>
    \/ /\ Broken(cs, c, "init")
       /\ RouterDies("sigpipe", cs)

\* Mutant: the index does not wrap around.
Mut_NextServer(i) == i + 1

\* Mutant: every other server is passed over.
Mut_NextServerSkips(i) == (i + 2) % NUM_SERVERS

NextServer(i) == (i + 1) % NUM_SERVERS

\* Mutant: a failed receive does not end the session.
Mut_SessionOver(c) ==
    IF Readable(c, "resp") THEN Received(c, "resp").body.kind = "EXIT" ELSE FALSE

\* The loop ends with the connection, with a packet that does not decrypt,
\* and with EXIT (which closes the connection, whatever the log says).
SessionOver(c) ==
    Readable(c, "resp") => Received(c, "resp").body.kind = "EXIT"

\* handle_client's loop: a RETRIEVE starts with server 0, a store goes to
\* current_server, which moves on whatever becomes of the store.
RouterServe ==
    LET c  == client_sock
        cs == Taken(c, "resp")
        r == Received(c, "resp").body
    IN
    /\ RouterAt("serve")
    /\ CanRecv(c, "resp")
    /\ \/ /\ Readable(c, "resp")
          /\ r.kind = "RETRIEVE"
          /\ SendCommand(cs, 0, r, current_server, << >>)
       \/ /\ Readable(c, "resp")
          /\ r.kind = "STORE"
          /\ SendCommand(cs, current_server, r,
                         NextServer(current_server), << >>)
       \/ /\ SessionOver(c)
          /\ Communicate(Closed(cs, c, "resp"))
          /\ rpc' = "accept"
          /\ client_sock' = NoConn
          /\ UNCHANGED <<ri, current_server, server_sockets, request,
                         replies, routerStarts>>

(***************************************************************************)
(* send_command_to_server from its recv on: any failure to receive counts  *)
(* as an answer, "Reached size limit for server response".                 *)
(***************************************************************************)
\* Mutant: a failure to receive counts as the acknowledgement of a store.
Mut_ServerReply(c) ==
    IF Readable(c, "init")
    THEN Received(c, "init").body
    ELSE Reply("DATA_STORED", << >>)

ServerReply(c) ==
    IF Readable(c, "init")
    THEN Received(c, "init").body
    ELSE Reply("NO_RESPONSE", << >>)

\* "Server %d:\n%s\n", cut to what formatted_server_response holds.
FORMATTED_MAX == 2047

FormattedLen(answers) ==
    LET total[n \in 0 .. Len(answers)] ==   \* of the first n answers
            IF n = 0 THEN 0
            ELSE total[n - 1] + Least(11 + ReplyLen(answers[n]), FORMATTED_MAX)
    IN  total[Len(answers)]

AnswerClient(cs, body, len) ==
    /\ Communicate(Sent(cs, client_sock, "resp",
                        DataPacket(cs, client_sock, "resp", body, len)))
    /\ rpc' = "serve"
    /\ ri' = 0
    /\ request' = NoRequest
    /\ replies' = << >>
    /\ UNCHANGED <<current_server, server_sockets, client_sock, routerStarts>>

RouterReply ==
    LET c     == server_sockets[ri]
        cs    == Taken(c, "init")
        reply == ServerReply(c)
        answers == Append(replies, reply)
    IN
    /\ RouterAt("await")
    /\ CanRecv(c, "init")
    /\ \/ /\ request.kind = "STORE"
          /\ AnswerClient(cs, reply, ReplyLen(reply))
       \/ /\ request.kind = "RETRIEVE"
          /\ ri + 1 < NUM_SERVERS
          /\ SendCommand(cs, ri + 1, request, current_server, answers)
       \/ /\ request.kind = "RETRIEVE"
          /\ ri + 1 = NUM_SERVERS
          /\ AnswerClient(cs, [kind |-> "LIST", parts |-> answers],
                          FormattedLen(answers))

RouterStep ==
    \/ RouterConnect
    \/ RouterSendHello
    \/ RouterRecvHello
    \/ RouterAccept
    \/ RouterHandshake
    \/ RouterServe
    \/ RouterReply

=============================================================================
