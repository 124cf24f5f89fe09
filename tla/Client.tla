------------------------------- MODULE Client -------------------------------
(***************************************************************************)
(* The clients (client.c): main connects to the router, makes the          *)
(* initiator's half of the key exchange and then carries out the commands  *)
(* of its user, each of which waits for its answer.                        *)
(***************************************************************************)
EXTENDS Net, Chain

CONSTANT MaxStores   \* bound: store commands sent

ASSUME ClientAssumption == MaxStores \in Nat

VARIABLES
    cpc,     \* where each client is
    sockfd,  \* its connection, NoConn after close(sockfd)
    cmd,     \* the command it waits for the answer to
    sent,    \* history: how often each payload was sent for storing
    acked,   \* history: how often a client read DATA_STORED for it
    known    \* history: acked when the client sent its last retrieve

clientvars == <<cpc, sockfd, cmd, sent, acked, known>>

NoCommand == [kind |-> "NONE"]
Nothing == [d \in Data |-> 0]

ClientInit ==
    /\ cpc = [c \in Clients |-> "off"]
    /\ sockfd = [c \in Clients |-> NoConn]
    /\ cmd = [c \in Clients |-> NoCommand]
    /\ sent = Nothing
    /\ acked = Nothing
    /\ known = [c \in Clients |-> Nothing]

ClientTypeOK ==
    /\ cpc \in [Clients -> {"off", "connected", "server_hello", "idle", "await"}]
    /\ sockfd \in [Clients -> 0 .. MaxConns]
    /\ \A c \in Clients : cmd[c].kind \in {"NONE", "RETRIEVE", "STORE"}
    /\ sent \in [Data -> 0 .. MaxStores]
    /\ acked \in [Data -> 0 .. MaxStores]
    /\ known \in [Clients -> [Data -> 0 .. MaxStores]]

ClientGone(c) ==
    /\ cpc' = [cpc EXCEPT ![c] = "off"]
    /\ sockfd' = [sockfd EXCEPT ![c] = NoConn]
    /\ cmd' = [cmd EXCEPT ![c] = NoCommand]
    /\ known' = [known EXCEPT ![c] = Nothing]
    /\ UNCHANGED <<sent, acked>>

ClientDies(c, how, cs) == End(c, how, cs) /\ ClientGone(c)

\* Mutant: the user's next command is not held back by one that waits.
Mut_ClientAt(c, pc) ==
    /\ life[c] = "up"
    /\ cpc[c] = pc \/ (pc = "idle" /\ cpc[c] = "await")

ClientAt(c, pc) == life[c] = "up" /\ cpc[c] = pc

\* The user runs the client.  Without a router listening it gives up.
ClientConnect(c) ==
    /\ life[c] # "up"
    /\ \/ /\ FreeConns # {}
          /\ Listening(Router)
          /\ conns' = Connected(c, Router)
          /\ backlog' = [backlog EXCEPT ![Router] = Append(@, FreshConn)]
          /\ life' = [life EXCEPT ![c] = "up"]
          /\ cpc' = [cpc EXCEPT ![c] = "connected"]
          /\ sockfd' = [sockfd EXCEPT ![c] = FreshConn]
          /\ UNCHANGED <<failed, cmd, sent, acked, known>>
       \/ /\ ~Listening(Router)
          /\ ClientDies(c, "refused", conns)

ClientSendHello(c) ==
    /\ ClientAt(c, "connected")
    /\ \/ /\ Communicate(Sent(conns, sockfd[c], "init", ClientHello))
          /\ cpc' = [cpc EXCEPT ![c] = "server_hello"]
          /\ UNCHANGED <<sockfd, cmd, sent, acked, known>>
       \/ /\ Broken(conns, sockfd[c], "init")
          /\ ClientDies(c, "sigpipe", conns)

ClientRecvHello(c) ==
    /\ ClientAt(c, "server_hello")
    /\ CanRecv(sockfd[c], "init")
    /\ \/ /\ HelloUsable(sockfd[c])
          /\ Communicate(HelloReceived(sockfd[c]))
          /\ cpc' = [cpc EXCEPT ![c] = "idle"]
          /\ UNCHANGED <<sockfd, cmd, sent, acked, known>>
       \/ /\ ~HelloUsable(sockfd[c])
          /\ ClientDies(c, "segv", Taken(sockfd[c], "init"))

(***************************************************************************)
(* store_data and retrieve_data up to their recv.  After an error has      *)
(* closed sockfd the commands fail at once and change nothing.             *)
(***************************************************************************)
RequestPacket(c, r) ==
    DataPacket(conns, sockfd[c], "init", r,
               IF r.kind = "RETRIEVE" THEN 256 ELSE DATA_LEN)

ClientSend(c, r, sentNow) ==
    /\ ClientAt(c, "idle")
    /\ sockfd[c] # NoConn
    /\ \/ /\ Communicate(Sent(conns, sockfd[c], "init", RequestPacket(c, r)))
          /\ cpc' = [cpc EXCEPT ![c] = "await"]
          /\ cmd' = [cmd EXCEPT ![c] = r]
          /\ sent' = sentNow
          /\ known' = [known EXCEPT ![c] = IF r.kind = "RETRIEVE" THEN acked
                                          ELSE Nothing]
          /\ UNCHANGED <<sockfd, acked>>
       \/ /\ Broken(conns, sockfd[c], "init")
          /\ ClientDies(c, "sigpipe", conns)

ClientStore(c, d) ==
    /\ sent[d] < MaxStores
    /\ ClientSend(c, [kind |-> "STORE", data |-> d],
                  [sent EXCEPT ![d] = @ + 1])

ClientRetrieve(c) == ClientSend(c, [kind |-> "RETRIEVE"], sent)

\* store_data and retrieve_data from their recv on.
ClientReceive(c) ==
    LET body == Received(sockfd[c], "init").body IN
    /\ ClientAt(c, "await")
    /\ CanRecv(sockfd[c], "init")
    /\ cpc' = [cpc EXCEPT ![c] = "idle"]
    /\ cmd' = [cmd EXCEPT ![c] = NoCommand]
    /\ known' = [known EXCEPT ![c] = Nothing]
    /\ UNCHANGED sent
    /\ \/ /\ Readable(sockfd[c], "init")
          /\ Communicate(Taken(sockfd[c], "init"))
          /\ acked' = IF cmd[c].kind = "STORE" /\ body.kind = "DATA_STORED"
                      THEN [acked EXCEPT ![cmd[c].data] = @ + 1]
                      ELSE acked
          /\ UNCHANGED sockfd
       \/ /\ ~Readable(sockfd[c], "init")
          /\ Communicate(Closed(Taken(sockfd[c], "init"), sockfd[c], "init"))
          /\ sockfd' = [sockfd EXCEPT ![c] = NoConn]
          /\ UNCHANGED acked

\* The user types exit, or ends the input, and main closes sockfd.
ClientExit(c) ==
    /\ ClientAt(c, "idle")
    /\ \/ /\ sockfd[c] # NoConn
          /\ LET exit == DataPacket(conns, sockfd[c], "init",
                                    [kind |-> "EXIT"], 4)
             IN  ClientDies(c, "exit", Sent(conns, sockfd[c], "init", exit))
       \/ /\ sockfd[c] # NoConn
          /\ Broken(conns, sockfd[c], "init")
          /\ ClientDies(c, "sigpipe", conns)
       \/ ClientDies(c, "exit", conns)

ClientStep(c) ==
    \/ ClientSendHello(c)
    \/ ClientRecvHello(c)
    \/ ClientReceive(c)

UserStep(c) ==
    \/ ClientConnect(c)
    \/ \E d \in Data : ClientStore(c, d)
    \/ ClientRetrieve(c)
    \/ ClientExit(c)

=============================================================================
