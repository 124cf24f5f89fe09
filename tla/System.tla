------------------------------- MODULE System -------------------------------
(***************************************************************************)
(* The whole system: clients, router and servers on one network, any of    *)
(* which may be killed, and the servers and the router started again.      *)
(***************************************************************************)
EXTENDS Server, Router, Client, FiniteSets

CONSTANTS
    MaxKills,         \* bound: processes killed
    MaxRouterStarts   \* bound: times the router is started

ASSUME SystemAssumption == MaxKills \in Nat /\ MaxRouterStarts \in Nat

VARIABLE kills   \* processes killed so far

vars == <<netvars, servervars, routervars, clientvars, kills>>

TypeOK ==
    /\ NetTypeOK
    /\ ServerTypeOK
    /\ RouterTypeOK
    /\ ClientTypeOK
    /\ kills \in 0 .. MaxKills

Init ==
    /\ NetInit
    /\ ServerInit
    /\ RouterInit
    /\ ClientInit
    /\ kills = 0

(***************************************************************************)
(* External: a process is killed, or the machine under it stops.           *)
(***************************************************************************)
KillServer(s) ==
    /\ End(s, "killed", conns)
    /\ ServerGone(s)
    /\ UNCHANGED <<routervars, clientvars>>

KillRouter ==
    /\ RouterDies("killed", conns)
    /\ UNCHANGED <<servervars, clientvars>>

KillClient(c) ==
    /\ ClientDies(c, "killed", conns)
    /\ UNCHANGED <<servervars, routervars>>

Kill(p) ==
    /\ life[p] = "up"
    /\ kills < MaxKills
    /\ kills' = kills + 1
    /\ \/ p \in Servers /\ KillServer(p)
       \/ p = Router /\ KillRouter
       \/ p \in Clients /\ KillClient(p)

\* External: an operator starts what has ended.
Restart ==
    /\ \/ /\ \E s \in Servers : ServerStart(s)
          /\ UNCHANGED routervars
       \/ /\ routerStarts < MaxRouterStarts
          /\ RouterStart
          /\ UNCHANGED servervars
    /\ UNCHANGED <<clientvars, kills>>

ServerRuns(s) == ServerStep(s) /\ UNCHANGED <<routervars, clientvars, kills>>
RouterRuns == RouterStep /\ UNCHANGED <<servervars, clientvars, kills>>
ClientRuns(c) == ClientStep(c) /\ UNCHANGED <<servervars, routervars, kills>>
UserActs(c) == UserStep(c) /\ UNCHANGED <<servervars, routervars, kills>>

Next ==
    \/ \E s \in Servers : ServerRuns(s)
    \/ RouterRuns
    \/ \E c \in Clients : ClientRuns(c) \/ UserActs(c)
    \/ \E p \in Procs : Kill(p)
    \/ Restart

Spec == Init /\ [][Next]_vars

\* A process that is not blocked goes on.  Users and operators need not.
Fairness ==
    /\ \A s \in Servers : WF_vars(ServerRuns(s))
    /\ WF_vars(RouterRuns)
    /\ \A c \in Clients : WF_vars(ClientRuns(c))

FairSpec == Spec /\ Fairness

(***************************************************************************)
(* The router serves one client until it leaves, so whether another client *)
(* is served depends on users.  UsersLeave: a user that is asked for a     *)
(* command again and again ends the session some day.                      *)
(***************************************************************************)
UserLeaves(c) == ClientExit(c) /\ UNCHANGED <<servervars, routervars, kills>>

UsersLeave == \A c \in Clients : SF_vars(UserLeaves(c))

SpecUsersLeave == FairSpec /\ UsersLeave

-----------------------------------------------------------------------------
(***************************************************************************)
(* One request at a time.  No two packets are ever on a connection at the  *)
(* same time, and none is longer than a segment or than one recv takes:    *)
(* the programs have no framing and read whatever one recv returns as one  *)
(* packet, which is enough for such packets only (see SecureChannel).      *)
(***************************************************************************)
NoFramingNeeded ==
    \A c \in DOMAIN conns :
        /\ Len(conns[c].inbox["init"]) + Len(conns[c].inbox["resp"]) <= 1
        /\ \A e \in Ends : \A i \in 1 .. Len(conns[c].inbox[e]) :
               conns[c].inbox[e][i].len <= Least(SEGMENT_MAX, RECV_MAX)

(***************************************************************************)
(* A program that goes on decrypts what it receives: the packet at hand    *)
(* after the key exchange is a data packet under the key of both ends,     *)
(* also after restarts and half-finished key exchanges.                    *)
(***************************************************************************)
ReceivedDecrypts ==
    /\ \A s \in Servers :
           spc[s] = "serve" /\ ~AtEnd(ssock[s], "resp") =>
               Readable(ssock[s], "resp")
    /\ rpc = "await" /\ ~AtEnd(server_sockets[ri], "init") =>
           Readable(server_sockets[ri], "init")
    /\ rpc = "serve" /\ ~AtEnd(client_sock, "resp") =>
           Readable(client_sock, "resp")
    /\ \A c \in Clients :
           cpc[c] = "await" /\ ~AtEnd(sockfd[c], "init") =>
               Readable(sockfd[c], "init")

(***************************************************************************)
(* Only an initiator is ever hit by SIGPIPE: a server, and the router in   *)
(* its sessions with clients, never have an answer to send on a connection *)
(* that was reset.  (So Server and Router need no step for it.)            *)
(***************************************************************************)
RespondersSendSafely ==
    /\ \A s \in Servers :
           /\ spc[s] = "client_hello" => ~Broken(conns, ssock[s], "resp")
           /\ spc[s] = "serve" /\ Broken(conns, ssock[s], "resp") =>
                  AtEnd(ssock[s], "resp")
    /\ rpc \in {"client_hello", "await"} => ~Broken(conns, client_sock, "resp")
    /\ rpc = "serve" /\ Broken(conns, client_sock, "resp") =>
           AtEnd(client_sock, "resp")

(***************************************************************************)
(* How far a failure spreads.  The router dies of SIGPIPE only after some  *)
(* server failed; a server dies only of being killed or of a router that   *)
(* failed in the middle of a key exchange.                                 *)
(***************************************************************************)
FailuresContained ==
    /\ life[Router] = "sigpipe" => failed \cap Servers # {}
    /\ life[Router] = "ub" => failed \cap Clients # {}
    /\ \A s \in Servers :
           /\ life[s] \in {"up", "killed", "ub"}
           /\ life[s] = "ub" => Router \in failed

\* The places of payload d in blocks, which has a list of blocks per server.
Copies(blocks, d) ==
    UNION {{s} \X {i \in DOMAIN blocks[s] : blocks[s][i].data = d} : s \in Servers}

StoredCount(d) == Cardinality(Copies(chain, d))

(***************************************************************************)
(* Acknowledged data is stored: while no server failed, every payload is   *)
(* in the shards at least as often as a client read DATA_STORED for it,    *)
(* and at most as often as it was sent; except that each failure of malloc *)
(* in store_data loses one payload, which is acknowledged all the same.    *)
(***************************************************************************)
AckedAreStored ==
    failed \cap Servers = {} =>
        \A d \in Data : acked[d] <= StoredCount(d) + allocFails /\ StoredCount(d) <= sent[d]

(***************************************************************************)
(* Round robin keeps the shards balanced: of two servers that never        *)
(* failed, the first has as many blocks as the second or one more, as long *)
(* as the router was not started again; also when another server is dead   *)
(* and stores sent to it are lost.                                         *)
(***************************************************************************)
ShardsBalanced ==
    routerStarts = 1 =>
        \A s, t \in Servers \ failed :
            s < t => Len(chain[s]) - Len(chain[t]) \in {0, 1}

(***************************************************************************)
(* The kinds of answers to a command: a store is answered for by one       *)
(* server, and a retrieve by a list of one answer per server, none of      *)
(* which is DATA_STORED.                                                   *)
(***************************************************************************)
AnswersCommand(r, body) ==
    IF r.kind = "STORE"
    THEN body.kind \in {"DATA_STORED", "NO_RESPONSE"}
    ELSE /\ body.kind = "LIST"
         /\ Len(body.parts) = NUM_SERVERS
         /\ \A i \in 1 .. NUM_SERVERS : body.parts[i].kind # "DATA_STORED"

\* The copies of payload d in a list, and whether every server answered.
ListedCount(parts, d) ==
    Cardinality(Copies([s \in Servers |-> parts[s + 1].blocks], d))

Complete(parts) ==
    \A s \in 1 .. NUM_SERVERS : parts[s].kind \in {"BLOCKS", "NO_DATA"}

(***************************************************************************)
(* What a client is told is current: the list it reads for a retrieve has  *)
(* every payload at least as often as it had been acknowledged, to any     *)
(* client, when it sent the retrieve, if no shard refused to answer and no *)
(* server lost its memory; and never more often than it was sent.          *)
(***************************************************************************)
RetrieveIsCurrent ==
    \A c \in Clients :
        /\ cpc[c] = "await" /\ cmd[c].kind = "RETRIEVE"
        /\ ~AtEnd(sockfd[c], "init")
        => LET parts == Received(sockfd[c], "init").body.parts IN
           \A d \in Data :
               /\ ListedCount(parts, d) <= sent[d]
               /\ Complete(parts) /\ failed \cap Servers = {} =>
                      known[c][d] <= ListedCount(parts, d)

-----------------------------------------------------------------------------
(***************************************************************************)
(* Every command ends: a client that waits for an answer gets one, or      *)
(* learns that the connection ended, or ends itself, whoever is killed.    *)
(***************************************************************************)
CommandsEnd == \A c \in Clients : cpc[c] = "await" ~> cpc[c] # "await"

(***************************************************************************)
(* Clients take their turn: if users leave, then a client that waits for   *)
(* the router to make its key exchange does not wait for ever, however     *)
(* many others come back and queue again, and whoever is killed.           *)
(***************************************************************************)
WaitersServed ==
    \A c \in Clients : cpc[c] = "server_hello" ~> cpc[c] # "server_hello"

\* A router that starts gets to accept clients, or ends.
RouterComesUp == RouterAt("connect") ~> (RouterAt("accept") \/ life[Router] # "up")

=============================================================================
