------------------------------- MODULE Server -------------------------------
(***************************************************************************)
(* The storage servers (server.c): main accepts one connection at a time   *)
(* and runs handle_client on it, which makes the responder's half of the   *)
(* key exchange and then answers one request after the other until the     *)
(* connection ends.  A step of the model goes from one blocking call       *)
(* (accept or recv) to the next.                                           *)
(***************************************************************************)
EXTENDS Net, Chain

CONSTANT MaxAllocFails   \* bound: failures of malloc in store_data

ASSUME ServerAssumption == MaxAllocFails \in Nat

VARIABLES
    spc,        \* where each server is
    ssock,      \* client_sock of its handle_client
    chain,      \* the list at blockchain_head
    allocFails  \* failures of malloc so far

servervars == <<spc, ssock, chain, allocFails>>

ServerInit ==
    /\ spc = [s \in Servers |-> "accept"]
    /\ ssock = [s \in Servers |-> NoConn]
    /\ chain = [s \in Servers |-> << >>]
    /\ allocFails = 0

ServerTypeOK ==
    /\ spc \in [Servers -> {"accept", "client_hello", "serve"}]
    /\ ssock \in [Servers -> 0 .. MaxConns]
    /\ \A s \in Servers : chain[s] \in Seq(Block)
    /\ allocFails \in 0 .. MaxAllocFails

(***************************************************************************)
(* What a process that ended leaves of its memory: nothing.  The blocks    *)
(* are kept in memory only.                                                *)
(***************************************************************************)
ServerGone(s) ==
    /\ spc' = [spc EXCEPT ![s] = "accept"]
    /\ ssock' = [ssock EXCEPT ![s] = NoConn]
    /\ chain' = [chain EXCEPT ![s] = << >>]
    /\ UNCHANGED allocFails

\* External: an operator starts a server that ended again.
ServerStart(s) == Begin(s) /\ UNCHANGED servervars

ServerAccept(s) ==
    /\ life[s] = "up"
    /\ spc[s] = "accept"
    /\ Accept(s)
    /\ ssock' = [ssock EXCEPT ![s] = Head(backlog[s])]
    /\ spc' = [spc EXCEPT ![s] = "client_hello"]
    /\ UNCHANGED <<chain, allocFails>>

ServerHandshake(s) ==
    LET c == ssock[s] IN
    /\ life[s] = "up"
    /\ spc[s] = "client_hello"
    /\ CanRecv(c, "resp")
    /\ \/ /\ \E key \in ResponderKeys(c) : Communicate(Answered(c, key))
          /\ spc' = [spc EXCEPT ![s] = "serve"]
          /\ UNCHANGED <<ssock, chain, allocFails>>
       \/ /\ AtEnd(c, "resp")
          /\ End(s, "ub", conns)
          /\ ServerGone(s)

(***************************************************************************)
(* One turn of handle_client's loop.                                       *)
(***************************************************************************)
\* Mutant: no answer is sent.
Mut_Responded(s, reply) == Taken(ssock[s], "resp")

Responded(s, reply) ==
    LET c  == ssock[s]
        cs == Taken(c, "resp")
    IN  Sent(cs, c, "resp",
             DataPacket(cs, c, "resp", reply, ReplyLen(reply)))

\* store_data, and the acknowledgement that handle_client sends after it in
\* either case: also when malloc failed and nothing was stored.
ServerStore(s, d) ==
    /\ \/ /\ chain' = [chain EXCEPT ![s] = StoreData(@, d)]
          /\ UNCHANGED allocFails
       \/ /\ allocFails < MaxAllocFails
          /\ allocFails' = allocFails + 1
          /\ UNCHANGED chain
    /\ Communicate(Responded(s, Reply("DATA_STORED", << >>)))

ServerRetrieve(s) ==
    /\ chain' = [chain EXCEPT ![s] = Validated(@)]
    /\ Communicate(Responded(s, RetrieveReply(chain[s])))
    /\ UNCHANGED allocFails

ServerServe(s) ==
    LET c == ssock[s] IN
    /\ life[s] = "up"
    /\ spc[s] = "serve"
    /\ CanRecv(c, "resp")
    /\ \/ /\ Readable(c, "resp")
          /\ LET request == Received(c, "resp").body IN
             \/ request.kind = "RETRIEVE" /\ ServerRetrieve(s)
             \/ request.kind = "STORE" /\ ServerStore(s, request.data)
          /\ UNCHANGED <<spc, ssock>>
       \/ /\ ~Readable(c, "resp")
          /\ Communicate(Closed(Taken(c, "resp"), c, "resp"))
          /\ spc' = [spc EXCEPT ![s] = "accept"]
          /\ ssock' = [ssock EXCEPT ![s] = NoConn]
          /\ UNCHANGED <<chain, allocFails>>

ServerStep(s) ==
    \/ ServerAccept(s)
    \/ ServerHandshake(s)
    \/ ServerServe(s)

=============================================================================
