---------------------------- MODULE SystemStore ----------------------------
(***************************************************************************)
(* The whole system implements a sharded store.  Four history variables    *)
(* are added to System: what was performed of the commands, and what their *)
(* users were shown and told.  They change no step of the system.          *)
(***************************************************************************)
EXTENDS System

VARIABLES
    performed,  \* how often each payload was put into a chain
    done,       \* the store each client waits for is in a chain
    view,       \* the shards when the router began to serve its retrieve
    told        \* the last answer each user read

NoView == << >>
NoAnswer == << >>

svars == <<vars, performed, done, view, told>>

Contents == [s \in Servers |-> Payloads(chain[s])]

SInit ==
    /\ Init
    /\ performed = Nothing
    /\ done = [c \in Clients |-> FALSE]
    /\ view = [c \in Clients |-> NoView]
    /\ told = [c \in Clients |-> NoAnswer]

\* Server s adds a block with payload d in this step.
Adds(s, d) ==
    /\ Len(chain'[s]) > Len(chain[s])
    /\ chain'[s][Len(chain'[s])].data = d

\* Server s is serving the command of client c.
ServedBy(c, s) ==
    /\ RouterAt("await")
    /\ ri = s
    /\ client_sock = sockfd[c]

\* The router starts on the command of client c in this step.
Begins(c) ==
    /\ RouterAt("serve")
    /\ rpc' = "await"
    /\ client_sock = sockfd[c]

\* An answer as its user reads it.
ShownPart(reply) ==
    IF reply.kind \in {"BLOCKS", "NO_DATA"}
    THEN <<"shown", Payloads(reply.blocks)>>
    ELSE <<"refused">>

AnswerRead(c) ==
    IF ~Readable(sockfd[c], "init") THEN NoAnswer
    ELSE LET body == Received(sockfd[c], "init").body IN
         IF body.kind = "LIST"
         THEN <<"listing", [s \in Servers |-> ShownPart(body.parts[s + 1])]>>
         ELSE IF body.kind = "DATA_STORED" THEN <<"stored">> ELSE NoAnswer

SNext ==
    /\ Next
    /\ performed' =
           [d \in Data |-> IF \E s \in Servers : Adds(s, d)
                           THEN performed[d] + 1 ELSE performed[d]]
    /\ done' =
           [c \in Clients |->
               /\ cmd'[c].kind = "STORE"
               /\ done[c] \/ \E s \in Servers :
                                 ServedBy(c, s) /\ Adds(s, cmd'[c].data)]
    /\ view' =
           [c \in Clients |->
               IF cmd'[c].kind # "RETRIEVE" THEN NoView
               ELSE IF Begins(c) THEN Contents ELSE view[c]]
    /\ told' =
           [c \in Clients |->
               IF cpc[c] = "await" /\ cpc'[c] = "idle" THEN AnswerRead(c)
               ELSE IF cmd'[c] # NoCommand THEN NoAnswer ELSE told[c]]

SSpec == SInit /\ [][SNext]_svars

(***************************************************************************)
(* The answer a client reads is the answer to its own last command, though *)
(* no packet says which command it answers: the kind is right; DATA_STORED *)
(* is read only if the payload of this very store was put into a chain     *)
(* while the router served this client (it is also said, wrongly, when     *)
(* malloc failed in store_data, which allocFails excludes); and a shard    *)
(* that a list shows is as it was when the router began with this very     *)
(* retrieve.  An answer left over from an earlier command, of this client  *)
(* or another, would break one of them.                                    *)
(***************************************************************************)
OwnAnswer(c, body) ==
    /\ body.kind = "DATA_STORED" => done[c]
    /\ body.kind = "LIST" =>
           /\ view[c] # NoView
           /\ \A s \in Servers :
                  body.parts[s + 1].kind \in {"BLOCKS", "NO_DATA"} =>
                      Payloads(body.parts[s + 1].blocks) = view[c][s]

AnswersMatch ==
    \A c \in Clients :
        cpc[c] = "await" /\ ~AtEnd(sockfd[c], "init") =>
            LET body == Received(sockfd[c], "init").body IN
            /\ AnswersCommand(cmd[c], body)
            /\ allocFails = 0 => OwnAnswer(c, body)

Op(c) ==
    CASE cmd[c].kind = "NONE"  -> [kind |-> "NONE"]
      [] cmd[c].kind = "STORE" ->
             [kind |-> "STORE", data |-> cmd[c].data, done |-> done[c]]
      [] OTHER                 -> [kind |-> "RETRIEVE", view |-> view[c]]

Store == INSTANCE ShardedStore
         WITH Shards <- Servers, Users <- Clients,
              shard <- Contents, op <- [c \in Clients |-> Op(c)]

(***************************************************************************)
(* The system implements the sharded store: commands take effect at one    *)
(* moment between request and answer, also when the router or a server is  *)
(* killed and started again in the middle of them; nothing is stored       *)
(* twice, and a retrieve never mixes an old shard with a new one.          *)
(***************************************************************************)
ImplementsStore == Store!Spec

=============================================================================
