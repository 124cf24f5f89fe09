---------------------------- MODULE ShardedStore ----------------------------
(***************************************************************************)
(* What the whole system promises its users, without processes, messages   *)
(* or connections: a log that is split into shards.  A store that was      *)
(* requested is performed at most once, at one shard, at one moment; a     *)
(* client is told that its data is stored only after its own store was     *)
(* performed; and what a retrieve shows of the shards is what all of them  *)
(* held at one and the same moment while the retrieve was under way,       *)
(* except that a shard may refuse.  A command may fail; its store may then *)
(* still be performed, and a shard may lose what it holds.                 *)
(***************************************************************************)
EXTENDS Naturals, Sequences

CONSTANTS
    Shards,
    Users,
    Data      \* the payloads that are stored

VARIABLES
    shard,      \* what each shard holds
    op,         \* the command each user waits for
    told,       \* the answer to the last command of each user
    sent,       \* how often each payload was requested to be stored
    performed   \* how often it was stored

vars == <<shard, op, told, sent, performed>>

NoOp == [kind |-> "NONE"]
Storing(d, done) == [kind |-> "STORE", data |-> d, done |-> done]
Retrieving(view) == [kind |-> "RETRIEVE", view |-> view]

NoView == << >>
NoAnswer == << >>
Stored == <<"stored">>
Refused == <<"refused">>
Shown(contents) == <<"shown", contents>>
Listing(parts) == <<"listing", parts>>

Init ==
    /\ shard = [s \in Shards |-> << >>]
    /\ op = [u \in Users |-> NoOp]
    /\ told = [u \in Users |-> NoAnswer]
    /\ sent = [d \in Data |-> 0]
    /\ performed = [d \in Data |-> 0]

Request(u, o) ==
    /\ op[u] = NoOp
    /\ op' = [op EXCEPT ![u] = o]
    /\ told' = [told EXCEPT ![u] = NoAnswer]

RequestStore(u, d) ==
    /\ Request(u, Storing(d, FALSE))
    /\ sent' = [sent EXCEPT ![d] = @ + 1]
    /\ UNCHANGED <<shard, performed>>

RequestRetrieve(u) ==
    /\ Request(u, Retrieving(NoView))
    /\ UNCHANGED <<shard, sent, performed>>

\* A store of d is performed: of user u, or one whose user gave up.
Perform(s, d) ==
    /\ performed[d] < sent[d]
    /\ performed' = [performed EXCEPT ![d] = @ + 1]
    /\ shard' = [shard EXCEPT ![s] = Append(@, d)]
    /\ \/ \E u \in Users :
              /\ op[u] = Storing(d, FALSE)
              /\ op' = [op EXCEPT ![u] = Storing(d, TRUE)]
       \/ UNCHANGED op
    /\ UNCHANGED <<told, sent>>

\* The moment of which the retrieve of u shows the shards.
View(u) ==
    /\ op[u] = Retrieving(NoView)
    /\ op' = [op EXCEPT ![u] = Retrieving(shard)]
    /\ UNCHANGED <<shard, told, sent, performed>>

Answer(u, answer) ==
    /\ op' = [op EXCEPT ![u] = NoOp]
    /\ told' = [told EXCEPT ![u] = answer]
    /\ UNCHANGED <<shard, sent, performed>>

AnswerStore(u) ==
    /\ op[u].kind = "STORE"
    /\ op[u].done
    /\ Answer(u, Stored)

AnswerRetrieve(u) ==
    /\ op[u].kind = "RETRIEVE"
    /\ op[u].view # NoView
    /\ \E refusing \in SUBSET Shards :
           Answer(u, Listing([s \in Shards |->
               IF s \in refusing THEN Refused ELSE Shown(op[u].view[s])]))

Fail(u) == op[u] # NoOp /\ Answer(u, NoAnswer)

Forget(s) ==
    /\ shard' = [shard EXCEPT ![s] = << >>]
    /\ UNCHANGED <<op, told, sent, performed>>

Next ==
    \/ \E u \in Users :
           \/ \E d \in Data : RequestStore(u, d)
           \/ RequestRetrieve(u)
           \/ View(u)
           \/ AnswerStore(u)
           \/ AnswerRetrieve(u)
           \/ Fail(u)
    \/ \E s \in Shards :
           \/ \E d \in Data : Perform(s, d)
           \/ Forget(s)

Spec == Init /\ [][Next]_vars

=============================================================================
