---------------------------- MODULE StoreProofs ----------------------------
(***************************************************************************)
(* Proofs about what the shards of System hold, on top of the invariants   *)
(* of SystemProofs: that what is acknowledged is stored, that what a       *)
(* retrieve shows is current, and that the whole system implements the     *)
(* sharded store as long as no malloc fails in store_data.                 *)
(***************************************************************************)
EXTENDS SystemProofs, SystemStore

(***************************************************************************)
(* What the shards hold, and what users are told of it.  A store is sent,  *)
(* waits on a connection to the router, waits on one to a server, and is a *)
(* block: it is at most one of these at a time, so that the copies of a    *)
(* payload and the stores of it that wait are no more than were sent.  An  *)
(* acknowledgement waits on a connection to the router, waits on one to    *)
(* the client, and is counted: there is a block, or a failed malloc, for   *)
(* each of them.                                                           *)
(***************************************************************************)
AnswerIn(k) ==
    /\ k.inbox["init"] # << >>
    /\ Head(k.inbox["init"]).body.kind \in {"DATA_STORED", "LIST"}

Waiting(d) ==
    {c \in DOMAIN conns :
        StoreIn(conns[c]) /\ Head(conns[c].inbox["resp"]).body = StoreOf(d)}

Acks(d) ==
    {c \in DOMAIN conns :
        /\ AnswerIn(conns[c])
        /\ Head(conns[c].inbox["init"]).body.kind = "DATA_STORED"
        /\ Wanted(conns[c].who["init"]) = StoreOf(d)}

Room(copies, waiting, all) ==
    /\ IsFiniteSet(copies) /\ IsFiniteSet(waiting) /\ all \in Nat
    /\ Cardinality(copies) + Cardinality(waiting) <= all

Backed(counted, acks, copies, lost) ==
    /\ IsFiniteSet(acks) /\ IsFiniteSet(copies) /\ counted \in Nat /\ lost \in Nat
    /\ counted + Cardinality(acks) <= Cardinality(copies) + lost

SentInv == \A d \in Data : Room(Copies(chain, d), Waiting(d), sent[d])

NoneFailed == failed \cap Servers = {}

AckInv ==
    NoneFailed =>
        \A d \in Data : Backed(acked[d], Acks(d), Copies(chain, d), allocFails)

KnownInv == \A k \in Clients, d \in Data : known[k][d] <= acked[d]

(***************************************************************************)
(* While the router gathers the answers to a retrieve, the part of a       *)
(* server is what it answered, and what it holds if it did not answer yet. *)
(* Nothing is in the parts that was not sent, and what its client knew is  *)
(* in them.                                                                *)
(***************************************************************************)
Gathering == rpc = "await" /\ request.kind = "RETRIEVE"

Came == conns[server_sockets[ri]].inbox["init"] # << >>
CameBody == Head(conns[server_sockets[ri]].inbox["init"]).body

Part(s) ==
    IF s < ri THEN replies[s + 1].blocks
    ELSE IF s = ri /\ Came THEN CameBody.blocks
    ELSE chain[s]

Parts == [s \in Servers |-> Part(s)]

Shows(reply) == reply.kind \in {"BLOCKS", "NO_DATA"}

Whole ==
    /\ \A s \in Servers : s < ri => Shows(replies[s + 1])
    /\ Came => Shows(CameBody)

Lossless == NoneFailed /\ allocFails = 0

GatherInv ==
    Gathering =>
        \A d \in Data :
            /\ Room(Copies(Parts, d), Waiting(d), sent[d])
            /\ Lossless /\ Whole /\ conns[client_sock].open["init"] =>
                   known[conns[client_sock].who["init"]][d]
                       <= Cardinality(Copies(Parts, d))

\* The list that client k is told.
Listed(list) == [s \in Servers |-> list[s + 1].blocks]

IsCurrent(list, knew, all, lossless) ==
    \A d \in Data :
        /\ Room(Copies(Listed(list), d), {}, all[d])
        /\ lossless /\ Complete(list) =>
               knew[d] <= Cardinality(Copies(Listed(list), d))

ListIn(k) == AnswerIn(k) /\ Head(k.inbox["init"]).body.kind = "LIST"

ListInv ==
    \A c \in DOMAIN conns :
        ListIn(conns[c]) =>
            IsCurrent(Head(conns[c].inbox["init"]).body.parts,
                      known[conns[c].who["init"]], sent, Lossless)

LogInv == SentInv /\ AckInv /\ KnownInv /\ GatherInv /\ ListInv

-----------------------------------------------------------------------------
\* One element more.
LEMMA OneMore ==
    ASSUME NEW S, NEW x, IsFiniteSet(S)
    PROVE  /\ IsFiniteSet(S \cup {x}) /\ Cardinality(S \cup {x}) \in Nat
           /\ Cardinality(S) \in Nat /\ Cardinality(S \cup {x}) <= Cardinality(S) + 1
<1>1. /\ IsFiniteSet(S \cup {x})
      /\ Cardinality(S \cup {x}) = IF x \in S THEN Cardinality(S) ELSE Cardinality(S) + 1
  BY FS_AddElement
<1>2. Cardinality(S) \in Nat
  BY FS_CardinalityType
<1> QED
  BY <1>1, <1>2

\* Nothing is added; a store is passed on; a store is sent.
LEMMA RoomSteps ==
    ASSUME NEW A, NEW W, NEW n, Room(A, W, n), NEW A2, NEW W2, NEW c, NEW x
    PROVE  /\ A2 \subseteq A /\ W2 \subseteq W => Room(A2, W2, n)
           /\ c \in W /\ A2 \subseteq A /\ W2 \subseteq (W \ {c}) \cup {x} => Room(A2, W2, n)
           /\ A2 \subseteq A /\ W2 \subseteq W \cup {c} => Room(A2, W2, n + 1)
<1>1. /\ IsFiniteSet(A) /\ IsFiniteSet(W) /\ n \in Nat
      /\ Cardinality(A) \in Nat /\ Cardinality(W) \in Nat
      /\ Cardinality(A) + Cardinality(W) <= n
  BY FS_CardinalityType DEF Room
<1>3. /\ IsFiniteSet(W \cup {c}) /\ Cardinality(W \cup {c}) \in Nat
      /\ Cardinality(W \cup {c}) <= Cardinality(W) + 1
  BY <1>1, OneMore
<1>4. /\ IsFiniteSet(W \ {c}) /\ Cardinality(W \ {c}) \in Nat
      /\ c \in W => Cardinality(W \ {c}) = Cardinality(W) - 1
  BY <1>1, FS_RemoveElement, FS_CardinalityType
<1>5. /\ IsFiniteSet((W \ {c}) \cup {x}) /\ Cardinality((W \ {c}) \cup {x}) \in Nat
      /\ Cardinality((W \ {c}) \cup {x}) <= Cardinality(W \ {c}) + 1
  BY <1>4, OneMore
<1>6. ASSUME NEW S, NEW T, IsFiniteSet(S), T \subseteq S
      PROVE  IsFiniteSet(T) /\ Cardinality(T) \in Nat /\ Cardinality(T) <= Cardinality(S)
  BY <1>6, FS_Subset, FS_CardinalityType
<1>7. A2 \subseteq A /\ W2 \subseteq W => Room(A2, W2, n)
  <2> SUFFICES ASSUME A2 \subseteq A, W2 \subseteq W PROVE Room(A2, W2, n)
    OBVIOUS
  <2>1. /\ IsFiniteSet(A2) /\ Cardinality(A2) \in Nat /\ Cardinality(A2) <= Cardinality(A)
        /\ IsFiniteSet(W2) /\ Cardinality(W2) \in Nat /\ Cardinality(W2) <= Cardinality(W)
    BY <1>1, <1>6
  <2> QED
    BY <1>1, <2>1 DEF Room
<1>9. c \in W /\ A2 \subseteq A /\ W2 \subseteq (W \ {c}) \cup {x} => Room(A2, W2, n)
  <2> SUFFICES ASSUME c \in W, A2 \subseteq A, W2 \subseteq (W \ {c}) \cup {x}
               PROVE  Room(A2, W2, n)
    OBVIOUS
  <2>1. IsFiniteSet(A2) /\ Cardinality(A2) \in Nat /\ Cardinality(A2) <= Cardinality(A)
    BY <1>1, <1>6
  <2>2. /\ IsFiniteSet(W2) /\ Cardinality(W2) \in Nat
        /\ Cardinality(W2) <= Cardinality((W \ {c}) \cup {x})
    BY <1>5, <1>6
  <2> QED
    BY <1>1, <1>4, <1>5, <2>1, <2>2 DEF Room
<1>10. A2 \subseteq A /\ W2 \subseteq W \cup {c} => Room(A2, W2, n + 1)
  <2> SUFFICES ASSUME A2 \subseteq A, W2 \subseteq W \cup {c}
               PROVE  Room(A2, W2, n + 1)
    OBVIOUS
  <2>1. IsFiniteSet(A2) /\ Cardinality(A2) \in Nat /\ Cardinality(A2) <= Cardinality(A)
    BY <1>1, <1>6
  <2>2. /\ IsFiniteSet(W2) /\ Cardinality(W2) \in Nat
        /\ Cardinality(W2) <= Cardinality(W \cup {c})
    BY <1>3, <1>6
  <2> QED
    BY <1>1, <1>3, <2>1, <2>2 DEF Room
<1> QED
  BY <1>7, <1>9, <1>10

Gained(S, S2, x) == S2 \subseteq S \cup {x}
Lost(S, S2, c) == c \in S /\ S2 \subseteq S \ {c}

\* A store that waits becomes a copy.
LEMMA RoomLands ==
    ASSUME NEW A, NEW W, NEW n, Room(A, W, n), NEW A2, NEW W2, NEW c, NEW x,
           Gained(A, A2, x), Lost(W, W2, c)
    PROVE  Room(A2, W2, n)
<1>1. /\ IsFiniteSet(A) /\ IsFiniteSet(W) /\ n \in Nat
      /\ Cardinality(A) \in Nat /\ Cardinality(W) \in Nat
      /\ Cardinality(A) + Cardinality(W) <= n
  BY FS_CardinalityType DEF Room
<1>2. /\ IsFiniteSet(A \cup {x}) /\ Cardinality(A \cup {x}) \in Nat
      /\ Cardinality(A \cup {x}) <= Cardinality(A) + 1
  BY <1>1, OneMore
<1>3. /\ IsFiniteSet(W \ {c}) /\ Cardinality(W \ {c}) \in Nat
      /\ Cardinality(W \ {c}) = Cardinality(W) - 1
  BY <1>1, FS_RemoveElement, FS_CardinalityType DEF Lost
<1>4. ASSUME NEW S, NEW T, IsFiniteSet(S), T \subseteq S
      PROVE  IsFiniteSet(T) /\ Cardinality(T) \in Nat /\ Cardinality(T) <= Cardinality(S)
  BY <1>4, FS_Subset, FS_CardinalityType
<1>5. /\ IsFiniteSet(A2) /\ Cardinality(A2) \in Nat
      /\ Cardinality(A2) <= Cardinality(A \cup {x})
  BY <1>2, <1>4 DEF Gained
<1>6. /\ IsFiniteSet(W2) /\ Cardinality(W2) \in Nat
      /\ Cardinality(W2) <= Cardinality(W \ {c})
  BY <1>3, <1>4 DEF Lost
<1> QED
  BY <1>1, <1>2, <1>3, <1>5, <1>6 DEF Room

\* Nothing is acknowledged; an acknowledgement is passed on; one is counted;
\* a store is acknowledged that became a copy, or was lost.
LEMMA BackedSteps ==
    ASSUME NEW n, NEW K, NEW A, NEW f, Backed(n, K, A, f),
           NEW K2, NEW A2, IsFiniteSet(A2), A \subseteq A2, NEW f2 \in Nat, f <= f2,
           NEW c, NEW x
    PROVE  /\ K2 \subseteq K => Backed(n, K2, A2, f2)
           /\ c \in K /\ K2 \subseteq (K \ {c}) \cup {x} => Backed(n, K2, A2, f2)
           /\ c \in K /\ K2 \subseteq K \ {c} => Backed(n + 1, K2, A2, f2)
           /\ K2 \subseteq K \cup {c} /\ x \in A2 \ A => Backed(n, K2, A2, f2)
           /\ K2 \subseteq K \cup {c} /\ f2 = f + 1 => Backed(n, K2, A2, f2)
<1>1. /\ IsFiniteSet(K) /\ IsFiniteSet(A) /\ n \in Nat /\ f \in Nat
      /\ Cardinality(K) \in Nat /\ Cardinality(A) \in Nat /\ Cardinality(A2) \in Nat
      /\ n + Cardinality(K) <= Cardinality(A) + f
  BY FS_CardinalityType DEF Backed
<1>2. ASSUME NEW S, NEW T, IsFiniteSet(S), T \subseteq S
      PROVE  IsFiniteSet(T) /\ Cardinality(T) \in Nat /\ Cardinality(T) <= Cardinality(S)
  BY <1>2, FS_Subset, FS_CardinalityType
<1>3. Cardinality(A) <= Cardinality(A2)
  BY <1>2
<1>4. x \in A2 \ A => Cardinality(A) + 1 <= Cardinality(A2)
  <2> SUFFICES ASSUME x \in A2 \ A PROVE Cardinality(A) + 1 <= Cardinality(A2)
    OBVIOUS
  <2>1. IsFiniteSet(A \cup {x}) /\ Cardinality(A \cup {x}) = Cardinality(A) + 1
    BY <1>1, FS_AddElement
  <2>2. A \cup {x} \subseteq A2
    OBVIOUS
  <2>3. Cardinality(A \cup {x}) <= Cardinality(A2)
    BY <1>2, <2>2
  <2> QED
    BY <2>1, <2>3
<1>5. /\ IsFiniteSet(K \cup {c}) /\ Cardinality(K \cup {c}) \in Nat
      /\ Cardinality(K \cup {c}) <= Cardinality(K) + 1
  BY <1>1, OneMore
<1>6. /\ IsFiniteSet(K \ {c}) /\ Cardinality(K \ {c}) \in Nat
      /\ c \in K => Cardinality(K \ {c}) = Cardinality(K) - 1
  BY <1>1, FS_RemoveElement, FS_CardinalityType
<1>7. /\ IsFiniteSet((K \ {c}) \cup {x}) /\ Cardinality((K \ {c}) \cup {x}) \in Nat
      /\ Cardinality((K \ {c}) \cup {x}) <= Cardinality(K \ {c}) + 1
  BY <1>6, OneMore
<1>8. ASSUME NEW S, IsFiniteSet(S), K2 \subseteq S
      PROVE  IsFiniteSet(K2) /\ Cardinality(K2) \in Nat /\ Cardinality(K2) <= Cardinality(S)
  BY <1>2, <1>8
<1>9. K2 \subseteq K => Backed(n, K2, A2, f2)
  BY <1>1, <1>3, <1>8 DEF Backed
<1>10. c \in K /\ K2 \subseteq (K \ {c}) \cup {x} => Backed(n, K2, A2, f2)
  <2> SUFFICES ASSUME c \in K, K2 \subseteq (K \ {c}) \cup {x} PROVE Backed(n, K2, A2, f2)
    OBVIOUS
  <2>1. /\ IsFiniteSet(K2) /\ Cardinality(K2) \in Nat
        /\ Cardinality(K2) <= Cardinality((K \ {c}) \cup {x})
    BY <1>7, <1>8
  <2> QED
    BY <1>1, <1>3, <1>6, <1>7, <2>1 DEF Backed
<1>11. c \in K /\ K2 \subseteq K \ {c} => Backed(n + 1, K2, A2, f2)
  <2> SUFFICES ASSUME c \in K, K2 \subseteq K \ {c} PROVE Backed(n + 1, K2, A2, f2)
    OBVIOUS
  <2>1. /\ IsFiniteSet(K2) /\ Cardinality(K2) \in Nat
        /\ Cardinality(K2) <= Cardinality(K \ {c})
    BY <1>6, <1>8
  <2> QED
    BY <1>1, <1>3, <1>6, <2>1 DEF Backed
<1>12. K2 \subseteq K \cup {c} /\ x \in A2 \ A => Backed(n, K2, A2, f2)
  <2> SUFFICES ASSUME K2 \subseteq K \cup {c}, x \in A2 \ A PROVE Backed(n, K2, A2, f2)
    OBVIOUS
  <2>1. /\ IsFiniteSet(K2) /\ Cardinality(K2) \in Nat
        /\ Cardinality(K2) <= Cardinality(K \cup {c})
    BY <1>5, <1>8
  <2> QED
    BY <1>1, <1>4, <1>5, <2>1 DEF Backed
<1>13. K2 \subseteq K \cup {c} /\ f2 = f + 1 => Backed(n, K2, A2, f2)
  <2> SUFFICES ASSUME K2 \subseteq K \cup {c}, f2 = f + 1 PROVE Backed(n, K2, A2, f2)
    OBVIOUS
  <2>1. /\ IsFiniteSet(K2) /\ Cardinality(K2) \in Nat
        /\ Cardinality(K2) <= Cardinality(K \cup {c})
    BY <1>5, <1>8
  <2> QED
    BY <1>1, <1>3, <1>5, <2>1 DEF Backed
<1> QED
  BY <1>9, <1>10, <1>11, <1>12, <1>13

(***************************************************************************)
(* Steps that put no block into a chain.                                   *)
(***************************************************************************)
\* The blocks of b have the payloads of those in b2 at the same places.
Within(b, b2) == DOMAIN b \subseteq DOMAIN b2 /\ \A i \in DOMAIN b : b[i].data = b2[i].data

LossKept ==
    /\ failed \subseteq failed'
    /\ allocFails \in Nat /\ allocFails' \in Nat /\ allocFails <= allocFails'

ChainsKept ==
    /\ LossKept
    /\ \A s \in Servers : Within(chain'[s], chain[s])
    /\ NoneFailed' => \A s \in Servers : Within(chain[s], chain'[s])

\* Stores are sent, lost, or passed on; so are acknowledgements.
Supply ==
    \A d \in Data :
        \/ sent'[d] = sent[d] /\ Waiting(d)' \subseteq Waiting(d)
        \/ \E c, x : /\ sent'[d] = sent[d] /\ c \in Waiting(d)
                     /\ Waiting(d)' \subseteq (Waiting(d) \ {c}) \cup {x}
        \/ \E c : sent'[d] = sent[d] + 1 /\ Waiting(d)' \subseteq Waiting(d) \cup {c}

Confirm ==
    NoneFailed' =>
        \A d \in Data :
            \/ acked'[d] = acked[d] /\ Acks(d)' \subseteq Acks(d)
            \/ \E c, x : /\ acked'[d] = acked[d] /\ c \in Acks(d)
                         /\ Acks(d)' \subseteq (Acks(d) \ {c}) \cup {x}
            \/ \E c : /\ acked'[d] = acked[d] + 1 /\ c \in Acks(d)
                      /\ Acks(d)' \subseteq Acks(d) \ {c}

\* Where payloads are that are at the same places.
LEMMA CopiesWithin ==
    ASSUME NEW f, NEW g, \A s \in Servers : Within(f[s], g[s]), NEW d
    PROVE  Copies(f, d) \subseteq Copies(g, d)
  BY DEF Copies, Within

\* Nothing is lost by such a step that was not lost before.
LEMMA LossStep ==
    ASSUME LossKept
    PROVE  (NoneFailed' => NoneFailed) /\ (Lossless' => Lossless)
  BY DEF LossKept, NoneFailed, Lossless

\* The room for copies.
LEMMA RoomSupply ==
    ASSUME Supply, NEW d \in Data, NEW A, NEW A2, A2 \subseteq A
    PROVE  /\ Room(A, Waiting(d), sent[d]) => Room(A2, Waiting(d)', sent'[d])
           /\ Room(A, {}, sent[d]) => Room(A2, {}, sent'[d])
<1>1. PICK W, n : W = Waiting(d)' /\ n = sent'[d]
  OBVIOUS
<1>2. \/ n = sent[d] /\ W \subseteq Waiting(d)
      \/ \E c, x : /\ n = sent[d] /\ c \in Waiting(d)
                   /\ W \subseteq (Waiting(d) \ {c}) \cup {x}
      \/ \E c : n = sent[d] + 1 /\ W \subseteq Waiting(d) \cup {c}
  BY <1>1 DEF Supply
<1>3. ASSUME NEW V, NEW m, Room(A, V, m),
             \/ n = m /\ W \subseteq V
             \/ \E c, x : n = m /\ c \in V /\ W \subseteq (V \ {c}) \cup {x}
             \/ \E c : n = m + 1 /\ W \subseteq V \cup {c}
      PROVE  Room(A2, W, n)
  <2>1. CASE n = m /\ W \subseteq V
    BY <1>3, <2>1, RoomSteps
  <2>2. ASSUME NEW c \in V, NEW x, n = m, W \subseteq (V \ {c}) \cup {x}
        PROVE  Room(A2, W, n)
    <3>1. A2 \subseteq A /\ c \in V
      OBVIOUS
    <3> QED
      BY ONLY <1>3, <2>2, <3>1, RoomSteps
  <2>3. ASSUME NEW c, n = m + 1, W \subseteq V \cup {c}
        PROVE  Room(A2, W, n)
    <3>1. A2 \subseteq A
      OBVIOUS
    <3> QED
      BY ONLY <1>3, <2>3, <3>1, RoomSteps
  <2> QED
    BY <1>3, <2>1, <2>2, <2>3
<1>4. n = sent[d] \/ n = sent[d] + 1
  BY <1>2
<1>5. Room(A, {}, sent[d]) => Room(A2, {}, n)
  <2>1. PICK m : m = sent[d]
    OBVIOUS
  <2> SUFFICES ASSUME Room(A, {}, m) PROVE Room(A2, {}, n)
    BY <2>1
  <2>2. IsFiniteSet({}) /\ Cardinality({}) = 0
    BY FS_EmptySet
  <2>3. IsFiniteSet(A) /\ m \in Nat /\ Cardinality(A) + 0 <= m
    BY <2>2 DEF Room
  <2>4. /\ IsFiniteSet(A2) /\ Cardinality(A2) \in Nat /\ Cardinality(A) \in Nat
        /\ Cardinality(A2) <= Cardinality(A)
    BY <2>3, FS_Subset, FS_CardinalityType
  <2>5. n \in Nat /\ Cardinality(A2) + 0 <= n
    BY <1>4, <2>1, <2>3, <2>4
  <2> QED
    BY ONLY <2>2, <2>4, <2>5 DEF Room
<1>6. Room(A, Waiting(d), sent[d]) => Room(A2, W, n)
  BY <1>2, <1>3
<1> QED
  BY <1>1, <1>5, <1>6

\* The copies of what is sent.
LEMMA SentStep ==
    ASSUME SentInv, Supply, ChainsKept
    PROVE  SentInv'
<1> SUFFICES ASSUME NEW d \in Data
             PROVE  Room(Copies(chain', d), Waiting(d)', sent'[d])
  BY DEF SentInv, Copies
<1>1. Copies(chain', d) \subseteq Copies(chain, d)
  BY CopiesWithin DEF ChainsKept
<1>2. Room(Copies(chain, d), Waiting(d), sent[d])
  BY DEF SentInv
<1> QED
  BY <1>1, <1>2, RoomSupply

\* The blocks behind what is acknowledged.
LEMMA AckStep ==
    ASSUME AckInv, SentInv', Confirm, ChainsKept
    PROVE  AckInv'
<1> SUFFICES ASSUME NoneFailed', NEW d \in Data
             PROVE  Backed(acked'[d], Acks(d)', Copies(chain', d), allocFails')
  BY DEF AckInv, Copies
<1>1. Copies(chain, d) \subseteq Copies(chain', d)
  BY CopiesWithin DEF ChainsKept
<1>2. IsFiniteSet(Copies(chain', d))
  BY DEF SentInv, Room, Copies
<1>3. Backed(acked[d], Acks(d), Copies(chain, d), allocFails)
  BY LossStep DEF AckInv, ChainsKept
<1>4. allocFails' \in Nat /\ allocFails <= allocFails'
  BY DEF ChainsKept, LossKept
<1>5. PICK K, n : K = Acks(d)' /\ n = acked'[d]
  OBVIOUS
<1>6. \/ n = acked[d] /\ K \subseteq Acks(d)
      \/ \E c, x : /\ n = acked[d] /\ c \in Acks(d)
                   /\ K \subseteq (Acks(d) \ {c}) \cup {x}
      \/ \E c : n = acked[d] + 1 /\ c \in Acks(d) /\ K \subseteq Acks(d) \ {c}
  BY <1>5 DEF Confirm
<1>7. Backed(n, K, Copies(chain', d), allocFails')
  BY <1>1, <1>2, <1>3, <1>4, <1>6, BackedSteps
<1> QED
  BY <1>5, <1>7

-----------------------------------------------------------------------------
(***************************************************************************)
(* Steps that put neither a store nor an answer on a connection, other     *)
(* than those in S, and change nothing of what is on its way.              *)
(***************************************************************************)
\* k2 is k with the packets of some end taken, or with packets of no account.
Drained(k, k2) ==
    /\ k2.who = k.who
    /\ k2.inbox["resp"] = k.inbox["resp"] \/ ~StoreIn(k2)
    /\ k2.inbox["init"] = k.inbox["init"] \/ ~AnswerIn(k2)
    /\ k2.open["init"] => k.open["init"]

Quiet(S) ==
    \A c \in DOMAIN conns' \ S :
        IF c \in DOMAIN conns THEN Drained(conns[c], conns'[c])
        ELSE ~StoreIn(conns'[c]) /\ ~AnswerIn(conns'[c])

WantKept(S) ==
    \A c \in (DOMAIN conns \cap DOMAIN conns') \ S, i \in Procs :
        /\ i = conns[c].who["init"] /\ AnswerIn(conns[c]) /\ AnswerIn(conns'[c])
        => Wanted(i)' = Wanted(i) /\ (i \in Clients => known'[i] = known[i])

\* What an answer that waits says of its connection.
LEMMA AnswerAwaits ==
    ASSUME SysInv, NEW c \in DOMAIN conns, AnswerIn(conns[c])
    PROVE  LET k == conns[c]
               i == k.who["init"]
           IN
           /\ k.open["init"] /\ InitPhase(c) = "await" /\ k.inbox["resp"] = << >>
           /\ OneAnswer(k.inbox["init"], i, Wanted(i))
           /\ i \in Procs
           /\ i = Router => rpc = "await" /\ c = server_sockets[ri] /\ k.who["resp"] = ri
           /\ i # Router => i \in Clients /\ c = sockfd[i] /\ cpc[i] = "await"
<1>1. IsConn(conns[c]) /\ Held(c) /\ Coherent(c)
  BY DEF SysInv, ConnInv
<1>2. PICK k, i : k = conns[c] /\ i = k.who["init"]
  OBVIOUS
<1>3. Exchange(InitPhase(c), RespPhase(c), k, Wanted(i), request, failed)
  BY <1>1, <1>2 DEF Coherent
<1>4. \A key : Head(<<ServerHello(key)>>).body.kind = "HELLO"
  BY DEF ServerHello, Hello
<1>5. /\ InitPhase(c) = "await" /\ k.inbox["resp"] = << >>
      /\ OneAnswer(k.inbox["init"], i, Wanted(i))
  BY <1>2, <1>3, <1>4 DEF AnswerIn, Exchange, Talking, Left, Deserted
<1>6. k.open["init"] /\ InitPc(i, k.who["resp"]) = "await"
  BY <1>2, <1>5 DEF InitPhase
<1>7. InitSock(i, k.who["resp"]) = c
  BY <1>1, <1>2, <1>6 DEF Held
<1>8. <<i, k.who["resp"]>> \in Links
  BY <1>1, <1>2 DEF IsConn
<1>9. i \in Procs /\ (i # Router => i \in Clients)
  BY <1>8, LinkEnds
<1>10. i = Router => rpc = "await" /\ c = server_sockets[ri] /\ k.who["resp"] = ri
  BY <1>6, <1>7 DEF InitPc, InitSock
<1>11. i # Router => c = sockfd[i] /\ cpc[i] = "await"
  BY <1>6, <1>7 DEF InitPc, InitSock
<1> QED
  BY <1>2, <1>5, <1>6, <1>9, <1>10, <1>11

\* What a store that waits says of its connection.
LEMMA StoreServed ==
    ASSUME SysInv, NEW c \in DOMAIN conns, StoreIn(conns[c])
    PROVE  LET k == conns[c] IN
           /\ k.open["resp"] /\ RespPhase(c) = "serve" /\ k.inbox["init"] = << >>
           /\ OneData(k.inbox["resp"]) /\ Head(k.inbox["resp"]).body \in Requests
           /\ InitPhase(c) \in {"gone", "await"}
           /\ InitPhase(c) = "await" =>
                  Head(k.inbox["resp"]).body = Wanted(k.who["init"])
<1>1. IsConn(conns[c]) /\ Coherent(c)
  BY DEF SysInv, ConnInv
<1>2. PICK k, i : k = conns[c] /\ i = k.who["init"]
  OBVIOUS
<1>3. Exchange(InitPhase(c), RespPhase(c), k, Wanted(i), request, failed)
  BY <1>1, <1>2 DEF Coherent
<1>4. Head(<<ClientHello>>).body.kind = "HELLO"
  BY DEF ClientHello, Hello
<1>5. /\ RespPhase(c) = "serve" /\ k.inbox["init"] = << >>
      /\ \/ /\ InitPhase(c) = "gone" /\ OneRequest(k.inbox["resp"], RequestsOf(i))
         \/ InitPhase(c) = "await" /\ OneRequest(k.inbox["resp"], {Wanted(i)})
  BY <1>2, <1>3, <1>4 DEF StoreIn, Exchange, Talking, Left, Deserted
<1>6. InitPhase(c) = "await" => Wanted(i) \in Requests
  <2> SUFFICES ASSUME InitPhase(c) = "await" PROVE Wanted(i) \in Requests
    OBVIOUS
  <2>1. <<i, k.who["resp"]>> \in Links
    BY <1>1, <1>2 DEF IsConn
  <2>2. InitPc(i, k.who["resp"]) = "await"
    BY <1>2 DEF InitPhase
  <2>3. CASE i = Router
    BY <2>2, <2>3 DEF InitPc, Wanted, SysInv, RouterInv
  <2>4. CASE i # Router
    BY <2>1, <2>2, <2>4, LinkEnds DEF InitPc, Wanted, SysInv, ClientInv
  <2> QED
    BY <2>3, <2>4
<1>7. Head(k.inbox["resp"]).body \in Requests
  BY <1>2, <1>5, <1>6 DEF StoreIn, OneRequest, RequestsOf
<1>8. k.open["resp"]
  BY <1>2, <1>5 DEF RespPhase
<1> QED
  BY <1>2, <1>5, <1>7, <1>8 DEF OneRequest

\* The stores and the acknowledgements that wait after such a step.
LEMMA QuietSets ==
    ASSUME SysInv, NEW S, Quiet(S), NEW d
    PROVE  /\ Waiting(d)' \ S \subseteq Waiting(d) \ S
           /\ WantKept(S) => Acks(d)' \ S \subseteq Acks(d) \ S
<1>1. ASSUME NEW c, c \in Waiting(d)' \ S
      PROVE  c \in Waiting(d) \ S
  <2>1. c \in DOMAIN conns' \ S /\ StoreIn(conns'[c])
        /\ Head(conns'[c].inbox["resp"]).body = StoreOf(d)
    BY <1>1 DEF Waiting, StoreIn, StoreOf
  <2>2. c \in DOMAIN conns /\ conns'[c].inbox["resp"] = conns[c].inbox["resp"]
    BY <2>1 DEF Quiet, Drained
  <2> QED
    BY <2>1, <2>2 DEF Waiting, StoreIn
<1>2. ASSUME WantKept(S), NEW c, c \in Acks(d)' \ S
      PROVE  c \in Acks(d) \ S
  <2>1. c \in DOMAIN conns' \ S /\ AnswerIn(conns'[c])
        /\ Head(conns'[c].inbox["init"]).body.kind = "DATA_STORED"
        /\ \A i : i = conns'[c].who["init"] => Wanted(i)' = StoreOf(d)
    BY <1>2 DEF Acks, AnswerIn, StoreOf, Wanted
  <2>2. c \in DOMAIN conns /\ conns'[c].inbox["init"] = conns[c].inbox["init"]
        /\ conns'[c].who = conns[c].who
    BY <2>1 DEF Quiet, Drained
  <2>3. AnswerIn(conns[c])
    BY <2>1, <2>2 DEF AnswerIn
  <2>4. PICK i : i = conns[c].who["init"]
    OBVIOUS
  <2>5. i \in Procs
    BY <2>2, <2>3, <2>4, AnswerAwaits
  <2>6. Wanted(i)' = Wanted(i)
    BY <1>2, <2>1, <2>2, <2>3, <2>4, <2>5 DEF WantKept
  <2>7. Wanted(i) = StoreOf(d)
    BY <2>1, <2>2, <2>4, <2>6
  <2> QED
    BY <2>1, <2>2, <2>3, <2>4, <2>7 DEF Acks
<1> QED
  BY <1>1, <1>2

\* The lists that wait after such a step, and what is known of the one in S.
LEMMA ListStep ==
    ASSUME SysInv, ListInv, NEW S, Quiet(S), WantKept(S), Supply, LossKept,
           \A c \in S \cap DOMAIN conns' :
               ListIn(conns'[c]) =>
                   \A list, k :
                       /\ list = Head(conns'[c].inbox["init"]).body.parts
                       /\ k = conns'[c].who["init"]
                       => IsCurrent(list, known'[k], sent', Lossless')
    PROVE  ListInv'
<1> SUFFICES ASSUME NEW c \in DOMAIN conns', ListIn(conns'[c]), NEW list, NEW k,
                    list = Head(conns'[c].inbox["init"]).body.parts,
                    k = conns'[c].who["init"]
             PROVE  IsCurrent(list, known'[k], sent', Lossless')
  BY DEF ListInv, ListIn, AnswerIn
<1>1. CASE c \in S
  BY <1>1
<1>2. CASE c \notin S
  <2>1. AnswerIn(conns'[c]) /\ Head(conns'[c].inbox["init"]).body.kind = "LIST"
    BY DEF ListIn
  <2>2. c \in DOMAIN conns /\ conns'[c].inbox["init"] = conns[c].inbox["init"]
        /\ conns'[c].who = conns[c].who
    BY <1>2, <2>1 DEF Quiet, Drained
  <2>3. AnswerIn(conns[c]) /\ ListIn(conns[c])
    BY <2>1, <2>2 DEF AnswerIn, ListIn
  <2>4. k \in Procs /\ (k # Router => k \in Clients)
        /\ OneAnswer(conns[c].inbox["init"], k, Wanted(k))
    BY <2>2, <2>3, AnswerAwaits
  <2>5. k # Router
    BY <2>1, <2>2, <2>4 DEF OneAnswer, IsAnswer, Replies, ReplyKinds
  <2>6. known'[k] = known[k]
    BY <1>2, <2>1, <2>2, <2>3, <2>4, <2>5 DEF WantKept
  <2>7. IsCurrent(list, known[k], sent, Lossless)
    BY <2>2, <2>3 DEF ListInv
  <2>8. ASSUME NEW d \in Data
        PROVE  /\ Room(Copies(Listed(list), d), {}, sent'[d])
               /\ Lossless' /\ Complete(list) =>
                      known'[k][d] <= Cardinality(Copies(Listed(list), d))
    <3>1. PICK A : A = Copies(Listed(list), d)
      OBVIOUS
    <3>2. Room(A, {}, sent[d]) /\ (Lossless /\ Complete(list) => known[k][d] <= Cardinality(A))
      BY <2>7, <3>1 DEF IsCurrent
    <3>3. Room(A, {}, sent'[d])
      BY <3>2, RoomSupply
    <3> QED
      BY <2>6, <3>1, <3>2, <3>3, LossStep
  <2> QED
    BY <2>8 DEF IsCurrent
<1> QED
  BY <1>1, <1>2

\* The connections of a router that gathers answers.
LEMMA Gatherer ==
    ASSUME SysInv, CountInv, Gathering, NEW a, a = client_sock, NEW c, c = server_sockets[ri],
           NEW k, k = conns[a].who["init"]
    PROVE  /\ a \in DOMAIN conns /\ c \in DOMAIN conns /\ a # c
           /\ conns[a].who["resp"] = Router /\ RespPhase(a) = "busy"
           /\ k \in Clients /\ k # Router /\ \A d \in Data : known[k][d] \in Nat
           /\ conns[c].who["init"] = Router /\ conns[c].who["resp"] = ri /\ ri \in Servers
           /\ conns[c].open["init"] /\ InitPhase(c) = "await"
           /\ conns[a].open["init"] => InitPhase(a) = "await" /\ a = sockfd[k]
<1>1. rpc = "await" /\ ri \in Servers /\ a # NoConn /\ c # NoConn
  BY DEF Gathering, SysInv, RouterInv
<1>2. /\ a \in DOMAIN conns /\ IsConn(conns[a]) /\ Held(a)
      /\ conns[a].who["resp"] = Router
      /\ k \in Clients /\ k # Router /\ RespPhase(a) = RespPc(Router)
  BY <1>1, RouterToClient
<1>3. /\ c \in DOMAIN conns /\ conns[c].open["init"] /\ conns[c].who["init"] = Router
      /\ conns[c].who["resp"] = ri /\ c # a /\ InitPhase(c) = InitPc(Router, ri)
  BY <1>1, RouterConn
<1>4. RespPhase(a) = "busy" /\ InitPhase(c) = "await"
  BY <1>1, <1>2, <1>3 DEF RespPc, InitPc
<1>5. \A d \in Data : known[k][d] \in Nat
  BY <1>2 DEF CountInv
<1>6. ASSUME conns[a].open["init"]
      PROVE  InitPhase(a) = "await" /\ a = sockfd[k]
  <2>1. /\ InitPhase(a) = "gone" <=> ~conns[a].open["init"]
        /\ Exchange(InitPhase(a), "busy", conns[a], cmd[k], request, failed)
    BY <1>1, <1>2, <1>4, RouterServes
  <2>2. InitPhase(a) = "await"
    BY <1>6, <2>1 DEF Exchange, Talking
  <2>3. InitSock(k, Router) = a
    BY <1>2, <1>6 DEF Held
  <2> QED
    BY <1>2, <2>2, <2>3 DEF InitSock
<1> QED
  BY <1>1, <1>2, <1>3, <1>4, <1>5, <1>6

\* The router gathers on, and nothing comes in for it.
GatherKept ==
    Gathering' =>
        /\ Gathering /\ UNCHANGED <<ri, replies, server_sockets, client_sock>>
        /\ \A c : c = server_sockets[ri] => conns'[c].inbox["init"] = conns[c].inbox["init"]
        /\ \A a : a = client_sock =>
               /\ conns'[a].who = conns[a].who
               /\ conns'[a].open["init"] =>
                      /\ conns[a].open["init"]
                      /\ \A k : k = conns[a].who["init"] => known'[k] = known[k]

\* The parts of the servers then change with their blocks.
LEMMA PartsKept ==
    ASSUME Gathering', GatherKept
    PROVE  /\ \A s \in Servers :
                  /\ Parts[s] = Part(s) /\ Parts'[s] = Part(s)'
                  /\ s < ri \/ (s = ri /\ Came) => Part(s)' = Part(s)
                  /\ ~(s < ri \/ (s = ri /\ Came)) =>
                         Part(s)' = chain'[s] /\ Part(s) = chain[s]
           /\ Whole' <=> Whole
<1>1. ri' = ri /\ replies' = replies /\ server_sockets' = server_sockets
  BY DEF GatherKept
<1>2. PICK c : c = server_sockets[ri]
  OBVIOUS
<1>3. conns'[c].inbox["init"] = conns[c].inbox["init"]
  BY <1>2 DEF GatherKept
<1>4. (Came' <=> Came) /\ CameBody' = CameBody
  BY <1>1, <1>2, <1>3 DEF Came, CameBody
<1>5. \A s \in Servers : Part(s)' = IF s < ri THEN replies[s + 1].blocks
                                    ELSE IF s = ri /\ Came THEN CameBody.blocks
                                    ELSE chain'[s]
  BY <1>1, <1>4 DEF Part
<1>6. \A s \in Servers : Parts[s] = Part(s) /\ Parts'[s] = Part(s)'
  BY DEF Parts
<1>7. Whole' <=> Whole
  BY <1>1, <1>4 DEF Whole
<1> QED
  BY <1>5, <1>6, <1>7 DEF Part

\* More parts show more.
LEMMA KnewMore ==
    ASSUME NEW A, NEW A2, A \subseteq A2, IsFiniteSet(A2), NEW n \in Nat, n <= Cardinality(A)
    PROVE  n <= Cardinality(A2)
<1>1. IsFiniteSet(A) /\ Cardinality(A) <= Cardinality(A2)
  BY FS_Subset
<1>2. Cardinality(A) \in Nat /\ Cardinality(A2) \in Nat
  BY <1>1, FS_CardinalityType
<1> QED
  BY <1>1, <1>2

\* The client the router works for goes on waiting, or leaves.
ClientStays ==
    \A a : a = client_sock =>
        /\ client_sock' = a /\ conns'[a].who = conns[a].who
        /\ conns'[a].open["init"] =>
               /\ conns[a].open["init"]
               /\ \A k : k = conns[a].who["init"] => known'[k] = known[k]

\* What is gathered, when the parts show as much as before in the room there
\* is.
LEMMA GatherOn ==
    ASSUME SysInv, CountInv, GatherInv, LossKept,
           Gathering' => Gathering /\ ClientStays,
           Gathering' /\ Lossless' /\ Whole' =>
               Whole /\ \A s \in Servers : Within(Part(s), Part(s)'),
           Gathering' => \A d \in Data : Room(Copies(Parts', d), Waiting(d)', sent'[d])
    PROVE  GatherInv'
<1> SUFFICES ASSUME Gathering', NEW d \in Data, NEW a, a = client_sock',
                    NEW k, k = conns'[a].who["init"]
             PROVE  Lossless' /\ Whole' /\ conns'[a].open["init"] =>
                        known'[k][d] <= Cardinality(Copies(Parts', d))
  BY DEF GatherInv
<1> SUFFICES ASSUME Lossless', Whole', conns'[a].open["init"]
             PROVE  known'[k][d] <= Cardinality(Copies(Parts', d))
  OBVIOUS
<1>1. Gathering /\ a = client_sock /\ k = conns[a].who["init"]
      /\ conns[a].open["init"] /\ known'[k] = known[k]
  BY DEF ClientStays
<1>2. Lossless /\ Whole
  BY LossStep
<1>3. known[k][d] <= Cardinality(Copies(Parts, d))
  BY <1>1, <1>2 DEF GatherInv
<1>4. known[k][d] \in Nat
  <2>1. PICK c : c = server_sockets[ri]
    OBVIOUS
  <2> QED
    BY <1>1, <2>1, Gatherer
<1>5. Copies(Parts, d) \subseteq Copies(Parts', d)
  <2>1. \A s \in Servers : Within(Parts[s], Parts'[s])
    BY DEF Parts
  <2> QED
    BY <2>1, CopiesWithin
<1>6. IsFiniteSet(Copies(Parts', d))
  BY DEF Room
<1> QED
  BY <1>1, <1>3, <1>4, <1>5, <1>6, KnewMore

\* The same with the blocks as they were.
LEMMA GatherStep ==
    ASSUME SysInv, CountInv, GatherInv, Supply, ChainsKept, GatherKept
    PROVE  GatherInv'
<1>1. ASSUME Gathering', Lossless', NEW s \in Servers
      PROVE  Within(Part(s), Part(s)')
  BY <1>1, PartsKept DEF ChainsKept, Lossless, Within
<1>2. ASSUME Gathering', NEW d \in Data
      PROVE  Room(Copies(Parts', d), Waiting(d)', sent'[d])
  <2>1. \A s \in Servers : Within(Parts'[s], Parts[s])
    BY <1>2, PartsKept DEF ChainsKept, Within
  <2>2. Copies(Parts', d) \subseteq Copies(Parts, d)
    BY <2>1, CopiesWithin
  <2>3. Room(Copies(Parts, d), Waiting(d), sent[d])
    BY <1>2 DEF GatherInv, GatherKept
  <2> QED
    BY <2>2, <2>3, RoomSupply
<1>3. LossKept
  BY DEF ChainsKept
<1>4. Gathering' => Gathering /\ ClientStays
  BY DEF GatherKept, ClientStays
<1>5. Gathering' /\ Whole' => Whole
  BY PartsKept
<1> QED
  BY <1>1, <1>2, <1>3, <1>4, <1>5, GatherOn

\* What clients know, they still know or forget.
KnownDrops ==
    \A k \in Clients, d \in Data : known'[k][d] = known[k][d] \/ known'[k][d] = 0

\* Nobody knows of more than is acknowledged.
LEMMA KnownStep ==
    ASSUME CountInv, KnownInv, KnownDrops, acked' = acked
    PROVE  KnownInv'
<1>1. \A k \in Clients, d \in Data : known[k][d] <= acked[d] /\ acked[d] \in Nat
  BY DEF KnownInv, CountInv, Counted
<1>2. \A k \in Clients, d \in Data : known'[k][d] <= acked'[d]
  BY <1>1 DEF KnownDrops
<1> QED
  BY <1>2 DEF KnownInv

\* Steps by which nothing is sent, stored, told or acknowledged; in general,
\* and when the router gathers on.
LEMMA QuietMost ==
    ASSUME SysInv, CountInv, LogInv, Quiet({}), WantKept({}), ChainsKept,
           KnownDrops, UNCHANGED <<sent, acked>>
    PROVE  Supply /\ SentInv' /\ AckInv' /\ KnownInv' /\ ListInv'
<1>1. Supply
  <2>1. \A d \in Data : Waiting(d)' \subseteq Waiting(d)
    BY QuietSets
  <2> QED
    BY <2>1 DEF Supply
<1>2. Confirm
  <2>1. \A d \in Data : Acks(d)' \subseteq Acks(d)
    BY QuietSets
  <2> QED
    BY <2>1 DEF Confirm
<1>3. SentInv'
  BY <1>1, SentStep DEF LogInv
<1>4. AckInv'
  BY <1>2, <1>3, AckStep DEF LogInv
<1>5. KnownInv'
  BY KnownStep DEF LogInv
<1>6. ListInv'
  <2>1. LossKept
    BY DEF ChainsKept
  <2>2. ListInv
    BY DEF LogInv
  <2>3. PICK S : S = {}
    OBVIOUS
  <2>4. Quiet(S) /\ WantKept(S) /\ S \cap DOMAIN conns' = {}
    BY <2>3
  <2> QED
    BY <1>1, <2>1, <2>2, <2>4, ListStep
<1> QED
  BY <1>1, <1>3, <1>4, <1>5, <1>6

(***************************************************************************)
(* Steps that bring no answer on its way, and leave what the router        *)
(* gathers as it is.                                                       *)
(***************************************************************************)
Carried(S) ==
    \A c \in DOMAIN conns' \ S :
        AnswerIn(conns'[c]) =>
            /\ c \in DOMAIN conns /\ AnswerIn(conns[c])
            /\ conns'[c].who = conns[c].who
            /\ conns'[c].inbox["init"] = conns[c].inbox["init"]
            /\ \A i \in Procs : i = conns[c].who["init"] => Wanted(i)' = Wanted(i)

Plain == Carried({}) /\ GatherKept

\* A step that puts nothing on a connection carries no new answer.
LEMMA QuietCarries ==
    ASSUME NEW S, Quiet(S), WantKept(S)
    PROVE  /\ Carried(S)
           /\ (\A c \in S : ~AnswerIn(conns'[c])) => Carried({})
<1>1. ASSUME NEW c \in DOMAIN conns' \ S, AnswerIn(conns'[c])
      PROVE  /\ c \in DOMAIN conns /\ AnswerIn(conns[c])
             /\ conns'[c].who = conns[c].who
             /\ conns'[c].inbox["init"] = conns[c].inbox["init"]
             /\ \A i \in Procs : i = conns[c].who["init"] => Wanted(i)' = Wanted(i)
  <2>1. c \in DOMAIN conns /\ Drained(conns[c], conns'[c])
    BY <1>1 DEF Quiet
  <2>2. AnswerIn(conns[c]) /\ conns'[c].inbox["init"] = conns[c].inbox["init"]
    BY <1>1, <2>1 DEF Drained, AnswerIn
  <2> QED
    BY <1>1, <2>1, <2>2 DEF Drained, WantKept
<1> QED
  BY <1>1 DEF Carried

\* The same with what the router gathers.
LEMMA QuietStep ==
    ASSUME SysInv, CountInv, LogInv, Quiet({}), WantKept({}), ChainsKept, GatherKept,
           KnownDrops, UNCHANGED <<sent, acked>>
    PROVE  LogInv' /\ Supply /\ Plain
<1>1. Supply /\ SentInv' /\ AckInv' /\ KnownInv' /\ ListInv'
  BY QuietMost
<1>2. GatherInv'
  BY <1>1, GatherStep DEF LogInv
<1> QED
  BY <1>1, <1>2, QuietCarries DEF LogInv, Plain

\* The blocks and the losses stay as they are.
LEMMA ChainsStay ==
    ASSUME SysInv, UNCHANGED <<chain, allocFails>>, failed \subseteq failed'
    PROVE  ChainsKept
<1>1. allocFails \in Nat
  BY ServerAssumption DEF SysInv, ShardInv
<1> QED
  BY <1>1 DEF ChainsKept, LossKept, Within

\* Nobody who waits for an answer changes its mind.
LEMMA WantsStay ==
    ASSUME SysInv, NEW S
    PROVE  /\ UNCHANGED <<cmd, request, known>> => WantKept(S)
           /\ rpc # "await" /\ UNCHANGED <<cmd, known>> => WantKept(S)
           /\ \A k \in Clients : \A r, f :
                  /\ cmd' = [cmd EXCEPT ![k] = r] /\ known' = [known EXCEPT ![k] = f]
                  /\ UNCHANGED request
                  /\ \A c \in (DOMAIN conns \cap DOMAIN conns') \ S :
                         c = sockfd[k] => ~AnswerIn(conns'[c])
                  /\ CountInv
                  => WantKept(S)
<1>1. ASSUME UNCHANGED <<cmd, request, known>> PROVE WantKept(S)
  BY <1>1 DEF WantKept, Wanted
<1>2. ASSUME rpc # "await", UNCHANGED <<cmd, known>> PROVE WantKept(S)
  <2> SUFFICES ASSUME NEW c \in DOMAIN conns, NEW i \in Procs, i = conns[c].who["init"],
                      AnswerIn(conns[c])
               PROVE  Wanted(i)' = Wanted(i) /\ (i \in Clients => known'[i] = known[i])
    BY DEF WantKept
  <2>1. i # Router
    BY <1>2, AnswerAwaits
  <2> QED
    BY <1>2, <2>1 DEF Wanted
<1>3. ASSUME NEW k \in Clients, NEW r, NEW f,
             cmd' = [cmd EXCEPT ![k] = r], known' = [known EXCEPT ![k] = f],
             UNCHANGED request, CountInv,
             \A c \in (DOMAIN conns \cap DOMAIN conns') \ S :
                 c = sockfd[k] => ~AnswerIn(conns'[c])
      PROVE  WantKept(S)
  <2> SUFFICES ASSUME NEW c \in (DOMAIN conns \cap DOMAIN conns') \ S, NEW i \in Procs,
                      i = conns[c].who["init"], AnswerIn(conns[c]), AnswerIn(conns'[c])
               PROVE  Wanted(i)' = Wanted(i) /\ (i \in Clients => known'[i] = known[i])
    BY DEF WantKept
  <2>1. i # Router => i \in Clients /\ c = sockfd[i]
    BY AnswerAwaits
  <2>2. i # k
    BY <1>3, <2>1, NetAssumption
  <2>3. DOMAIN cmd = Clients /\ known \in [Clients -> [Data -> 0 .. MaxStores]]
    BY <1>3 DEF SysInv, ClientInv, CountInv
  <2>4. i \in Clients => cmd'[i] = cmd[i] /\ known'[i] = known[i]
    BY <1>3, <2>2, <2>3
  <2> QED
    BY <1>3, <2>1, <2>4 DEF Wanted
<1> QED
  BY <1>1, <1>2, <1>3

\* When there is no answer, and no store, on a connection.
LEMMA NoTraffic ==
    ASSUME NEW i, NEW r, NEW k, NEW w, NEW b, NEW f, Exchange(i, r, k, w, b, f)
    PROVE  /\ i # "await" => ~AnswerIn(k)
           /\ r # "serve" \/ i \notin {"await", "gone"} => ~StoreIn(k)
           /\ r = "busy" => ~AnswerIn(k)
<1>1. Head(<<ClientHello>>).body.kind = "HELLO"
  BY DEF ClientHello, Hello
<1>2. \A key : Head(<<ServerHello(key)>>).body.kind = "HELLO"
  BY DEF ServerHello, Hello
<1> QED
  BY <1>1, <1>2 DEF Exchange, Talking, Left, Deserted, AnswerIn, StoreIn

\* A step at one connection is quiet elsewhere, and there if it drains it.
LEMMA QuietAt ==
    ASSUME NEW c \in DOMAIN conns, OnlyAt(conns, conns', c)
    PROVE  /\ Quiet({c})
           /\ Drained(conns[c], conns'[c]) => Quiet({})
           /\ ~StoreIn(conns'[c]) /\ ~AnswerIn(conns'[c]) => Quiet({})
<1>1. /\ DOMAIN conns' = DOMAIN conns /\ \A d \in DOMAIN conns \ {c} : conns'[d] = conns[d]
      /\ conns'[c].who = conns[c].who /\ conns'[c].open = conns[c].open
  BY DEF OnlyAt
<1>2. \A d \in DOMAIN conns \ {c} : Drained(conns[d], conns'[d])
  BY <1>1 DEF Drained
<1>3. ~StoreIn(conns'[c]) /\ ~AnswerIn(conns'[c]) => Drained(conns[c], conns'[c])
  BY <1>1 DEF Drained
<1> QED
  BY <1>1, <1>2, <1>3 DEF Quiet

\* A step that leaves the connections alone is quiet.
LEMMA QuietSame ==
    ASSUME conns' = conns, NEW S
    PROVE  Quiet(S)
  BY DEF Quiet, Drained

\* The router gathers on if its two connections are left alone.
LEMMA GatherAway ==
    ASSUME SysInv, CountInv,
           UNCHANGED <<rpc, ri, request, replies, server_sockets, client_sock>>,
           \A c \in DOMAIN conns :
               conns[c].who["init"] = Router /\ InitPhase(c) = "await" =>
                   conns'[c].inbox["init"] = conns[c].inbox["init"],
           \A a \in DOMAIN conns : conns[a].who["resp"] = Router /\ RespPhase(a) = "busy" =>
               /\ conns'[a].who = conns[a].who
               /\ conns'[a].open["init"] =>
                      /\ conns[a].open["init"]
                      /\ \A k : k = conns[a].who["init"] => known'[k] = known[k]
    PROVE  GatherKept
<1> SUFFICES ASSUME Gathering' PROVE GatherKept
  BY DEF GatherKept
<1>1. Gathering
  BY DEF Gathering
<1>2. PICK a, c, k : a = client_sock /\ c = server_sockets[ri] /\ k = conns[a].who["init"]
  OBVIOUS
<1>3. /\ a \in DOMAIN conns /\ c \in DOMAIN conns /\ RespPhase(a) = "busy"
      /\ conns[a].who["resp"] = Router
      /\ conns[c].who["init"] = Router /\ InitPhase(c) = "await"
  BY <1>1, <1>2, Gatherer
<1> QED
  BY <1>1, <1>2, <1>3 DEF GatherKept

\* The end of process p is quiet.
LEMMA QuietDeath ==
    ASSUME SysInv, NEW p \in Procs, NEW cs, SameEnds(conns, cs),
           \A d \in DOMAIN conns : Drained(conns[d], cs[d]),
           conns' = Orphaned(cs, p)
    PROVE  /\ Quiet({})
           /\ \A d \in DOMAIN conns' : conns'[d].who["init"] = p => ~AnswerIn(conns'[d])
           /\ \A d \in DOMAIN conns :
                  /\ conns[d].open["init"] /\ conns[d].who["init"] # p =>
                         conns'[d].inbox["init"] = cs[d].inbox["init"]
                  /\ conns[d].open["resp"] /\ conns[d].who["resp"] # p =>
                         /\ conns'[d].who = conns[d].who
                         /\ conns'[d].open["init"] =>
                                conns[d].open["init"] /\ conns[d].who["init"] # p
<1>1. \A d \in DOMAIN cs : IsConn(cs[d])
  BY DEF SameEnds
<1>2. /\ DOMAIN conns' \subseteq DOMAIN cs
      /\ \A d \in DOMAIN cs, e \in Ends :
             cs[d].open[e] /\ cs[d].who[e] # p => d \in DOMAIN conns'
      /\ \A d \in DOMAIN conns' :
             \/ conns'[d] = cs[d] /\ \A e \in Ends : ~Has(p, cs[d], e)
             \/ \E e \in Ends :
                   /\ Has(p, cs[d], e) /\ cs[d].open[Other(e)]
                   /\ ShutAt(cs[d], conns'[d], e, d \in Queue(p))
  BY <1>1, OrphanedEffect
<1>3. /\ DOMAIN cs = DOMAIN conns
      /\ \A d \in DOMAIN conns : cs[d].who = conns[d].who /\ cs[d].open = conns[d].open
  BY DEF SameEnds
<1>4. ASSUME NEW d \in DOMAIN conns'
      PROVE  /\ conns'[d].who = cs[d].who
             /\ \/ conns'[d].inbox["init"] = cs[d].inbox["init"]
                \/ conns'[d].inbox["init"] = << >> /\ Has(p, cs[d], "init")
             /\ conns'[d].inbox["resp"] = cs[d].inbox["resp"]
                \/ conns'[d].inbox["resp"] = << >>
             /\ conns'[d].open["init"] => cs[d].open["init"]
             /\ Has(p, cs[d], "init") /\ cs[d].who["resp"] # p =>
                    ~conns'[d].open["init"] /\ conns'[d].inbox["init"] = << >>
  <2>1. CASE conns'[d] = cs[d] /\ \A e \in Ends : ~Has(p, cs[d], e)
    BY <2>1, EndsOf
  <2>2. ASSUME NEW e \in Ends, Has(p, cs[d], e), ShutAt(cs[d], conns'[d], e, d \in Queue(p))
        PROVE  /\ conns'[d].who = cs[d].who
               /\ \/ conns'[d].inbox["init"] = cs[d].inbox["init"]
                  \/ conns'[d].inbox["init"] = << >> /\ Has(p, cs[d], "init")
               /\ conns'[d].inbox["resp"] = cs[d].inbox["resp"]
                  \/ conns'[d].inbox["resp"] = << >>
               /\ conns'[d].open["init"] => cs[d].open["init"]
               /\ Has(p, cs[d], "init") /\ cs[d].who["resp"] # p =>
                      ~conns'[d].open["init"] /\ conns'[d].inbox["init"] = << >>
    <3>1. CASE e = "init"
      BY <2>2, <3>1, EndsOf DEF ShutAt
    <3>2. CASE e = "resp"
      BY <2>2, <3>2, EndsOf DEF ShutAt, Has
    <3> QED
      BY <3>1, <3>2, EndsOf
  <2> QED
    BY <1>2, <2>1, <2>2
<1>5. \A k : k.inbox["init"] = << >> => ~AnswerIn(k)
  BY DEF AnswerIn
<1>6. \A k : k.inbox["resp"] = << >> => ~StoreIn(k)
  BY DEF StoreIn
<1>7. ASSUME NEW d \in DOMAIN conns'
      PROVE  d \in DOMAIN conns /\ Drained(conns[d], conns'[d])
  <2>1. d \in DOMAIN conns /\ Drained(conns[d], cs[d])
    BY <1>2, <1>3
  <2>2. /\ AnswerIn(conns'[d]) => conns'[d].inbox["init"] = conns[d].inbox["init"]
        /\ StoreIn(conns'[d]) => conns'[d].inbox["resp"] = conns[d].inbox["resp"]
    BY <1>4, <1>5, <1>6, <2>1 DEF Drained, AnswerIn, StoreIn
  <2> QED
    BY <1>3, <1>4, <2>1, <2>2 DEF Drained
<1>8. Quiet({})
  BY <1>7 DEF Quiet
<1>9. ASSUME NEW d \in DOMAIN conns', conns'[d].who["init"] = p, AnswerIn(conns'[d])
      PROVE  FALSE
  <2>1. d \in DOMAIN conns /\ conns'[d].inbox["init"] = conns[d].inbox["init"]
        /\ conns[d].who["init"] = p
    BY <1>7, <1>9 DEF Drained
  <2>2. AnswerIn(conns[d])
    BY <1>9, <2>1 DEF AnswerIn
  <2>3. conns[d].open["init"]
    BY <2>1, <2>2, AnswerAwaits
  <2>4. <<p, conns[d].who["resp"]>> \in Links
    BY <2>1 DEF SysInv, ConnInv, IsConn
  <2>5. conns[d].who["resp"] # p
    BY <2>4, LinkEnds
  <2>6. conns'[d].inbox["init"] = << >>
    BY <1>3, <1>4, <2>1, <2>3, <2>5 DEF Has
  <2> QED
    BY <1>5, <1>9, <2>6
<1>10. ASSUME NEW d \in DOMAIN conns, conns[d].open["init"], conns[d].who["init"] # p
       PROVE  conns'[d].inbox["init"] = cs[d].inbox["init"]
  <2>1. d \in DOMAIN conns'
    BY <1>2, <1>3, <1>10, EndsOf
  <2> QED
    BY <1>3, <1>4, <1>10, <2>1 DEF Has
<1>11. ASSUME NEW d \in DOMAIN conns, conns[d].open["resp"], conns[d].who["resp"] # p
       PROVE  /\ conns'[d].who = conns[d].who
              /\ conns'[d].open["init"] => conns[d].open["init"] /\ conns[d].who["init"] # p
  <2>1. d \in DOMAIN conns'
    BY <1>2, <1>3, <1>11, EndsOf
  <2> QED
    BY <1>3, <1>4, <1>11, <2>1 DEF Has
<1> QED
  BY <1>8, <1>9, <1>10, <1>11

-----------------------------------------------------------------------------
\* A server ends, and its blocks are lost with it.
LEMMA ServerDeathLog ==
    ASSUME SysInv, CountInv, LogInv, NEW s \in Servers,
           NEW how, how \notin {"exit", "refused", "up"}, End(s, how, conns),
           ServerGone(s), UNCHANGED <<routervars, clientvars>>
    PROVE  LogInv' /\ Supply /\ Plain
<1>1. s # Router /\ s \in Procs /\ s \notin Clients
  BY NetAssumption DEF Servers, Procs
<1>2. /\ failed' = failed \cup {s} /\ conns' = Orphaned(conns, s)
      /\ chain' = [chain EXCEPT ![s] = << >>] /\ UNCHANGED allocFails
  BY DEF End, ServerGone
<1>3. /\ UNCHANGED <<rpc, ri, request, replies, server_sockets, client_sock>>
      /\ UNCHANGED <<cmd, sent, acked, known>>
  BY DEF routervars, clientvars
<1>4. SameEnds(conns, conns) /\ \A d \in DOMAIN conns : Drained(conns[d], conns[d])
  BY SameEndsSelf DEF Drained
<1>5. /\ Quiet({})
      /\ \A d \in DOMAIN conns :
             /\ conns[d].open["init"] /\ conns[d].who["init"] # s =>
                    conns'[d].inbox["init"] = conns[d].inbox["init"]
             /\ conns[d].open["resp"] /\ conns[d].who["resp"] # s =>
                    /\ conns'[d].who = conns[d].who
                    /\ conns'[d].open["init"] => conns[d].open["init"]
  BY <1>1, <1>2, <1>4, QuietDeath
<1>6. WantKept({})
  BY <1>3, WantsStay
<1>7. ChainsKept
  <2>1. allocFails \in Nat /\ DOMAIN chain = Servers
    BY ServerAssumption DEF SysInv, ShardInv
  <2>2. \A t \in Servers : Within(chain'[t], chain[t])
    <3>1. DOMAIN << >> = {}
      OBVIOUS
    <3> QED
      BY <1>2, <2>1, <3>1 DEF Within
  <2>3. ~NoneFailed'
    BY <1>2 DEF NoneFailed
  <2> QED
    BY <1>2, <2>1, <2>2, <2>3 DEF ChainsKept, LossKept
<1>8. GatherKept
  <2>1. \A c \in DOMAIN conns : InitPhase(c) = "await" => conns[c].open["init"]
    BY DEF InitPhase
  <2>2. \A c \in DOMAIN conns : RespPhase(c) = "busy" => conns[c].open["resp"]
    BY DEF RespPhase
  <2> QED
    BY <1>1, <1>3, <1>5, <2>1, <2>2, GatherAway
<1>9. KnownDrops
  BY <1>3 DEF KnownDrops
<1> QED
  BY <1>3, <1>5, <1>6, <1>7, <1>8, <1>9, QuietStep

\* A step of a server that answers no request.
LEMMA ServerQuietLog ==
    ASSUME SysInv, CountInv, LogInv, NEW s \in Servers,
           UNCHANGED <<routervars, clientvars, failed, chain, allocFails>>,
           ServerAccept(s) \/ ServerHandshake(s)
           \/ (spc[s] = "serve" /\ conns' = [d \in DOMAIN conns \ {ssock[s]} |-> conns[d]]
               /\ ~conns[ssock[s]].open["init"] /\ ssock[s] \in DOMAIN conns)
    PROVE  LogInv' /\ Supply /\ Plain
<1>1. s # Router /\ s \in Procs /\ s \notin Clients
  BY NetAssumption DEF Servers, Procs
<1>2. /\ UNCHANGED <<rpc, ri, request, replies, server_sockets, client_sock>>
      /\ UNCHANGED <<cmd, sent, acked, known>>
  BY DEF routervars, clientvars
<1>3. WantKept({}) /\ ChainsKept /\ KnownDrops
  BY <1>2, WantsStay, ChainsStay DEF KnownDrops
<1>4. PICK c : c = ssock[s]
  OBVIOUS
<1>5. \A d \in DOMAIN conns : IsConn(conns[d])
  BY DEF SysInv, ConnInv
<1>6. spc[s] # "accept" =>
          /\ c \in DOMAIN conns /\ conns[c].who["resp"] = s /\ RespPhase(c) = spc[s]
          /\ Exchange(InitPhase(c), spc[s], conns[c], Wanted(Router), request, failed)
          /\ InitPhase(c) = "gone" <=> ~conns[c].open["init"]
  <2>1. spc[s] # "accept" => c # NoConn
    BY <1>4 DEF SysInv, ServerInv
  <2>2. c # NoConn =>
            /\ c \in DOMAIN conns /\ conns[c].who["resp"] = s /\ RespPhase(c) = spc[s]
            /\ Exchange(InitPhase(c), spc[s], conns[c], Wanted(Router), request, failed)
    BY <1>4, AtServer DEF Coherent
  <2>3. c \in DOMAIN conns => (InitPhase(c) = "gone" <=> ~conns[c].open["init"])
    BY <1>5, PhaseGone DEF SysInv
  <2> QED
    BY <2>1, <2>2, <2>3
<1>7. ASSUME Quiet({}),
             \A d \in DOMAIN conns : d # c => conns'[d] = conns[d],
             c \in DOMAIN conns => conns[c].who["resp"] = s /\ InitPhase(c) # "await"
      PROVE  LogInv' /\ Supply /\ Plain
  <2>1. GatherKept
    BY <1>1, <1>2, <1>7, GatherAway
  <2> QED
    BY <1>2, <1>3, <1>7, <2>1, QuietStep
<1>8. CASE ServerAccept(s)
  <2>1. conns' = conns
    BY <1>8 DEF ServerAccept, Accept
  <2>2. GatherKept
    BY <1>2, <2>1, GatherAway
  <2>3. Quiet({})
    BY <2>1, QuietSame
  <2> QED
    BY <1>2, <1>3, <2>2, <2>3, QuietStep
<1>9. CASE ServerHandshake(s) /\ ~(End(s, "ub", conns) /\ ServerGone(s))
  <2>1. spc[s] = "client_hello" /\ CanRecv(c, "resp")
    BY <1>4, <1>9 DEF ServerHandshake
  <2>2. PICK key \in ResponderKeys(c) : Communicate(Answered(c, key))
    BY <1>4, <1>9 DEF ServerHandshake
  <2>3. /\ c \in DOMAIN conns /\ conns[c].who["resp"] = s
        /\ Exchange(InitPhase(c), "client_hello", conns[c], Wanted(Router), request, failed)
        /\ InitPhase(c) = "gone" <=> ~conns[c].open["init"]
    BY <1>6, <2>1
  <2>4. /\ OnlyAt(conns, conns', c) /\ conns'[c].inbox["resp"] = << >>
        /\ Exchange(InitPhase(c), "serve", conns'[c], Wanted(Router), request, failed)
    BY <1>5, <2>1, <2>2, <2>3, AnsweredEffect DEF Communicate
  <2>5. InitPhase(c) # "await"
    BY <2>3 DEF Exchange, Talking
  <2>6. ~StoreIn(conns'[c]) /\ ~AnswerIn(conns'[c])
    BY <2>4, <2>5, NoTraffic DEF StoreIn
  <2>7. Quiet({}) /\ \A d \in DOMAIN conns : d # c => conns'[d] = conns[d]
    BY <2>3, <2>4, <2>6, QuietAt DEF OnlyAt
  <2> QED
    BY <1>7, <2>3, <2>5, <2>7
<1>10. CASE End(s, "ub", conns) /\ ServerGone(s)
  BY <1>10, ServerDeathLog
<1>11. CASE /\ spc[s] = "serve" /\ conns' = [d \in DOMAIN conns \ {c} |-> conns[d]]
            /\ ~conns[c].open["init"] /\ c \in DOMAIN conns
  <2>1. /\ DOMAIN conns' = DOMAIN conns \ {c}
        /\ \A d \in DOMAIN conns : d # c => conns'[d] = conns[d]
    BY <1>11
  <2>2. Quiet({})
    BY <2>1 DEF Quiet, Drained
  <2>3. conns[c].who["resp"] = s /\ InitPhase(c) # "await"
    BY <1>6, <1>11
  <2> QED
    BY <1>7, <2>1, <2>2, <2>3
<1> QED
  BY <1>4, <1>8, <1>9, <1>10, <1>11

\* What the answer of server s puts on its connection.
LEMMA RespondedIn ==
    ASSUME NEW s, NEW c \in DOMAIN conns, c = ssock[s], IsConn(conns[c]), NEW reply,
           conns[c].inbox["init"] = << >>
    PROVE  LET k == Responded(s, reply)[c] IN
           /\ conns[c].open["init"] =>
                  k.inbox["init"] # << >> /\ Head(k.inbox["init"]).body = reply
           /\ ~conns[c].open["init"] => k.inbox["init"] = << >>
<1>1. PICK cs, p : /\ cs = Taken(c, "resp")
                   /\ p = DataPacket(cs, c, "resp", reply, ReplyLen(reply))
  OBVIOUS
<1>2. PICK r : r = Sent(cs, c, "resp", p)
  OBVIOUS
<1>3. r = Responded(s, reply) /\ p.body = reply
  BY <1>1, <1>2 DEF Responded, DataPacket
<1>4. OnlyAt(conns, cs, c) /\ TakenAt(conns[c], cs[c], "resp")
  BY <1>1, TakenEffect DEF Ends
<1>5. /\ c \in DOMAIN cs /\ IsConn(cs[c]) /\ cs[c].inbox["init"] = << >>
      /\ cs[c].open = conns[c].open
  BY <1>4, EndsOf DEF OnlyAt, TakenAt
<1>6. SentAt(cs[c], r[c], "resp", p)
  BY <1>2, <1>5, SentEffect DEF Ends
<1>7. Append(<< >>, p) # << >> /\ Head(Append(<< >>, p)) = p
  OBVIOUS
<1> QED
  BY <1>3, <1>5, <1>6, <1>7, EndsOf DEF SentAt

\* What retrieve_data answers is what the blocks hold.
LEMMA RetrieveShows ==
    ASSUME NEW ch \in Seq(Block)
    PROVE  /\ RetrieveReply(ch).kind \in ReplyKinds
           /\ Within(RetrieveReply(ch).blocks, ch)
           /\ Shows(RetrieveReply(ch)) => Within(ch, RetrieveReply(ch).blocks)
           /\ Within(Validated(ch), ch) /\ Within(ch, Validated(ch))
<1>1. Within(Validated(ch), ch) /\ Within(ch, Validated(ch))
  <2>1. DOMAIN Validated(ch) = 1 .. Len(ch) /\ DOMAIN ch = 1 .. Len(ch)
    BY DEF Validated
  <2> QED
    BY <2>1, ValidatedKeeps DEF Within
<1>2. Within(<< >>, ch) /\ Within(<< >>, << >>)
  <2>1. DOMAIN << >> = {}
    OBVIOUS
  <2> QED
    BY <2>1 DEF Within
<1>3. CASE ~ValidChain(ch)
  BY <1>1, <1>2, <1>3 DEF RetrieveReply, Reply, Shows, ReplyKinds
<1>4. CASE ValidChain(ch) /\ ch = << >>
  BY <1>1, <1>2, <1>4 DEF RetrieveReply, Reply, Shows, ReplyKinds
<1>5. CASE ValidChain(ch) /\ ch # << >>
  BY <1>1, <1>5 DEF RetrieveReply, Reply, Shows, ReplyKinds
<1> QED
  BY <1>3, <1>4, <1>5

\* The router still gathers as it did, or the answer reply of server s came in.
AnswerComes(s, reply) ==
    \/ GatherKept
    \/ /\ Gathering /\ UNCHANGED <<ri, replies, server_sockets, client_sock>>
       /\ ri = s /\ ~Came /\ Came' /\ CameBody' = reply
       /\ ssock[s] = server_sockets[s]

\* A server answers a retrieve.
LEMMA ServerRetrieveLog ==
    ASSUME SysInv, CountInv, LogInv, NEW s \in Servers, spc[s] = "serve",
           Readable(ssock[s], "resp"), Received(ssock[s], "resp").body.kind = "RETRIEVE",
           ServerRetrieve(s), UNCHANGED <<routervars, clientvars>>
    PROVE  LogInv' /\ Supply /\ Carried({}) /\ AnswerComes(s, RetrieveReply(chain[s]))
<1>1. s # Router /\ Router \notin Servers
  BY NetAssumption DEF Servers
<1>2. /\ UNCHANGED <<rpc, ri, request, replies, server_sockets, client_sock>>
      /\ UNCHANGED <<cmd, sent, acked, known>>
  BY DEF routervars, clientvars
<1>3. PICK c, r, reply : /\ c = ssock[s] /\ r = Received(c, "resp").body
                         /\ reply = RetrieveReply(chain[s])
  OBVIOUS
<1>4. /\ c \in DOMAIN conns /\ IsConn(conns[c]) /\ conns[c].who["init"] = Router
      /\ InitPhase(c) = "gone" <=> ~conns[c].open["init"]
      /\ conns[c].inbox["resp"] # << >> /\ c # NoConn
      /\ Exchange(InitPhase(c), "serve", conns[c], Wanted(Router), request, failed)
      /\ InitPhase(c) = "await" => r = Wanted(Router)
  BY <1>3, ServerRequest
<1>5. conns[c].who["resp"] = s
  BY <1>3, <1>4, AtServer
<1>6. conns[c].inbox["init"] = << >>
  BY <1>4 DEF Exchange, Talking, Left
<1>7. /\ ReplyLen(reply) \in Nat /\ ReplyLen(reply) <= ListMax
      /\ IsAnswer(Router, r, reply)
  BY <1>3, RetrieveAnswers
<1>8. /\ chain' = [chain EXCEPT ![s] = Validated(@)] /\ UNCHANGED <<allocFails, failed>>
      /\ conns' = Responded(s, reply)
  BY <1>3 DEF ServerRetrieve, Communicate
<1>9. OnlyAt(conns, conns', c) /\ conns'[c].inbox["resp"] = << >>
  <2>1. InitPhase(c) = "await" => IsAnswer(conns[c].who["init"], Wanted(Router), reply)
    BY <1>4, <1>7
  <2>2. PICK x : x = Responded(s, reply)
    OBVIOUS
  <2>3. OnlyAt(conns, x, c) /\ x[c].inbox["resp"] = << >>
    BY ONLY <1>3, <1>4, <1>7, <2>1, <2>2, RespondedEffect
  <2> QED
    BY <1>8, <2>2, <2>3
<1>10. /\ conns[c].open["init"] =>
              conns'[c].inbox["init"] # << >> /\ Head(conns'[c].inbox["init"]).body = reply
       /\ ~conns[c].open["init"] => conns'[c].inbox["init"] = << >>
  BY <1>3, <1>4, <1>6, <1>8, RespondedIn
<1>11. /\ reply.kind \in ReplyKinds /\ Within(reply.blocks, chain[s])
       /\ Shows(reply) => Within(chain[s], reply.blocks)
       /\ Within(Validated(chain[s]), chain[s]) /\ Within(chain[s], Validated(chain[s]))
  BY <1>3, ChainLen, RetrieveShows
<1>12. Quiet({})
  <2>1. ~StoreIn(conns'[c]) /\ ~AnswerIn(conns'[c])
    BY <1>9, <1>10, <1>11 DEF StoreIn, AnswerIn, ReplyKinds
  <2> QED
    BY <1>4, <1>9, <2>1, QuietAt
<1>13. /\ \A t \in Servers : Within(chain'[t], chain[t]) /\ Within(chain[t], chain'[t])
       /\ \A t \in Servers \ {s} : chain'[t] = chain[t]
       /\ ChainsKept
  <2>1. DOMAIN chain = Servers /\ allocFails \in Nat
    BY ServerAssumption DEF SysInv, ShardInv
  <2>2. \A t \in Servers : Within(chain'[t], chain[t]) /\ Within(chain[t], chain'[t])
    BY <1>8, <1>11, <2>1 DEF Within
  <2>3. \A t \in Servers \ {s} : chain'[t] = chain[t]
    BY <1>8, <2>1
  <2> QED
    BY <1>8, <2>1, <2>2, <2>3 DEF ChainsKept, LossKept
<1>14. WantKept({}) /\ KnownDrops
  BY <1>2, WantsStay DEF KnownDrops
<1>15. Supply /\ SentInv' /\ AckInv' /\ KnownInv' /\ ListInv'
  BY <1>2, <1>12, <1>13, <1>14, QuietMost
<1>16. PICK a, b, k : a = client_sock /\ b = server_sockets[ri] /\ k = conns[a].who["init"]
  OBVIOUS
<1>17. Gathering' => /\ Gathering /\ a \in DOMAIN conns /\ b \in DOMAIN conns
                     /\ conns[a].who["resp"] = Router /\ conns[b].who["resp"] = ri
                     /\ conns'[a] = conns[a] /\ ClientStays
  <2> SUFFICES ASSUME Gathering'
               PROVE  /\ Gathering /\ a \in DOMAIN conns /\ b \in DOMAIN conns
                      /\ conns[a].who["resp"] = Router /\ conns[b].who["resp"] = ri
                      /\ conns'[a] = conns[a] /\ ClientStays
    OBVIOUS
  <2>1. Gathering
    BY <1>2 DEF Gathering
  <2>2. /\ a \in DOMAIN conns /\ b \in DOMAIN conns
        /\ conns[a].who["resp"] = Router /\ conns[b].who["resp"] = ri
    BY <1>16, <2>1, Gatherer
  <2>3. conns'[a] = conns[a]
    BY <1>1, <1>5, <1>9, <2>2 DEF OnlyAt
  <2> QED
    BY <1>2, <1>16, <2>1, <2>2, <2>3 DEF ClientStays
<1>18. CASE b # c
  <2>1. GatherKept
    BY <1>2, <1>9, <1>16, <1>17, <1>18 DEF GatherKept, OnlyAt
  <2> QED
    BY <1>2, <1>12, <1>13, <1>14, <2>1, QuietStep DEF Plain, AnswerComes
<1>19. CASE b = c
  <2>0. Carried({})
    BY <1>12, <1>14, QuietCarries
  <2> SUFFICES ASSUME Gathering' PROVE GatherInv' /\ AnswerComes(s, reply)
    BY <1>3, <1>15, <2>0 DEF LogInv, GatherInv, AnswerComes, GatherKept
  <2>1. Gathering /\ ClientStays /\ ri = s /\ conns[c].open["init"]
    <3>1. Gathering /\ ClientStays /\ ri = s
      BY <1>5, <1>17, <1>19
    <3> QED
      BY <1>16, <1>19, <3>1, Gatherer
  <2>2. ~Came /\ Came' /\ CameBody' = reply
    BY <1>2, <1>6, <1>10, <1>16, <1>19, <2>1 DEF Came, CameBody
  <2>3. ri \in Nat /\ \A t \in Servers : t \in Nat
    BY NetAssumption DEF Servers, SysInv, RouterInv
  <2>4. ASSUME NEW t \in Servers
        PROVE  /\ Within(Part(t)', Part(t))
               /\ Whole' => Within(Part(t), Part(t)')
    <3>1. CASE t < ri
      <4>1. Part(t)' = Part(t)
        BY <1>2, <3>1 DEF Part
      <4> QED
        BY <4>1 DEF Within
    <3>2. CASE t = ri
      <4>1. Part(t)' = reply.blocks /\ Part(t) = chain[s]
        BY <1>2, <2>1, <2>2, <2>3, <3>2 DEF Part
      <4>2. Whole' => Shows(reply)
        BY <2>2 DEF Whole
      <4> QED
        BY <1>11, <4>1, <4>2
    <3>3. CASE ~(t < ri) /\ t # ri
      <4>1. Part(t)' = chain'[t] /\ Part(t) = chain[t]
        BY <1>2, <3>3 DEF Part
      <4> QED
        BY <1>13, <4>1
    <3> QED
      BY <3>1, <3>2, <3>3
  <2>5. Whole' => Whole
    BY <1>2, <2>2 DEF Whole
  <2>6. ASSUME NEW d \in Data
        PROVE  Room(Copies(Parts', d), Waiting(d)', sent'[d])
    <3>1. \A t \in Servers : Within(Parts'[t], Parts[t])
      BY <2>4 DEF Parts
    <3>2. Copies(Parts', d) \subseteq Copies(Parts, d)
      BY <3>1, CopiesWithin
    <3>3. Room(Copies(Parts, d), Waiting(d), sent[d])
      BY <2>1 DEF LogInv, GatherInv
    <3> QED
      BY <1>15, <3>2, <3>3, RoomSupply
  <2>7. GatherInv /\ LossKept
    BY <1>13 DEF LogInv, ChainsKept
  <2>8. AnswerComes(s, reply)
    BY <1>2, <1>3, <1>16, <1>19, <2>1, <2>2 DEF AnswerComes
  <2> QED
    BY <2>1, <2>4, <2>5, <2>6, <2>7, <2>8, GatherOn
<1> QED
  BY <1>18, <1>19

\* Block n of list b2 holds payload p, and the others are those of b.
Plus(b2, b, n, p) ==
    \A i \in DOMAIN b2 :
        \/ i \in DOMAIN b /\ b2[i].data = b[i].data
        \/ i = n /\ b2[i].data = p

Place(s, n) == <<s, n>>

Grown(f, g, s, n, p) ==
    \A t \in Servers : Within(g[t], f[t]) \/ (t = s /\ Plus(g[t], f[t], n, p))

\* Where payloads are when server s got one more block.
LEMMA CopiesPlus ==
    ASSUME NEW s, NEW n, NEW x, x = Place(s, n), NEW p, NEW f, NEW g, NEW d,
           Grown(f, g, s, n, p)
    PROVE  /\ Gained(Copies(f, d), Copies(g, d), x)
           /\ d # p => Copies(g, d) \subseteq Copies(f, d)
<1>1. ASSUME NEW y, y \in Copies(g, d)
      PROVE  y \in Copies(f, d) \/ (y = x /\ d = p)
  <2>1. PICK t, i : t \in Servers /\ i \in DOMAIN g[t] /\ y = <<t, i>> /\ g[t][i].data = d
    BY <1>1 DEF Copies
  <2>2. \/ i \in DOMAIN f[t] /\ f[t][i].data = d
        \/ t = s /\ i = n /\ d = p
    BY <2>1 DEF Grown, Within, Plus
  <2>3. CASE i \in DOMAIN f[t] /\ f[t][i].data = d
    BY <2>1, <2>3 DEF Copies
  <2>4. CASE t = s /\ i = n /\ d = p
    BY <2>1, <2>4 DEF Place
  <2> QED
    BY <2>2, <2>3, <2>4
<1> QED
  BY <1>1 DEF Gained

\* store_data adds one block.
LEMMA StoreAdds ==
    ASSUME NEW ch \in Seq(Block), NEW p \in Data, NEW n, n = Len(ch) + 1
    PROVE  LET b == StoreData(ch, p) IN
           /\ Within(ch, b) /\ Plus(b, ch, n, p)
           /\ n \in DOMAIN b /\ n \notin DOMAIN ch /\ b[n].data = p
<1>1. PICK b : b = StoreData(ch, p)
  OBVIOUS
<1>2. /\ b \in Seq(Block) /\ Len(b) = Len(ch) + 1 /\ b[Len(ch) + 1].data = p
      /\ \A i \in 1 .. Len(ch) : b[i].data = ch[i].data
  BY <1>1, StoreKeeps
<1>3. DOMAIN b = 1 .. Len(b) /\ DOMAIN ch = 1 .. Len(ch) /\ Len(ch) \in Nat
  BY <1>2
<1>4. n \in DOMAIN b /\ n \notin DOMAIN ch /\ \A i \in DOMAIN b : i \in DOMAIN ch \/ i = n
  BY <1>2, <1>3
<1>5. Within(ch, b)
  BY <1>2, <1>3 DEF Within
<1>6. Plus(b, ch, n, p)
  BY <1>2, <1>3, <1>4 DEF Plus
<1> QED
  BY <1>1, <1>2, <1>4, <1>5, <1>6

\* A server answers a store: there is one block more, or one failed malloc.
LEMMA ServerStoreLog ==
    ASSUME SysInv, CountInv, LogInv, NEW s \in Servers, spc[s] = "serve",
           Readable(ssock[s], "resp"), NEW p, p = Received(ssock[s], "resp").body.data,
           Received(ssock[s], "resp").body.kind = "STORE",
           ServerStore(s, p), UNCHANGED <<routervars, clientvars>>
    PROVE  /\ LogInv' /\ Supply /\ GatherKept /\ Carried({ssock[s]})
           /\ p \in Data /\ ssock[s] \in Waiting(p)
           /\ \A d \in Data : Waiting(d)' \subseteq Waiting(d) \ {ssock[s]}
<1>1. s # Router /\ Router \notin Servers
  BY NetAssumption DEF Servers
<1>2. /\ UNCHANGED <<rpc, ri, request, replies, server_sockets, client_sock>>
      /\ UNCHANGED <<cmd, sent, acked, known>>
  BY DEF routervars, clientvars
<1>3. PICK c, r, reply : /\ c = ssock[s] /\ r = Received(c, "resp").body
                         /\ reply = Reply("DATA_STORED", << >>)
  OBVIOUS
<1>4. /\ c \in DOMAIN conns /\ IsConn(conns[c]) /\ conns[c].who["init"] = Router
      /\ InitPhase(c) = "gone" <=> ~conns[c].open["init"]
      /\ conns[c].inbox["resp"] # << >> /\ c # NoConn
      /\ Exchange(InitPhase(c), "serve", conns[c], Wanted(Router), request, failed)
      /\ InitPhase(c) = "await" => r = Wanted(Router)
      /\ r \in Requests
  BY <1>3, ServerRequest
<1>5. p \in Data /\ r = StoreOf(p) /\ conns[c].who["resp"] = s
  <2>1. r \in [kind : {"STORE"}, data : Data]
    BY <1>3, <1>4 DEF Requests
  <2> QED
    BY <1>3, <1>4, <2>1, AtServer DEF StoreOf
<1>6. /\ conns[c].inbox["init"] = << >>
      /\ conns[c].open["init"] => InitPhase(c) = "await"
  BY <1>4 DEF Exchange, Talking, Left
<1>7. reply.kind = "DATA_STORED" /\ ReplyLen(reply) \in Nat /\ ReplyLen(reply) <= ListMax
  BY <1>3, Lengths DEF Reply
<1>8. conns' = Responded(s, reply) /\ UNCHANGED failed
  BY <1>3 DEF ServerStore, Communicate
<1>9. OnlyAt(conns, conns', c) /\ conns'[c].inbox["resp"] = << >>
  <2>1. InitPhase(c) = "await" => IsAnswer(conns[c].who["init"], Wanted(Router), reply)
    BY <1>4, <1>5, <1>7 DEF IsAnswer, StoreOf
  <2>2. PICK x : x = Responded(s, reply)
    OBVIOUS
  <2>3. OnlyAt(conns, x, c) /\ x[c].inbox["resp"] = << >>
    BY ONLY <1>3, <1>4, <1>7, <2>1, <2>2, RespondedEffect
  <2> QED
    BY <1>8, <2>2, <2>3
<1>10. /\ conns[c].open["init"] =>
              conns'[c].inbox["init"] # << >> /\ Head(conns'[c].inbox["init"]).body = reply
       /\ ~conns[c].open["init"] => conns'[c].inbox["init"] = << >>
  BY <1>3, <1>4, <1>6, <1>8, RespondedIn
<1>11. PICK S : S = {c}
  OBVIOUS
<1>12. Quiet(S) /\ WantKept(S)
  BY <1>2, <1>4, <1>9, <1>11, QuietAt, WantsStay
<1>13. ASSUME NEW d \in Data
       PROVE  /\ Waiting(d)' \subseteq Waiting(d) \ {c}
              /\ Acks(d)' \subseteq Acks(d) \cup {c}
              /\ d # p => Acks(d)' \subseteq Acks(d)
  <2>1. /\ Waiting(d)' \ {c} \subseteq Waiting(d) \ {c}
        /\ Acks(d)' \ {c} \subseteq Acks(d) \ {c}
    BY <1>11, <1>12, QuietSets
  <2>2. c \notin Waiting(d)'
    BY <1>9 DEF Waiting, StoreIn
  <2>3. c \in Acks(d)' => d = p
    <3> SUFFICES ASSUME c \in Acks(d)' PROVE d = p
      OBVIOUS
    <3>1. conns'[c].inbox["init"] # << >>
          /\ \A i : i = conns'[c].who["init"] => Wanted(i)' = StoreOf(d)
      BY DEF Acks, AnswerIn, StoreOf, Wanted
    <3>2. conns'[c].who["init"] = Router
      BY <1>4, <1>9 DEF OnlyAt
    <3>3. request = StoreOf(d)
      BY <1>2, <3>1, <3>2 DEF Wanted
    <3>4. r = request
      BY <1>4, <1>6, <1>10, <3>1 DEF Wanted
    <3> QED
      BY <1>5, <3>3, <3>4 DEF StoreOf
  <2> QED
    BY <2>1, <2>2, <2>3
<1>14. c \in Waiting(p)
  BY <1>3, <1>4, <1>5 DEF Waiting, StoreIn, Received, StoreOf
<1>15. PICK n : n = Len(chain[s]) + 1
  OBVIOUS
<1>16. PICK x : x = Place(s, n)
  OBVIOUS
<1>17. allocFails \in Nat /\ DOMAIN chain = Servers /\ allocFails' \in Nat
       /\ chain[s] \in Seq(Block)
  BY ServerAssumption, ChainLen DEF SysInv, ShardInv, ServerStore
<1>18. \/ /\ \A t \in Servers : Within(chain[t], chain'[t])
          /\ \A t \in Servers \ {s} : chain'[t] = chain[t]
          /\ Plus(chain'[s], chain[s], n, p)
          /\ x \in Copies(chain', p) \ Copies(chain, p)
          /\ allocFails' = allocFails
       \/ chain' = chain /\ allocFails' = allocFails + 1
  <2>1. CASE /\ chain' = [chain EXCEPT ![s] = StoreData(@, p)] /\ UNCHANGED allocFails
    <3>1. /\ \A t \in Servers \ {s} : chain'[t] = chain[t]
          /\ chain'[s] = StoreData(chain[s], p)
      BY <1>17, <2>1
    <3>2. /\ Within(chain[s], chain'[s]) /\ Plus(chain'[s], chain[s], n, p)
          /\ n \in DOMAIN chain'[s] /\ n \notin DOMAIN chain[s] /\ chain'[s][n].data = p
      BY <1>5, <1>15, <1>17, <3>1, StoreAdds
    <3>3. x \in Copies(chain', p)
      BY <1>16, <3>2 DEF Copies, Place
    <3>4. x \notin Copies(chain, p)
      <4> SUFFICES ASSUME x \in Copies(chain, p) PROVE FALSE
        OBVIOUS
      <4>1. PICK t, i : t \in Servers /\ i \in DOMAIN chain[t] /\ x = <<t, i>>
        BY DEF Copies
      <4> QED
        BY <1>16, <3>2, <4>1 DEF Place
    <3>5. \A t \in Servers : Within(chain[t], chain'[t])
      BY <3>1, <3>2 DEF Within
    <3> QED
      BY <2>1, <3>1, <3>2, <3>3, <3>4, <3>5
  <2> QED
    BY <2>1 DEF ServerStore
<1>19. LossKept
  BY <1>8, <1>17, <1>18 DEF LossKept
<1>20. \A t \in Servers :
           /\ Within(chain'[t], chain[t]) \/ (t = s /\ Plus(chain'[t], chain[t], n, p))
           /\ Within(chain[t], chain'[t])
  BY <1>18 DEF Within
<1>21. ASSUME NEW A, NEW A2, NEW d \in Data, Room(A, Waiting(d), sent[d]),
              Gained(A, A2, x), d # p => A2 \subseteq A
       PROVE  Room(A2, Waiting(d)', sent'[d])
  <2>1. PICK W, V, m : W = Waiting(d)' /\ V = Waiting(d) /\ m = sent[d]
    OBVIOUS
  <2>2. Room(A, V, m) /\ W \subseteq V \ {c} /\ (d = p => c \in V) /\ sent'[d] = m
    BY <1>2, <1>13, <1>14, <1>21, <2>1
  <2>3. CASE d = p
    <3>1. Gained(A, A2, x) /\ Lost(V, W, c) /\ Room(A, V, m)
      BY <1>21, <2>2, <2>3 DEF Gained, Lost
    <3>2. Room(A2, W, m)
      BY ONLY <3>1, RoomLands
    <3> QED
      BY <2>1, <2>2, <3>2
  <2>4. CASE d # p
    <3>1. A2 \subseteq A /\ W \subseteq V
      BY <1>21, <2>2, <2>4
    <3>2. Room(A2, W, m)
      BY ONLY <2>2, <3>1, RoomSteps
    <3> QED
      BY <2>1, <2>2, <3>2
  <2> QED
    BY <2>3, <2>4
<1>22. SentInv'
  <2> SUFFICES ASSUME NEW d \in Data PROVE Room(Copies(chain', d), Waiting(d)', sent'[d])
    BY DEF SentInv
  <2>1. Room(Copies(chain, d), Waiting(d), sent[d])
    BY DEF LogInv, SentInv
  <2>2. /\ Gained(Copies(chain, d), Copies(chain', d), x)
        /\ d # p => Copies(chain', d) \subseteq Copies(chain, d)
    <3>1. PICK f, g : f = chain /\ g = chain'
      OBVIOUS
    <3>2. Grown(f, g, s, n, p)
      BY <1>20, <3>1 DEF Grown
    <3>3. /\ Gained(Copies(f, d), Copies(g, d), x)
          /\ d # p => Copies(g, d) \subseteq Copies(f, d)
      BY ONLY <1>16, <3>2, CopiesPlus
    <3> QED
      BY <3>1, <3>3
  <2> QED
    BY <1>21, <2>1, <2>2
<1>23. AckInv'
  <2> SUFFICES ASSUME NoneFailed', NEW d \in Data
               PROVE  Backed(acked'[d], Acks(d)', Copies(chain', d), allocFails')
    BY DEF AckInv
  <2>1. PICK K, L, A, A2, m, f, f2 :
            /\ K = Acks(d) /\ L = Acks(d)' /\ A = Copies(chain, d) /\ A2 = Copies(chain', d)
            /\ m = acked[d] /\ f = allocFails /\ f2 = allocFails'
    OBVIOUS
  <2>2. Backed(m, K, A, f) /\ acked'[d] = m
    BY <1>2, <1>19, <2>1, LossStep DEF LogInv, AckInv
  <2>3. IsFiniteSet(A2)
    BY <1>22, <2>1 DEF SentInv, Room
  <2>4. A \subseteq A2
    BY <1>20, <2>1, CopiesWithin
  <2>5. f \in Nat /\ f2 \in Nat /\ f <= f2
    BY <1>19, <2>1 DEF LossKept
  <2>6. L \subseteq K \cup {c} /\ (d # p => L \subseteq K)
    BY <1>13, <2>1
  <2>7. \/ L \subseteq K
        \/ L \subseteq K \cup {c} /\ x \in A2 \ A
        \/ L \subseteq K \cup {c} /\ f2 = f + 1
    BY <1>18, <2>1, <2>6
  <2>8. Backed(m, L, A2, f2)
    BY ONLY <2>2, <2>3, <2>4, <2>5, <2>7, BackedSteps
  <2> QED
    BY <2>1, <2>2, <2>8
<1>24. KnownInv'
  BY <1>2, KnownStep DEF LogInv, KnownDrops
<1>25. Supply
  BY <1>2, <1>13 DEF Supply
<1>26. ListInv'
  <2>1. ~ListIn(conns'[c])
    BY <1>7, <1>10 DEF ListIn, AnswerIn
  <2>2. ListInv
    BY DEF LogInv
  <2> QED
    BY <1>11, <1>12, <1>19, <1>25, <2>1, <2>2, ListStep
<1>27. GatherKept
  <2> SUFFICES ASSUME Gathering' PROVE GatherKept
    BY DEF GatherKept
  <2>1. PICK a, b, k : a = client_sock /\ b = server_sockets[ri] /\ k = conns[a].who["init"]
    OBVIOUS
  <2>2. Gathering
    BY <1>2 DEF Gathering
  <2>3. /\ a \in DOMAIN conns /\ b \in DOMAIN conns
        /\ conns[a].who["resp"] = Router /\ InitPhase(b) = "await"
    BY <2>1, <2>2, Gatherer
  <2>4. b # c
    BY <1>4, <1>5, <2>2, <2>3 DEF Gathering, Wanted, StoreOf
  <2>5. conns'[a] = conns[a] /\ conns'[b] = conns[b]
    BY <1>1, <1>5, <1>9, <2>3, <2>4 DEF OnlyAt
  <2> QED
    BY <1>2, <2>1, <2>2, <2>5 DEF GatherKept
<1>28. GatherInv'
  <2>1. ASSUME Gathering', NEW d \in Data
        PROVE  Room(Copies(Parts', d), Waiting(d)', sent'[d])
    <3>1. \A t \in Servers :
              Within(Parts'[t], Parts[t]) \/ (t = s /\ Plus(Parts'[t], Parts[t], n, p))
      BY <1>20, <1>27, <2>1, PartsKept DEF Within
    <3>2. /\ Gained(Copies(Parts, d), Copies(Parts', d), x)
          /\ d # p => Copies(Parts', d) \subseteq Copies(Parts, d)
      <4>1. PICK f, g : f = Parts /\ g = Parts'
        OBVIOUS
      <4>2. Grown(f, g, s, n, p)
        BY <3>1, <4>1 DEF Grown
      <4>3. /\ Gained(Copies(f, d), Copies(g, d), x)
            /\ d # p => Copies(g, d) \subseteq Copies(f, d)
        BY ONLY <1>16, <4>2, CopiesPlus
      <4> QED
        BY <4>1, <4>3
    <3>3. Room(Copies(Parts, d), Waiting(d), sent[d])
      BY <1>27, <2>1 DEF LogInv, GatherInv, GatherKept
    <3> QED
      BY <1>21, <3>2, <3>3
  <2>2. Gathering' => \A t \in Servers : Within(Part(t), Part(t)')
    BY <1>20, <1>27, PartsKept DEF Within
  <2>3. Gathering' => Gathering /\ ClientStays /\ (Whole' => Whole)
    BY <1>27, PartsKept DEF GatherKept, ClientStays
  <2>4. GatherInv
    BY DEF LogInv
  <2> QED
    BY <1>19, <2>1, <2>2, <2>3, <2>4, GatherOn
<1>29. Carried({c})
  BY <1>11, <1>12, QuietCarries
<1> QED
  BY <1>3, <1>5, <1>13, <1>14, <1>22, <1>23, <1>24, <1>25, <1>26, <1>27, <1>28, <1>29
     DEF LogInv

\* What a step of server s does: it answers no request, and loses its blocks or
\* keeps them; it answers a retrieve; or it answers a store of p.
ServerMoves(s) ==
    \/ Plain /\ (UNCHANGED chain \/ chain' = [chain EXCEPT ![s] = << >>])
    \/ /\ Carried({}) /\ AnswerComes(s, RetrieveReply(chain[s]))
       /\ chain' = [chain EXCEPT ![s] = Validated(@)]
    \/ \E p \in Data :
           /\ GatherKept /\ Carried({ssock[s]}) /\ UNCHANGED ssock
           /\ ssock[s] \in Waiting(p)
           /\ \A d \in Data : Waiting(d)' \subseteq Waiting(d) \ {ssock[s]}
           /\ \/ chain' = [chain EXCEPT ![s] = StoreData(@, p)]
              \/ allocFails' = allocFails + 1

\* A step of a server.
LEMMA ServerLog ==
    ASSUME SysInv, CountInv, LogInv, NEW s \in Servers, ServerStep(s),
           UNCHANGED <<routervars, clientvars>>
    PROVE  LogInv' /\ Supply /\ ServerMoves(s)
<1>1. PICK c : c = ssock[s]
  OBVIOUS
<1>2. CASE ServerAccept(s)
  <2>1. UNCHANGED <<failed, chain, allocFails>>
    BY <1>2 DEF ServerAccept, Accept
  <2> QED
    BY <1>2, <2>1, ServerQuietLog DEF ServerMoves
<1>3. CASE ServerHandshake(s)
  <2>1. CASE End(s, "ub", conns) /\ ServerGone(s)
    <3>1. chain' = [chain EXCEPT ![s] = << >>]
      BY <2>1 DEF ServerGone
    <3> QED
      BY <2>1, <3>1, ServerDeathLog DEF ServerMoves
  <2>2. CASE UNCHANGED <<failed, chain, allocFails>>
    BY <1>3, <2>2, ServerQuietLog DEF ServerMoves
  <2> QED
    BY <1>3, <2>1, <2>2 DEF ServerHandshake, Communicate
<1>4. CASE ServerServe(s)
  <2>1. spc[s] = "serve" /\ CanRecv(c, "resp")
    BY <1>1, <1>4 DEF ServerServe
  <2>2. CASE Readable(c, "resp")
    <3>1. PICK r : r = Received(c, "resp").body
      OBVIOUS
    <3>2. CASE r.kind = "RETRIEVE" /\ ServerRetrieve(s)
      <4>1. chain' = [chain EXCEPT ![s] = Validated(@)]
        BY <3>2 DEF ServerRetrieve
      <4> QED
        BY <1>1, <2>1, <2>2, <3>1, <3>2, <4>1, ServerRetrieveLog DEF ServerMoves
    <3>3. CASE r.kind = "STORE" /\ ServerStore(s, r.data) /\ UNCHANGED ssock
      <4>1. PICK p : p = r.data
        OBVIOUS
      <4>2. \/ chain' = [chain EXCEPT ![s] = StoreData(@, p)]
            \/ allocFails' = allocFails + 1
        BY <3>3, <4>1 DEF ServerStore
      <4>3. /\ LogInv' /\ Supply /\ GatherKept /\ Carried({c})
            /\ p \in Data /\ c \in Waiting(p)
            /\ \A d \in Data : Waiting(d)' \subseteq Waiting(d) \ {c}
        BY <1>1, <2>1, <2>2, <3>1, <3>3, <4>1, ServerStoreLog
      <4> QED
        BY <1>1, <3>3, <4>2, <4>3 DEF ServerMoves
    <3> QED
      BY <1>1, <1>4, <2>2, <3>1, <3>2, <3>3 DEF ServerServe
  <2>3. CASE ~Readable(c, "resp")
    <3>1. c # NoConn
      BY <1>1, <2>1 DEF SysInv, ServerInv
    <3>2. /\ c \in DOMAIN conns
          /\ Exchange(InitPhase(c), "serve", conns[c], Wanted(Router), request, failed)
      BY <1>1, <2>1, <3>1, AtServer DEF Coherent
    <3>3. conns[c].inbox["resp"] = << >>
      BY <2>3, <3>2, ExchangeOver DEF Readable, AtEnd, Received
    <3>4. Taken(c, "resp") = conns /\ ~conns[c].open["init"]
      BY <2>1, <3>3, EndsOf DEF Taken, AtEnd, CanRecv
    <3>5. conns' = [d \in DOMAIN conns \ {c} |-> conns[d]]
          /\ UNCHANGED <<failed, chain, allocFails>>
      BY <1>1, <1>4, <2>3, <3>4, EndsOf DEF ServerServe, Communicate, Closed
    <3> QED
      BY <1>1, <2>1, <3>2, <3>4, <3>5, ServerQuietLog DEF ServerMoves
  <2> QED
    BY <2>2, <2>3
<1> QED
  BY <1>2, <1>3, <1>4 DEF ServerStep

-----------------------------------------------------------------------------
\* After a recv of an initiator there is nothing left for it.
LEMMA TakenInit ==
    ASSUME SysInv, NEW c \in DOMAIN conns, NEW k, TakenAt(conns[c], k, "init")
    PROVE  /\ k.who = conns[c].who
           /\ k.inbox["init"] = << >> /\ k.inbox["resp"] = conns[c].inbox["resp"]
           /\ ~AnswerIn(k)
<1>1. Coherent(c)
  BY DEF SysInv, ConnInv
<1>2. \/ conns[c].inbox["init"] = << >>
      \/ \E p : conns[c].inbox["init"] = <<p>>
  BY <1>1 DEF Coherent, Exchange, Talking, Left, Deserted, OneAnswer, OneData
<1>3. k.inbox["init"] = << >>
  BY <1>2 DEF TakenAt
<1> QED
  BY <1>3, EndsOf DEF TakenAt, AnswerIn

\* The connections of a router that gathers, when client k takes a step on its
\* own one.
LEMMA ClientGather ==
    ASSUME SysInv, CountInv, NEW k \in Clients, NEW c, c = sockfd[k], c # NoConn,
           \A d \in DOMAIN conns \ {c} : conns'[d] = conns[d],
           UNCHANGED routervars,
           \A j \in Clients \ {k} : known'[j] = known[j],
           \/ RespPhase(c) # "busy"
           \/ /\ known' = known /\ conns'[c].who = conns[c].who
              /\ conns'[c].open["init"] => conns[c].open["init"]
    PROVE  GatherKept
<1>1. /\ c \in DOMAIN conns /\ conns[c].who["init"] = k /\ k # Router
  BY ClientConn
<1>2. UNCHANGED <<rpc, ri, request, replies, server_sockets, client_sock>>
  BY DEF routervars
<1>3. ASSUME NEW d \in DOMAIN conns, conns[d].who["init"] = Router
      PROVE  conns'[d].inbox["init"] = conns[d].inbox["init"]
  BY <1>1, <1>3
<1>4. ASSUME NEW a \in DOMAIN conns, conns[a].who["resp"] = Router,
             RespPhase(a) = "busy"
      PROVE  /\ conns'[a].who = conns[a].who
             /\ conns'[a].open["init"] =>
                    /\ conns[a].open["init"]
                    /\ \A j : j = conns[a].who["init"] => known'[j] = known[j]
  <2>1. CASE a = c
    BY <1>4, <2>1
  <2>2. CASE a # c
    <3>1. conns'[a] = conns[a]
      BY <2>2
    <3>2. ASSUME conns[a].open["init"], NEW j, j = conns[a].who["init"]
          PROVE  known'[j] = known[j]
      <4>1. IsConn(conns[a]) /\ Held(a)
        BY DEF SysInv, ConnInv
      <4>2. <<j, Router>> \in Links
        BY <1>4, <3>2, <4>1 DEF IsConn
      <4>3. j \in Clients /\ j # Router
        BY <4>2, LinkEnds
      <4>4. InitSock(j, Router) = a
        BY <1>4, <3>2, <4>1 DEF Held
      <4>5. sockfd[j] = a
        BY <4>3, <4>4 DEF InitSock
      <4> QED
        BY <2>2, <4>3, <4>5
    <3> QED
      BY <3>1, <3>2
  <2> QED
    BY <2>1, <2>2
<1> QED
  BY <1>2, <1>3, <1>4, GatherAway

\* A client ends.
LEMMA ClientDeathLog ==
    ASSUME SysInv, CountInv, LogInv, NEW k \in Clients, NEW how, NEW cs,
           SameEnds(conns, cs), \A d \in DOMAIN conns : Drained(conns[d], cs[d]),
           \A d \in DOMAIN conns : conns[d].who["init"] # k => cs[d] = conns[d],
           ClientDies(k, how, cs), UNCHANGED <<servervars, routervars>>
    PROVE  LogInv' /\ Supply /\ Plain
<1>1. k # Router /\ k \in Procs /\ k \notin Servers
  BY NetAssumption DEF Servers, Procs
<1>2. /\ conns' = Orphaned(cs, k) /\ failed \subseteq failed'
      /\ cmd' = [cmd EXCEPT ![k] = NoCommand] /\ known' = [known EXCEPT ![k] = Nothing]
      /\ UNCHANGED <<sent, acked>>
  BY DEF ClientDies, End, ClientGone
<1>3. /\ UNCHANGED <<rpc, ri, request, replies, server_sockets, client_sock>>
      /\ UNCHANGED <<chain, allocFails>>
  BY DEF routervars, servervars
<1>4. /\ Quiet({})
      /\ \A d \in DOMAIN conns' : conns'[d].who["init"] = k => ~AnswerIn(conns'[d])
      /\ \A d \in DOMAIN conns :
             /\ conns[d].open["init"] /\ conns[d].who["init"] # k =>
                    conns'[d].inbox["init"] = cs[d].inbox["init"]
             /\ conns[d].open["resp"] /\ conns[d].who["resp"] # k =>
                    /\ conns'[d].who = conns[d].who
                    /\ conns'[d].open["init"] =>
                           conns[d].open["init"] /\ conns[d].who["init"] # k
  BY <1>1, <1>2, QuietDeath
<1>5. ChainsKept
  BY <1>2, <1>3, ChainsStay
<1>6. WantKept({})
  <2>1. ASSUME NEW c \in DOMAIN conns \cap DOMAIN conns', c = sockfd[k]
        PROVE  ~AnswerIn(conns'[c])
    <3>1. c # NoConn
      BY DEF SysInv, NetInv, NoConn
    <3>2. conns[c].who["init"] = k
      BY <2>1, <3>1, ClientConn
    <3>3. conns'[c].who = conns[c].who
      BY <1>4 DEF Quiet, Drained
    <3> QED
      BY <1>4, <3>2, <3>3
  <2> QED
    BY <1>2, <1>3, <2>1, WantsStay
<1>7. /\ \A j \in Clients \ {k} : known'[j] = known[j]
      /\ known'[k] = Nothing
  BY <1>2 DEF CountInv
<1>8. KnownDrops
  BY <1>7 DEF KnownDrops, Nothing
<1>9. GatherKept
  <2>1. \A c \in DOMAIN conns :
            conns[c].who["init"] = Router /\ InitPhase(c) = "await" =>
                conns'[c].inbox["init"] = conns[c].inbox["init"]
    BY <1>1, <1>4 DEF InitPhase
  <2>2. ASSUME NEW a \in DOMAIN conns, conns[a].who["resp"] = Router,
               RespPhase(a) = "busy"
        PROVE  /\ conns'[a].who = conns[a].who
               /\ conns'[a].open["init"] =>
                      /\ conns[a].open["init"]
                      /\ \A j : j = conns[a].who["init"] => known'[j] = known[j]
    <3>1. conns[a].open["resp"]
      BY <2>2 DEF RespPhase
    <3>2. <<conns[a].who["init"], Router>> \in Links
      BY <2>2 DEF SysInv, ConnInv, IsConn
    <3>3. conns[a].who["init"] \in Clients
      BY <3>2, LinkEnds
    <3> QED
      BY <1>1, <1>4, <1>7, <2>2, <3>1, <3>3
  <2> QED
    BY <1>3, <2>1, <2>2, GatherAway
<1> QED
  BY <1>2, <1>4, <1>5, <1>6, <1>8, <1>9, QuietStep

\* The same after a recv of the client.
LEMMA ClientRecvDeathLog ==
    ASSUME SysInv, CountInv, LogInv, NEW k \in Clients, NEW how, NEW cs,
           AfterRecv(k, cs), ClientDies(k, how, cs), UNCHANGED <<servervars, routervars>>
    PROVE  LogInv' /\ Supply /\ Plain
<1>1. /\ SameEnds(conns, cs)
      /\ \A d \in DOMAIN conns :
             \/ cs[d] = conns[d]
             \/ \E e \in Ends : Has(k, conns[d], e) /\ TakenAt(conns[d], cs[d], e)
  BY AfterRecvEffect
<1>2. ASSUME NEW d \in DOMAIN conns
      PROVE  Drained(conns[d], cs[d]) /\ (conns[d].who["init"] # k => cs[d] = conns[d])
  <2>1. CASE cs[d] = conns[d]
    BY <2>1 DEF Drained
  <2>2. ASSUME NEW e \in Ends, Has(k, conns[d], e), TakenAt(conns[d], cs[d], e)
        PROVE  Drained(conns[d], cs[d]) /\ conns[d].who["init"] = k
    <3>1. <<conns[d].who["init"], conns[d].who["resp"]>> \in Links
      BY DEF SysInv, ConnInv, IsConn
    <3>2. conns[d].who["resp"] # k
      BY <3>1, LinkEnds, NetAssumption DEF Servers
    <3>3. e = "init"
      BY <2>2, <3>2, EndsOf DEF Has
    <3>4. cs[d].open = conns[d].open
      BY <1>1 DEF SameEnds
    <3> QED
      BY <2>2, <3>3, <3>4, TakenInit DEF Drained, Has
  <2> QED
    BY <1>1, <2>1, <2>2
<1> QED
  BY <1>1, <1>2, ClientDeathLog

\* A client starts, or makes its key exchange.
LEMMA ClientHelloLog ==
    ASSUME SysInv, CountInv, LogInv, NEW k \in Clients,
           ClientConnect(k) \/ ClientSendHello(k) \/ ClientRecvHello(k),
           UNCHANGED <<servervars, routervars>>
    PROVE  LogInv' /\ Supply /\ Plain
<1>1. /\ UNCHANGED <<rpc, ri, request, replies, server_sockets, client_sock>>
      /\ UNCHANGED <<chain, allocFails>>
  BY DEF routervars, servervars
<1>2. \A d \in DOMAIN conns : IsConn(conns[d])
  BY DEF SysInv, ConnInv
<1>3. PICK c : c = sockfd[k]
  OBVIOUS
<1>4. /\ c # NoConn =>
             /\ c \in DOMAIN conns /\ Has(k, conns[c], "init")
             /\ RespPhase(c) = "gone" <=> ~conns[c].open["resp"]
             /\ Exchange(cpc[k], RespPhase(c), conns[c], cmd[k], request, failed)
      /\ cpc[k] \in {"connected", "server_hello", "await"} => c # NoConn
  BY <1>3, ClientConn DEF SysInv, ClientInv
<1>5. AfterRecv(k, conns)
  BY DEF AfterRecv
<1>6. ASSUME c # NoConn, OnlyAt(conns, conns', c), NEW i \in {"server_hello", "idle"},
             NEW r, Exchange(i, r, conns'[c], cmd[k], request, failed),
             UNCHANGED <<failed, cmd, sent, acked, known>>
      PROVE  LogInv' /\ Supply /\ Plain
  <2>1. c \in DOMAIN conns
    BY <1>4, <1>6
  <2>2. ~StoreIn(conns'[c]) /\ ~AnswerIn(conns'[c])
    BY <1>6, NoTraffic
  <2>3. Quiet({})
    BY <1>6, <2>1, <2>2, QuietAt
  <2>4. WantKept({}) /\ ChainsKept /\ KnownDrops
    BY <1>1, <1>6, WantsStay, ChainsStay DEF KnownDrops
  <2>5. GatherKept
    BY <1>3, <1>6, ClientGather DEF OnlyAt
  <2> QED
    BY <1>6, <2>3, <2>4, <2>5, QuietStep
<1>7. CASE ClientSendHello(k)
  <2>1. c # NoConn /\ cpc[k] = "connected"
    BY <1>4, <1>7 DEF ClientSendHello, ClientAt
  <2>2. CASE /\ Communicate(Sent(conns, c, "init", ClientHello))
             /\ UNCHANGED <<cmd, sent, acked, known>>
    <3>1. conns' = Sent(conns, c, "init", ClientHello) /\ UNCHANGED failed
      BY <2>2 DEF Communicate
    <3>2. OnlyAt(conns, conns', c) /\ SentAt(conns[c], conns'[c], "init", ClientHello)
      BY <1>2, <1>4, <2>1, <3>1, SentEffect DEF Ends
    <3>3. Exchange("server_hello", RespPhase(c), conns'[c], cmd[k], request, failed)
      BY <1>4, <2>1, <3>2, ExchangeHello
    <3> QED
      BY <1>6, <2>1, <2>2, <3>1, <3>2, <3>3
  <2> QED
    BY <1>3, <1>5, <1>7, <2>2, ClientRecvDeathLog DEF ClientSendHello
<1>8. CASE ClientRecvHello(k)
  <2>1. c # NoConn /\ cpc[k] = "server_hello" /\ CanRecv(c, "init")
    BY <1>3, <1>4, <1>8 DEF ClientRecvHello, ClientAt
  <2>2. CASE /\ HelloUsable(c) /\ Communicate(HelloReceived(c))
             /\ UNCHANGED <<cmd, sent, acked, known>>
    <3>1. conns' = HelloReceived(c) /\ UNCHANGED failed
      BY <2>2 DEF Communicate
    <3>2. /\ OnlyAt(conns, conns', c)
          /\ Exchange("idle", RespPhase(c), conns'[c], cmd[k], request, failed)
      BY <1>2, <1>4, <2>1, <2>2, <3>1, HelloReceivedEffect
    <3> QED
      BY <1>6, <2>1, <2>2, <3>1, <3>2
  <2>3. CASE ClientDies(k, "segv", Taken(c, "init"))
    <3>1. AfterRecv(k, Taken(c, "init"))
      BY <1>4, <2>1 DEF AfterRecv, Ends
    <3> QED
      BY <2>3, <3>1, ClientRecvDeathLog
  <2> QED
    BY <1>3, <1>8, <2>2, <2>3 DEF ClientRecvHello
<1>9. CASE ClientConnect(k)
  <2>1. CASE /\ FreeConns # {} /\ conns' = Connected(k, Router)
             /\ UNCHANGED <<failed, cmd, sent, acked, known>>
    <3>1. PICK n : n = FreshConn
      OBVIOUS
    <3>2. <<k, Router>> \in Links
      BY DEF Links
    <3>3. /\ n \notin DOMAIN conns /\ DOMAIN conns' = DOMAIN conns \cup {n}
          /\ \A d \in DOMAIN conns : conns'[d] = conns[d]
          /\ conns'[n].inbox["init"] = << >> /\ conns'[n].inbox["resp"] = << >>
      <4>1. FreeConns # {} /\ conns' = Connected(k, Router)
        BY <2>1
      <4>2. Added(k, Router, n)
        BY ONLY <3>1, <3>2, <4>1, NewConn
      <4> QED
        BY <4>2 DEF Added
    <3>4. ~StoreIn(conns'[n]) /\ ~AnswerIn(conns'[n])
      BY <3>3 DEF StoreIn, AnswerIn
    <3>5. Quiet({})
      BY <3>3, <3>4 DEF Quiet, Drained
    <3>6. WantKept({}) /\ ChainsKept /\ KnownDrops
      BY <1>1, <2>1, WantsStay, ChainsStay DEF KnownDrops
    <3>7. GatherKept
      BY <1>1, <2>1, <3>3, GatherAway
    <3> QED
      BY <2>1, <3>5, <3>6, <3>7, QuietStep
  <2> QED
    BY <1>5, <1>9, <2>1, ClientRecvDeathLog DEF ClientConnect
<1> QED
  BY <1>7, <1>8, <1>9

\* The user leaves.
LEMMA ClientExitLog ==
    ASSUME SysInv, CountInv, LogInv, NEW k \in Clients, ClientExit(k),
           UNCHANGED <<servervars, routervars>>
    PROVE  LogInv' /\ Supply /\ Plain
<1>1. cpc[k] = "idle" /\ AfterRecv(k, conns)
  BY DEF ClientExit, ClientAt, AfterRecv
<1>2. ASSUME NEW p, p.body.kind = "EXIT", sockfd[k] # NoConn,
             ClientDies(k, "exit", Sent(conns, sockfd[k], "init", p))
      PROVE  LogInv' /\ Supply /\ Plain
  <2>1. PICK c, cs : c = sockfd[k] /\ cs = Sent(conns, c, "init", p)
    OBVIOUS
  <2>2. /\ c \in DOMAIN conns /\ conns[c].who["init"] = k
        /\ Exchange("idle", RespPhase(c), conns[c], cmd[k], request, failed)
    BY <1>1, <1>2, <2>1, ClientConn
  <2>3. \A d \in DOMAIN conns : IsConn(conns[d])
    BY DEF SysInv, ConnInv
  <2>4. OnlyAt(conns, cs, c) /\ SentAt(conns[c], cs[c], "init", p)
    BY <2>1, <2>2, <2>3, SentEffect DEF Ends
  <2>5. SameEnds(conns, cs)
    BY <2>2, <2>3, <2>4, SameEndsStep
  <2>6. conns[c].inbox["resp"] = << >> /\ conns[c].inbox["init"] = << >>
    BY <2>2 DEF Exchange, Talking, Deserted
  <2>7. Append(<< >>, p) # << >> /\ Head(Append(<< >>, p)) = p
    OBVIOUS
  <2>8. ~StoreIn(cs[c]) /\ ~AnswerIn(cs[c])
    BY <1>2, <2>4, <2>6, <2>7, EndsOf DEF StoreIn, AnswerIn, SentAt
  <2>9. \A d \in DOMAIN conns : Drained(conns[d], cs[d])
    BY <2>4, <2>8 DEF Drained, OnlyAt
  <2>10. \A d \in DOMAIN conns : conns[d].who["init"] # k => cs[d] = conns[d]
    BY <2>2, <2>4 DEF OnlyAt
  <2> QED
    BY <1>2, <2>1, <2>5, <2>9, <2>10, ClientDeathLog
<1>3. CASE \E how : ClientDies(k, how, conns)
  BY <1>1, <1>3, ClientRecvDeathLog
<1>4. \A c : DataPacket(conns, c, "init", [kind |-> "EXIT"], 4).body.kind = "EXIT"
  BY DEF DataPacket
<1> QED
  BY <1>2, <1>3, <1>4 DEF ClientExit

\* The user asks for something: a store is sent, or what is acknowledged is
\* known.
LEMMA ClientSendLog ==
    ASSUME SysInv, CountInv, LogInv, NEW k \in Clients, NEW r, NEW now,
           ClientSend(k, r, now), UNCHANGED <<servervars, routervars>>,
           \/ r.kind = "RETRIEVE" /\ now = sent
           \/ \E d \in Data : r = StoreOf(d) /\ now = [sent EXCEPT ![d] = @ + 1]
    PROVE  LogInv' /\ Supply /\ Plain
<1>1. CASE \E how : ClientDies(k, how, conns)
  BY <1>1, ClientRecvDeathLog DEF AfterRecv
<1>2. CASE /\ Communicate(Sent(conns, sockfd[k], "init", RequestPacket(k, r)))
           /\ cmd' = [cmd EXCEPT ![k] = r] /\ sent' = now /\ acked' = acked
           /\ known' = [known EXCEPT ![k] = IF r.kind = "RETRIEVE" THEN acked
                                           ELSE Nothing]
  <2>1. PICK c, p, f : /\ c = sockfd[k] /\ p = RequestPacket(k, r)
                       /\ f = IF r.kind = "RETRIEVE" THEN acked ELSE Nothing
    OBVIOUS
  <2>2. c # NoConn /\ cpc[k] = "idle"
    BY <2>1 DEF ClientSend, ClientAt
  <2>3. /\ c \in DOMAIN conns /\ conns[c].who["init"] = k /\ conns[c].open["init"]
        /\ Exchange("idle", RespPhase(c), conns[c], cmd[k], request, failed)
        /\ IsConn(conns[c])
    BY <2>1, <2>2, ClientConn
  <2>4. conns' = Sent(conns, c, "init", p) /\ UNCHANGED failed
    BY <1>2, <2>1 DEF Communicate
  <2>5. OnlyAt(conns, conns', c) /\ SentAt(conns[c], conns'[c], "init", p)
    BY <2>3, <2>4, SentEffect DEF Ends
  <2>6. conns[c].inbox["resp"] = << >> /\ conns[c].inbox["init"] = << >>
        /\ RespPhase(c) # "busy"
    BY <2>3 DEF Exchange, Talking, Deserted
  <2>7. Append(<< >>, p) # << >> /\ Head(Append(<< >>, p)) = p
    OBVIOUS
  <2>8. /\ ~AnswerIn(conns'[c])
        /\ StoreIn(conns'[c]) =>
               r.kind = "STORE" /\ Head(conns'[c].inbox["resp"]).body = r
    <3>1. p.body = r
      BY <2>1 DEF RequestPacket, DataPacket
    <3> QED
      BY <2>5, <2>6, <2>7, <3>1, EndsOf DEF StoreIn, AnswerIn, SentAt
  <2>9. PICK S : S = {c}
    OBVIOUS
  <2>10. Quiet(S)
    BY <2>3, <2>5, <2>9, QuietAt
  <2>11. WantKept(S)
    <3>1. cmd' = [cmd EXCEPT ![k] = r] /\ known' = [known EXCEPT ![k] = f]
          /\ UNCHANGED request
      BY <1>2, <2>1 DEF routervars
    <3>2. \A d \in (DOMAIN conns \cap DOMAIN conns') \ S :
              d = sockfd[k] => ~AnswerIn(conns'[d])
      BY <2>1, <2>9
    <3> QED
      BY <3>1, <3>2, WantsStay
  <2>12. ASSUME NEW e \in Data
         PROVE  /\ Waiting(e)' \subseteq Waiting(e) \cup {c}
                /\ r # StoreOf(e) => Waiting(e)' \subseteq Waiting(e)
                /\ Acks(e)' \subseteq Acks(e)
    <3>1. /\ Waiting(e)' \ {c} \subseteq Waiting(e) \ {c}
          /\ Acks(e)' \ {c} \subseteq Acks(e) \ {c}
      BY <2>9, <2>10, <2>11, QuietSets
    <3>2. c \notin Acks(e)'
      BY <2>8 DEF Acks
    <3>3. c \in Waiting(e)' => r = StoreOf(e)
      BY <2>8 DEF Waiting, StoreOf
    <3> QED
      BY <3>1, <3>2, <3>3
  <2>13. Supply
    <3>1. CASE r.kind = "RETRIEVE" /\ now = sent
      <4>1. \A e \in Data : r # StoreOf(e)
        BY <3>1 DEF StoreOf
      <4> QED
        BY <1>2, <2>12, <3>1, <4>1 DEF Supply
    <3>2. ASSUME NEW d \in Data, r = StoreOf(d), now = [sent EXCEPT ![d] = @ + 1]
          PROVE  Supply
      <4>1. \A e \in Data : sent'[e] = IF e = d THEN sent[e] + 1 ELSE sent[e]
        BY <1>2, <3>2 DEF CountInv
      <4>2. \A e \in Data : e # d => r # StoreOf(e)
        BY <3>2 DEF StoreOf
      <4> QED
        BY <2>12, <4>1, <4>2 DEF Supply
    <3> QED
      BY <3>1, <3>2
  <2>14. Confirm
    BY <1>2, <2>12 DEF Confirm
  <2>15. ChainsKept /\ LossKept
    BY <2>4, ChainsStay DEF servervars, ChainsKept
  <2>16. SentInv' /\ AckInv'
    BY <2>13, <2>14, <2>15, SentStep, AckStep DEF LogInv
  <2>17. \A j \in Clients : known'[j] = IF j = k THEN f ELSE known[j]
    BY <1>2, <2>1 DEF CountInv
  <2>18. KnownInv'
    <3>1. \A d \in Data : acked[d] \in Nat
      BY DEF CountInv, Counted
    <3>2. \A d \in Data : f[d] <= acked[d]
      BY <2>1, <3>1 DEF Nothing
    <3> QED
      BY <1>2, <2>17, <3>2 DEF LogInv, KnownInv
  <2>19. ListInv'
    <3>1. ~ListIn(conns'[c])
      BY <2>8 DEF ListIn
    <3>2. ListInv
      BY DEF LogInv
    <3> QED
      BY <2>9, <2>10, <2>11, <2>13, <2>15, <3>1, <3>2, ListStep
  <2>20. GatherKept
    BY <2>1, <2>2, <2>5, <2>6, <2>17, ClientGather DEF OnlyAt
  <2>21. GatherInv'
    BY <2>13, <2>15, <2>20, GatherStep DEF LogInv
  <2>22. Plain
    BY <2>8, <2>9, <2>10, <2>11, <2>20, QuietCarries DEF Plain
  <2> QED
    BY <2>13, <2>16, <2>18, <2>19, <2>21, <2>22 DEF LogInv
<1> QED
  BY <1>1, <1>2 DEF ClientSend

\* The answer to a command: an acknowledgement is counted.
LEMMA ClientReceiveLog ==
    ASSUME SysInv, CountInv, LogInv, NEW k \in Clients, ClientReceive(k),
           UNCHANGED <<servervars, routervars>>
    PROVE  LogInv' /\ Supply /\ Plain
<1>1. /\ cpc[k] = "await" /\ CanRecv(sockfd[k], "init")
      /\ cmd' = [cmd EXCEPT ![k] = NoCommand]
      /\ known' = [known EXCEPT ![k] = Nothing] /\ sent' = sent
      /\ UNCHANGED <<request, chain, allocFails>>
  BY DEF ClientReceive, ClientAt, servervars, routervars
<1>2. PICK c, cs : c = sockfd[k] /\ cs = Taken(c, "init")
  OBVIOUS
<1>3. c # NoConn /\ cmd[k] \in Requests
  BY <1>1, <1>2 DEF SysInv, ClientInv
<1>4. /\ c \in DOMAIN conns /\ conns[c].who["init"] = k /\ k # Router
      /\ IsConn(conns[c]) /\ conns[c].open["init"]
      /\ RespPhase(c) = "gone" <=> ~conns[c].open["resp"]
      /\ Exchange("await", RespPhase(c), conns[c], cmd[k], request, failed)
  BY <1>1, <1>2, <1>3, ClientConn
<1>5. OnlyAt(conns, cs, c) /\ TakenAt(conns[c], cs[c], "init")
  BY <1>2, <1>4, TakenEffect DEF Ends
<1>6. /\ cs[c].inbox["init"] = << >> /\ cs[c].inbox["resp"] = conns[c].inbox["resp"]
      /\ ~AnswerIn(cs[c]) /\ cs[c].who = conns[c].who
  BY <1>4, <1>5, TakenInit
<1>7. RespPhase(c) # "busy"
  <2>1. conns[c].inbox["init"] # << >> \/ ~conns[c].open["resp"]
    BY <1>1, <1>2, EndsOf DEF CanRecv
  <2> QED
    BY <1>4, <2>1 DEF Exchange, Talking
<1>8. /\ UNCHANGED failed
      /\ DOMAIN conns' \subseteq DOMAIN conns
      /\ \A d \in DOMAIN conns \ {c} : d \in DOMAIN conns' /\ conns'[d] = conns[d]
      /\ c \in DOMAIN conns' => Drained(conns[c], conns'[c]) /\ ~AnswerIn(conns'[c])
  <2>1. CASE Communicate(cs)
    BY <1>5, <1>6, <2>1 DEF Communicate, OnlyAt, Drained
  <2>2. CASE Communicate(Closed(cs, c, "init"))
    <3>1. c \in DOMAIN cs /\ IsConn(cs[c]) /\ "init" \in Ends /\ Other("init") = "resp"
      BY <1>4, <1>5, EndsOf DEF OnlyAt
    <3>2. PICK x : x = Closed(cs, c, "init")
      OBVIOUS
    <3>3. /\ \A d \in DOMAIN cs \ {c} : d \in DOMAIN x /\ x[d] = cs[d]
          /\ DOMAIN x \subseteq DOMAIN cs
          /\ c \in DOMAIN x => ShutAt(cs[c], x[c], "init", FALSE)
      BY ONLY <3>1, <3>2, ClosedEffect
    <3>4. conns' = x /\ UNCHANGED failed
      BY <2>2, <3>2 DEF Communicate
    <3>5. c \in DOMAIN x => Drained(conns[c], x[c]) /\ ~AnswerIn(x[c])
      BY <1>4, <1>6, <3>1, <3>3 DEF ShutAt, Drained, AnswerIn
    <3> QED
      BY <1>5, <3>3, <3>4, <3>5 DEF OnlyAt
  <2> QED
    BY <1>2, <2>1, <2>2 DEF ClientReceive
<1>9. Quiet({})
  BY <1>8 DEF Quiet, Drained
<1>10. WantKept({})
  BY <1>1, <1>2, <1>8, WantsStay
<1>11. \A j \in Clients : known'[j] = IF j = k THEN Nothing ELSE known[j]
  BY <1>1 DEF CountInv
<1>12. KnownDrops
  BY <1>11 DEF KnownDrops, Nothing
<1>13. ChainsKept
  BY <1>1, <1>8, ChainsStay
<1>14. GatherKept
  BY <1>2, <1>3, <1>7, <1>8, <1>11, ClientGather
<1>15. CASE acked' = acked
  BY <1>1, <1>9, <1>10, <1>12, <1>13, <1>14, <1>15, QuietStep
<1>16. CASE acked' # acked
  <2>1. PICK d : d = cmd[k].data
    OBVIOUS
  <2>2. /\ cmd[k].kind = "STORE" /\ Head(conns[c].inbox["init"]).body.kind = "DATA_STORED"
        /\ Readable(c, "init") /\ acked' = [acked EXCEPT ![d] = @ + 1]
    BY <1>2, <1>16, <2>1 DEF ClientReceive, Received
  <2>3. d \in Data /\ cmd[k] = StoreOf(d)
    <3>1. cmd[k] \in [kind : {"STORE"}, data : Data]
      BY <1>3, <2>2 DEF Requests
    <3> QED
      BY <2>1, <3>1 DEF StoreOf
  <2>4. c \in Acks(d)
    <3>1. AnswerIn(conns[c])
      BY <2>2 DEF AnswerIn, Readable, AtEnd
    <3> QED
      BY <1>4, <2>2, <2>3, <3>1 DEF Acks, Wanted
  <2>5. /\ \A e \in Data : acked[e] \in Nat
        /\ \A e \in Data : acked'[e] = IF e = d THEN acked[e] + 1 ELSE acked[e]
    BY <2>2, <2>3 DEF CountInv, Counted
  <2>6. ASSUME NEW e \in Data
        PROVE  /\ Waiting(e)' \subseteq Waiting(e)
               /\ Acks(e)' \subseteq Acks(e) \ {c}
    <3>1. Waiting(e)' \ {} \subseteq Waiting(e) \ {} /\ Acks(e)' \ {} \subseteq Acks(e) \ {}
      BY <1>9, <1>10, QuietSets
    <3>2. c \notin Acks(e)'
      BY <1>8 DEF Acks
    <3> QED
      BY <3>1, <3>2
  <2>7. Supply
    BY <1>1, <2>6 DEF Supply
  <2>8. Confirm
    <3> SUFFICES ASSUME NEW e \in Data
                 PROVE  \/ acked'[e] = acked[e] /\ Acks(e)' \subseteq Acks(e)
                        \/ /\ acked'[e] = acked[e] + 1 /\ c \in Acks(e)
                           /\ Acks(e)' \subseteq Acks(e) \ {c}
      BY DEF Confirm
    <3> QED
      BY <2>4, <2>5, <2>6
  <2>9. SentInv' /\ AckInv'
    BY <1>13, <2>7, <2>8, SentStep, AckStep DEF LogInv
  <2>10. KnownInv'
    <3>1. \A j \in Clients, e \in Data : known[j][e] <= acked[e] /\ known[j][e] \in Nat
      BY DEF LogInv, KnownInv, CountInv
    <3>2. \A j \in Clients, e \in Data : known'[j][e] <= acked'[e]
      BY <1>12, <2>5, <3>1 DEF KnownDrops
    <3> QED
      BY <3>2 DEF KnownInv
  <2>11. ListInv'
    <3>1. ListInv /\ LossKept
      BY <1>13 DEF LogInv, ChainsKept
    <3>2. PICK S : S = {}
      OBVIOUS
    <3>3. Quiet(S) /\ WantKept(S) /\ S \cap DOMAIN conns' = {}
      BY <1>9, <1>10, <3>2
    <3> QED
      BY <2>7, <3>1, <3>3, ListStep
  <2>12. GatherInv'
    BY <1>13, <1>14, <2>7, GatherStep DEF LogInv
  <2>13. Plain
    BY <1>9, <1>10, <1>14, QuietCarries DEF Plain
  <2> QED
    BY <2>7, <2>9, <2>10, <2>11, <2>12, <2>13 DEF LogInv
<1> QED
  BY <1>15, <1>16

\* A step of a client, or of its user.
LEMMA ClientLog ==
    ASSUME SysInv, CountInv, LogInv, NEW k \in Clients, ClientStep(k) \/ UserStep(k),
           UNCHANGED <<servervars, routervars>>
    PROVE  LogInv' /\ Supply /\ Plain
<1>1. CASE ClientConnect(k) \/ ClientSendHello(k) \/ ClientRecvHello(k)
  BY <1>1, ClientHelloLog
<1>2. CASE ClientReceive(k)
  BY <1>2, ClientReceiveLog
<1>3. CASE ClientExit(k)
  BY <1>3, ClientExitLog
<1>4. CASE ClientRetrieve(k)
  <2>1. PICK r : r = [kind |-> "RETRIEVE"]
    OBVIOUS
  <2>2. ClientSend(k, r, sent) /\ r.kind = "RETRIEVE"
    BY <1>4, <2>1 DEF ClientRetrieve
  <2> QED
    BY <2>2, ClientSendLog
<1>5. ASSUME NEW d \in Data, ClientStore(k, d)
      PROVE  LogInv' /\ Supply /\ Plain
  <2>1. PICK r, now : r = StoreOf(d) /\ now = [sent EXCEPT ![d] = @ + 1]
    OBVIOUS
  <2>2. ClientSend(k, r, now)
    BY <1>5, <2>1 DEF ClientStore, StoreOf
  <2> QED
    BY <2>1, <2>2, ClientSendLog
<1> QED
  BY <1>1, <1>2, <1>3, <1>4, <1>5 DEF ClientStep, UserStep

-----------------------------------------------------------------------------
\* After a recv of a responder there is nothing left for it.
LEMMA TakenResp ==
    ASSUME SysInv, NEW c \in DOMAIN conns, NEW k, TakenAt(conns[c], k, "resp")
    PROVE  /\ k.who = conns[c].who
           /\ k.inbox["resp"] = << >> /\ k.inbox["init"] = conns[c].inbox["init"]
           /\ ~StoreIn(k)
<1>1. Coherent(c)
  BY DEF SysInv, ConnInv
<1>2. \/ conns[c].inbox["resp"] = << >>
      \/ \E p : conns[c].inbox["resp"] = <<p>>
  BY <1>1 DEF Coherent, Exchange, Talking, Left, Deserted, OneRequest, OneData
<1>3. k.inbox["resp"] = << >>
  BY <1>2 DEF TakenAt
<1> QED
  BY <1>3, EndsOf DEF TakenAt, StoreIn

\* A recv drains a connection, and only that.
LEMMA RecvDrains ==
    ASSUME SysInv, NEW p, NEW cs, AfterRecv(p, cs)
    PROVE  SameEnds(conns, cs) /\ \A d \in DOMAIN conns : Drained(conns[d], cs[d])
<1>1. /\ SameEnds(conns, cs)
      /\ \A d \in DOMAIN conns :
             \/ cs[d] = conns[d]
             \/ \E e \in Ends : Has(p, conns[d], e) /\ TakenAt(conns[d], cs[d], e)
  BY AfterRecvEffect
<1>2. ASSUME NEW d \in DOMAIN conns
      PROVE  Drained(conns[d], cs[d])
  <2>1. CASE cs[d] = conns[d]
    BY <2>1 DEF Drained
  <2>2. cs[d].open = conns[d].open
    BY <1>1 DEF SameEnds
  <2>3. CASE TakenAt(conns[d], cs[d], "init")
    BY <2>2, <2>3, TakenInit DEF Drained
  <2>4. CASE TakenAt(conns[d], cs[d], "resp")
    BY <2>2, <2>4, TakenResp DEF Drained
  <2> QED
    BY <1>1, <2>1, <2>3, <2>4, EndsOf
<1> QED
  BY <1>1, <1>2

\* The router ends.
LEMMA RouterDeathLog ==
    ASSUME SysInv, CountInv, LogInv, NEW how, NEW cs, AfterRecv(Router, cs),
           RouterDies(how, cs), UNCHANGED <<servervars, clientvars>>
    PROVE  LogInv' /\ Supply /\ Plain
<1>1. Router \in Procs
  BY DEF Procs
<1>2. /\ conns' = Orphaned(cs, Router) /\ failed \subseteq failed' /\ rpc' = "connect"
      /\ UNCHANGED <<cmd, sent, acked, known, chain, allocFails>>
  BY DEF RouterDies, End, RouterGone, servervars, clientvars
<1>3. SameEnds(conns, cs) /\ \A d \in DOMAIN conns : Drained(conns[d], cs[d])
  BY RecvDrains
<1>4. /\ Quiet({})
      /\ \A d \in DOMAIN conns' : conns'[d].who["init"] = Router => ~AnswerIn(conns'[d])
  BY <1>1, <1>2, <1>3, QuietDeath
<1>5. WantKept({})
  <2> SUFFICES ASSUME NEW c \in DOMAIN conns \cap DOMAIN conns', NEW i \in Procs,
                      i = conns[c].who["init"], AnswerIn(conns'[c])
               PROVE  Wanted(i)' = Wanted(i) /\ (i \in Clients => known'[i] = known[i])
    BY DEF WantKept
  <2>1. conns'[c].who = conns[c].who
    BY <1>4 DEF Quiet, Drained
  <2>2. i # Router
    BY <1>4, <2>1
  <2> QED
    BY <1>2, <2>2 DEF Wanted
<1>6. ChainsKept /\ KnownDrops
  BY <1>2, ChainsStay DEF KnownDrops
<1>7. GatherKept
  BY <1>2 DEF GatherKept, Gathering
<1> QED
  BY <1>2, <1>4, <1>5, <1>6, <1>7, QuietStep

\* A step of a router that neither waits for a server nor gathers after it.
LEMMA RouterQuiet ==
    ASSUME SysInv, CountInv, LogInv, Quiet({}), rpc # "await", rpc' # "await",
           UNCHANGED <<failed, servervars, clientvars>>
    PROVE  LogInv' /\ Supply /\ Plain
<1>1. UNCHANGED <<cmd, sent, acked, known, chain, allocFails>>
  BY DEF servervars, clientvars
<1>2. WantKept({}) /\ ChainsKept /\ KnownDrops
  BY <1>1, WantsStay, ChainsStay DEF KnownDrops
<1>3. GatherKept
  BY DEF GatherKept, Gathering
<1> QED
  BY <1>1, <1>2, <1>3, QuietStep

\* The router connects to the servers, or accepts a client.
LEMMA RouterHelloLog ==
    ASSUME SysInv, CountInv, LogInv, UNCHANGED <<servervars, clientvars>>,
           \/ RouterConnect \/ RouterSendHello \/ RouterRecvHello
           \/ RouterAccept \/ RouterHandshake
    PROVE  LogInv' /\ Supply /\ Plain
<1>1. \A d \in DOMAIN conns : IsConn(conns[d])
  BY DEF SysInv, ConnInv
<1>2. AfterRecv(Router, conns)
  BY DEF AfterRecv
<1>3. ASSUME NEW how, NEW cs, AfterRecv(Router, cs), RouterDies(how, cs)
      PROVE  LogInv' /\ Supply /\ Plain
  BY <1>3, RouterDeathLog
<1>4. ri \in Servers
  BY DEF SysInv, RouterInv
<1>5. CASE RouterConnect
  <2>1. rpc = "connect"
    BY <1>5 DEF RouterConnect, RouterAt
  <2>2. CASE Connect(Router, ri) /\ rpc' = "connected"
    <3>1. PICK s, n : s = ri /\ n = FreshConn
      OBVIOUS
    <3>2. FreeConns # {} /\ conns' = Connected(Router, s) /\ UNCHANGED failed
      BY <2>2, <3>1 DEF Connect
    <3>3. <<Router, s>> \in Links
      BY <1>4, <3>1 DEF Links
    <3>4. Added(Router, s, n)
      BY ONLY <3>1, <3>2, <3>3, NewConn
    <3>5. /\ n \notin DOMAIN conns /\ DOMAIN conns' = DOMAIN conns \cup {n}
          /\ \A d \in DOMAIN conns : conns'[d] = conns[d]
          /\ conns'[n].inbox["init"] = << >> /\ conns'[n].inbox["resp"] = << >>
      BY <3>4 DEF Added
    <3>6. ~StoreIn(conns'[n]) /\ ~AnswerIn(conns'[n])
      BY <3>5 DEF StoreIn, AnswerIn
    <3>7. Quiet({})
      BY <3>5, <3>6 DEF Quiet, Drained
    <3> QED
      BY <2>1, <2>2, <3>2, <3>7, RouterQuiet
  <2> QED
    BY <1>2, <1>3, <1>5, <2>2 DEF RouterConnect
<1>6. PICK s, c : s = ri /\ c = server_sockets[s]
  OBVIOUS
<1>7. c # NoConn =>
          /\ c \in DOMAIN conns /\ Has(Router, conns[c], "init")
          /\ RespPhase(c) = "gone" <=> ~conns[c].open["resp"]
          /\ Exchange(InitPc(Router, s), RespPhase(c), conns[c], request, request, failed)
  BY <1>4, <1>6, RouterConn
<1>8. ASSUME NEW d \in DOMAIN conns, OnlyAt(conns, conns', d),
             NEW i \in {"connected", "server_hello", "idle", "gone"}, NEW r, NEW w,
             Exchange(i, r, conns'[d], w, request, failed), conns'[d].inbox["resp"] = << >>
                 \/ i # "gone",
             rpc # "await", rpc' # "await", UNCHANGED failed
      PROVE  LogInv' /\ Supply /\ Plain
  <2>1. ~StoreIn(conns'[d]) /\ ~AnswerIn(conns'[d])
    BY <1>8, NoTraffic DEF StoreIn
  <2>2. Quiet({})
    BY <1>8, <2>1, QuietAt
  <2> QED
    BY <1>8, <2>2, RouterQuiet
<1>9. CASE RouterSendHello
  <2>1. rpc = "connected" /\ c # NoConn /\ InitPc(Router, s) = "connected"
    BY <1>6, <1>9 DEF RouterSendHello, RouterAt, InitPc, SysInv, RouterInv, Servers
  <2>2. CASE Communicate(Sent(conns, c, "init", ClientHello)) /\ rpc' = "server_hello"
    <3>1. conns' = Sent(conns, c, "init", ClientHello) /\ UNCHANGED failed
      BY <2>2 DEF Communicate
    <3>2. OnlyAt(conns, conns', c) /\ SentAt(conns[c], conns'[c], "init", ClientHello)
      BY <1>1, <1>7, <2>1, <3>1, SentEffect DEF Ends
    <3>3. Exchange("server_hello", RespPhase(c), conns'[c], request, request, failed)
      BY <1>7, <2>1, <3>2, ExchangeHello
    <3> QED
      BY <1>7, <1>8, <2>1, <2>2, <3>1, <3>2, <3>3
  <2> QED
    BY <1>2, <1>3, <1>6, <1>9, <2>2 DEF RouterSendHello
<1>10. CASE RouterRecvHello
  <2>1. /\ rpc = "server_hello" /\ c # NoConn /\ InitPc(Router, s) = "server_hello"
        /\ CanRecv(c, "init")
    BY <1>6, <1>10 DEF RouterRecvHello, RouterAt, InitPc, SysInv, RouterInv, Servers
  <2>2. CASE HelloUsable(c) /\ Communicate(HelloReceived(c)) /\ rpc' \in {"connect", "accept"}
    <3>1. conns' = HelloReceived(c) /\ UNCHANGED failed
      BY <2>2 DEF Communicate
    <3>2. /\ OnlyAt(conns, conns', c)
          /\ Exchange("idle", RespPhase(c), conns'[c], request, request, failed)
      BY <1>1, <1>7, <2>1, <2>2, <3>1, HelloReceivedEffect
    <3> QED
      BY <1>7, <1>8, <2>1, <2>2, <3>1, <3>2
  <2>3. CASE RouterDies("segv", Taken(c, "init"))
    <3>1. AfterRecv(Router, Taken(c, "init"))
      BY <1>7, <2>1 DEF AfterRecv, Ends
    <3> QED
      BY <1>3, <2>3, <3>1
  <2> QED
    BY <1>6, <1>10, <2>2, <2>3 DEF RouterRecvHello
<1>11. CASE RouterAccept
  <2>1. UNCHANGED <<conns, failed>> /\ rpc = "accept" /\ rpc' = "client_hello"
    BY <1>11 DEF RouterAccept, Accept, RouterAt
  <2>2. Quiet({})
    BY <2>1, QuietSame
  <2> QED
    BY <2>1, <2>2, RouterQuiet
<1>12. CASE RouterHandshake
  <2>1. PICK a : a = client_sock
    OBVIOUS
  <2>2. /\ rpc = "client_hello" /\ a # NoConn /\ RespPc(Router) = "client_hello"
        /\ CanRecv(a, "resp")
    BY <1>12, <2>1 DEF RouterHandshake, RouterAt, RespPc, SysInv, RouterInv
  <2>3. ASSUME NEW key \in ResponderKeys(a), Communicate(Answered(a, key)), rpc' = "serve"
        PROVE  LogInv' /\ Supply /\ Plain
    <3>1. PICK i, w : i = InitPhase(a) /\ w = cmd[conns[a].who["init"]]
      OBVIOUS
    <3>2. /\ a \in DOMAIN conns
          /\ i = "gone" <=> ~conns[a].open["init"]
          /\ Exchange(i, "client_hello", conns[a], w, request, failed)
      BY <2>1, <2>2, <3>1, RouterServes
    <3>3. conns' = Answered(a, key) /\ UNCHANGED failed
      BY <2>3 DEF Communicate
    <3>4. /\ OnlyAt(conns, conns', a) /\ conns'[a].inbox["resp"] = << >>
          /\ Exchange(i, "serve", conns'[a], w, request, failed)
      BY <1>1, <2>2, <2>3, <3>2, <3>3, AnsweredEffect
    <3>5. i \in {"connected", "server_hello", "idle", "gone"}
      BY <3>2 DEF Exchange, Talking
    <3> QED
      BY <1>8, <2>2, <2>3, <3>2, <3>3, <3>4, <3>5
  <2> QED
    BY <1>2, <1>3, <1>12, <2>1, <2>3 DEF RouterHandshake
<1> QED
  BY <1>5, <1>9, <1>10, <1>11, <1>12

\* The router ends the session with its client.
LEMMA RouterCloseLog ==
    ASSUME SysInv, CountInv, LogInv, UNCHANGED <<servervars, clientvars>>,
           rpc = "serve", NEW a, a = client_sock, NEW cs, cs = Taken(a, "resp"),
           Communicate(Closed(cs, a, "resp")), rpc' = "accept"
    PROVE  LogInv' /\ Supply /\ Plain
<1>1. a # NoConn
  BY DEF SysInv, RouterInv
<1>2. a \in DOMAIN conns /\ IsConn(conns[a])
  BY <1>1, RouterServes
<1>3. OnlyAt(conns, cs, a) /\ TakenAt(conns[a], cs[a], "resp")
  BY <1>2, TakenEffect DEF Ends
<1>4. a \in DOMAIN cs /\ IsConn(cs[a]) /\ "resp" \in Ends
  BY <1>2, <1>3 DEF OnlyAt, Ends
<1>5. PICK x : x = Closed(cs, a, "resp")
  OBVIOUS
<1>6. /\ \A d \in DOMAIN cs \ {a} : d \in DOMAIN x /\ x[d] = cs[d]
      /\ DOMAIN x \subseteq DOMAIN cs
      /\ a \in DOMAIN x => ShutAt(cs[a], x[a], "resp", FALSE)
  BY ONLY <1>4, <1>5, ClosedEffect
<1>7. conns' = x /\ UNCHANGED failed
  BY <1>5 DEF Communicate
<1>8. /\ cs[a].who = conns[a].who /\ cs[a].open = conns[a].open
      /\ cs[a].inbox["init"] = conns[a].inbox["init"]
  BY <1>2, <1>3, TakenResp DEF OnlyAt
<1>9. a \in DOMAIN conns' => Drained(conns[a], conns'[a])
  BY <1>6, <1>7, <1>8, EndsOf DEF ShutAt, Drained, StoreIn
<1>10. /\ DOMAIN conns' \subseteq DOMAIN conns
       /\ \A d \in DOMAIN conns' \ {a} : conns'[d] = conns[d]
  BY <1>3, <1>6, <1>7 DEF OnlyAt
<1>11. Quiet({})
  BY <1>9, <1>10 DEF Quiet, Drained
<1> QED
  BY <1>7, <1>11, RouterQuiet

\* What a request of the router does to the connections, of which it has
\* received from some: it is on c.
Commanded(c, cs, p) ==
    /\ c \in DOMAIN conns /\ conns[c].who["init"] = Router
    /\ c # client_sock /\ ~StoreIn(conns[c])
    /\ conns'[c].inbox["init"] = << >>
    /\ conns'[c].inbox["resp"] # << >> => Head(conns'[c].inbox["resp"]) = p
    /\ DOMAIN conns' = DOMAIN conns
    /\ \A d \in DOMAIN conns :
           conns'[d].who = conns[d].who /\ conns'[d].open = conns[d].open
    /\ \A d \in DOMAIN conns \ {c} :
           conns'[d] = cs[d] /\ Drained(conns[d], conns'[d])

\* send_command_to_server does that.
LEMMA CommandSent ==
    ASSUME SysInv, rpc \in {"serve", "await"}, NEW cs, AfterRecv(Router, cs),
           NEW i \in Servers, InitPc(Router, i) = "idle",
           NEW c, c = server_sockets[i], NEW p, conns' = Sent(cs, c, "init", p)
    PROVE  Commanded(c, cs, p)
<1>1. c # NoConn
  BY DEF SysInv, RouterInv
<1>2. /\ c \in DOMAIN conns /\ IsConn(conns[c]) /\ c # client_sock
      /\ conns[c].who["init"] = Router /\ conns[c].who["resp"] = i /\ i # Router
      /\ Exchange("idle", RespPhase(c), conns[c], request, request, failed)
  BY <1>1, RouterConn
<1>3. conns[c].inbox["resp"] = << >> /\ conns[c].inbox["init"] = << >>
  BY <1>2 DEF Exchange, Talking, Deserted
<1>4. /\ SameEnds(conns, cs) /\ \A d \in DOMAIN conns : Drained(conns[d], cs[d])
      /\ \A d \in DOMAIN conns :
             \/ cs[d] = conns[d]
             \/ \E e \in Ends : Has(Router, conns[d], e) /\ TakenAt(conns[d], cs[d], e)
  BY RecvDrains, AfterRecvEffect
<1>5. cs[c].inbox["resp"] = << >> /\ cs[c].inbox["init"] = << >>
  BY <1>2, <1>3, <1>4, EndsOf DEF TakenAt
<1>6. /\ c \in DOMAIN cs /\ DOMAIN cs = DOMAIN conns
      /\ \A d \in DOMAIN cs : IsConn(cs[d])
      /\ \A d \in DOMAIN cs : cs[d].who = conns[d].who /\ cs[d].open = conns[d].open
  BY <1>2, <1>4 DEF SameEnds
<1>7. OnlyAt(cs, conns', c) /\ SentAt(cs[c], conns'[c], "init", p)
  BY <1>6, SentEffect DEF Ends
<1>8. conns'[c].inbox["init"] = << >>
  BY <1>5, <1>7, EndsOf DEF SentAt
<1>9. conns'[c].inbox["resp"] # << >> => Head(conns'[c].inbox["resp"]) = p
  <2>1. Append(<< >>, p) # << >> /\ Head(Append(<< >>, p)) = p
    OBVIOUS
  <2> QED
    BY <1>5, <1>7, <2>1, EndsOf DEF SentAt
<1>10. /\ DOMAIN conns' = DOMAIN conns
       /\ \A d \in DOMAIN conns :
              conns'[d].who = conns[d].who /\ conns'[d].open = conns[d].open
       /\ \A d \in DOMAIN conns \ {c} : conns'[d] = cs[d]
  BY <1>6, <1>7 DEF OnlyAt
<1>11. ~StoreIn(conns[c])
  BY <1>3 DEF StoreIn
<1> QED
  BY <1>2, <1>4, <1>8, <1>9, <1>10, <1>11 DEF Commanded

\* A step of the router that passes something on, after which it does not
\* gather.
LEMMA MovedStep ==
    ASSUME SysInv, CountInv, LogInv, Supply, Confirm, ~Gathering',
           NEW S, Quiet(S), WantKept(S),
           \A c \in S \cap DOMAIN conns' :
               ListIn(conns'[c]) =>
                   \A list, k :
                       /\ list = Head(conns'[c].inbox["init"]).body.parts
                       /\ k = conns'[c].who["init"]
                       => IsCurrent(list, known'[k], sent', Lossless'),
           UNCHANGED <<failed, servervars, clientvars>>
    PROVE  LogInv' /\ Supply
<1>1. UNCHANGED <<cmd, sent, acked, known, chain, allocFails>>
  BY DEF servervars, clientvars
<1>2. ChainsKept /\ KnownDrops
  BY <1>1, ChainsStay DEF KnownDrops
<1>3. SentInv'
  BY <1>2, SentStep DEF LogInv
<1>4. AckInv'
  BY <1>2, <1>3, AckStep DEF LogInv
<1>5. KnownInv'
  BY <1>1, <1>2, KnownStep DEF LogInv
<1>6. ListInv'
  <2>1. LossKept /\ ListInv
    BY <1>2 DEF ChainsKept, LogInv
  <2> QED
    BY <2>1, ListStep
<1>7. GatherInv'
  BY DEF GatherInv
<1> QED
  BY <1>3, <1>4, <1>5, <1>6, <1>7 DEF LogInv

\* The router sends a store on to a server.
LEMMA RouterStoreLog ==
    ASSUME SysInv, CountInv, LogInv, UNCHANGED <<servervars, clientvars, failed>>,
           rpc = "serve", NEW a, a = client_sock, NEW r, r = Received(a, "resp").body,
           r.kind = "STORE", CanRecv(a, "resp"), conns[a].inbox["resp"] # << >>,
           NEW cs, cs = Taken(a, "resp"), NEW i \in Servers,
           NEW c, c = server_sockets[i], NEW p, p.body = r,
           conns' = Sent(cs, c, "init", p), request' = r
    PROVE  LogInv' /\ Supply /\ Plain
<1>1. UNCHANGED <<cmd, sent, acked, known, chain, allocFails>>
  BY DEF servervars, clientvars
<1>2. InitPc(Router, i) = "idle"
  BY DEF InitPc
<1>3. a # NoConn /\ a \in DOMAIN conns /\ IsConn(conns[a]) /\ Has(Router, conns[a], "resp")
  BY RouterRequest
<1>4. AfterRecv(Router, cs)
  BY <1>3 DEF AfterRecv, Ends
<1>5. /\ c \in DOMAIN conns /\ c # a /\ ~StoreIn(conns[c])
      /\ conns'[c].inbox["init"] = << >>
      /\ conns'[c].inbox["resp"] # << >> => Head(conns'[c].inbox["resp"]) = p
      /\ DOMAIN conns' = DOMAIN conns
      /\ \A d \in DOMAIN conns \ {c} :
             conns'[d] = cs[d] /\ Drained(conns[d], conns'[d])
  <2>1. Commanded(c, cs, p)
    BY <1>2, <1>4, CommandSent
  <2> QED
    BY <2>1 DEF Commanded
<1>6. TakenAt(conns[a], cs[a], "resp")
  BY <1>3, TakenEffect DEF Ends
<1>7. ~StoreIn(conns'[a])
  BY <1>3, <1>5, <1>6, TakenResp
<1>8. StoreIn(conns[a]) /\ Head(conns[a].inbox["resp"]).body = r
  BY DEF StoreIn, Received
<1>9. ~AnswerIn(conns'[c])
  BY <1>5 DEF AnswerIn
<1>10. PICK S : S = {c}
  OBVIOUS
<1>11. Quiet(S) /\ WantKept(S)
  BY <1>1, <1>5, <1>10, WantsStay DEF Quiet
<1>12. Supply
  <2> SUFFICES ASSUME NEW d \in Data
               PROVE  \/ Waiting(d)' \subseteq Waiting(d)
                      \/ \E b, x : /\ b \in Waiting(d)
                                   /\ Waiting(d)' \subseteq (Waiting(d) \ {b}) \cup {x}
    BY <1>1 DEF Supply
  <2>1. Waiting(d)' \ S \subseteq Waiting(d) \ S
    BY <1>11, QuietSets
  <2>2. a \notin Waiting(d)'
    BY <1>7 DEF Waiting, StoreIn
  <2>3. CASE r = StoreOf(d)
    <3>1. a \in Waiting(d)
      BY <1>3, <1>8, <2>3 DEF Waiting
    <3>2. Waiting(d)' \subseteq (Waiting(d) \ {a}) \cup {c}
      BY <1>10, <2>1, <2>2
    <3> QED
      BY <3>1, <3>2
  <2>4. CASE r # StoreOf(d)
    <3>1. c \notin Waiting(d)'
      <4>1. c \in Waiting(d)' =>
                conns'[c].inbox["resp"] # << >> /\ Head(conns'[c].inbox["resp"]).body = StoreOf(d)
        BY DEF Waiting, StoreIn, StoreOf
      <4> QED
        BY <1>5, <2>4, <4>1
    <3> QED
      BY <1>10, <2>1, <3>1
  <2> QED
    BY <2>3, <2>4
<1>13. Confirm
  <2> SUFFICES ASSUME NEW d \in Data PROVE Acks(d)' \subseteq Acks(d)
    BY <1>1 DEF Confirm
  <2>1. Acks(d)' \ S \subseteq Acks(d) \ S
    BY <1>11, QuietSets
  <2>2. c \notin Acks(d)'
    BY <1>9 DEF Acks, AnswerIn
  <2> QED
    BY <1>10, <2>1, <2>2
<1>14. ~Gathering'
  BY DEF Gathering
<1>15. \A d \in S \cap DOMAIN conns' : ~ListIn(conns'[d])
  BY <1>9, <1>10 DEF ListIn
<1>16. Plain
  BY <1>9, <1>10, <1>11, <1>14, QuietCarries DEF Plain, GatherKept
<1> QED
  BY <1>11, <1>12, <1>13, <1>14, <1>15, <1>16, MovedStep

\* What is gathered when no server has answered yet.
LEMMA GatherStarts ==
    ASSUME CountInv, UNCHANGED <<acked, known>>, SentInv', AckInv', KnownInv',
           Gathering' => \A s \in Servers : Part(s)' = chain'[s],
           \A k : k = conns'[client_sock'].who["init"] => k \in Clients
    PROVE  GatherInv'
<1> SUFFICES ASSUME Gathering', NEW d \in Data, NEW k, k = conns'[client_sock'].who["init"]
             PROVE  /\ Room(Copies(Parts', d), Waiting(d)', sent'[d])
                    /\ Lossless' => known'[k][d] <= Cardinality(Copies(Parts', d))
  BY DEF GatherInv
<1>1. Copies(Parts', d) = Copies(chain', d)
  BY DEF Copies, Parts
<1>2. Room(Copies(chain', d), Waiting(d)', sent'[d])
  BY DEF SentInv, Copies
<1>3. known'[k][d] <= acked'[d] /\ known'[k][d] \in Nat
  <2>1. k \in Clients /\ known'[k][d] \in Nat
    BY DEF CountInv
  <2> QED
    BY <2>1 DEF KnownInv
<1>4. ASSUME Lossless'
      PROVE  known'[k][d] <= Cardinality(Copies(chain', d))
  <2>1. NoneFailed' /\ allocFails' = 0
    BY <1>4 DEF Lossless
  <2>2. Backed(acked'[d], Acks(d)', Copies(chain', d), 0)
    BY <2>1 DEF AckInv, Copies
  <2>3. PICK n, K, A : n = acked'[d] /\ K = Acks(d)' /\ A = Copies(chain', d)
    OBVIOUS
  <2>4. n \in Nat /\ n + Cardinality(K) <= Cardinality(A) + 0
        /\ IsFiniteSet(K) /\ IsFiniteSet(A)
    BY <2>2, <2>3 DEF Backed
  <2>5. Cardinality(K) \in Nat /\ Cardinality(A) \in Nat
    BY <2>4, FS_CardinalityType
  <2> QED
    BY <1>3, <2>3, <2>4, <2>5
<1> QED
  BY <1>1, <1>2, <1>4

\* The router begins to gather, or has the answer of one more server.
Asks(i, answers) ==
    /\ Carried({}) /\ ~Came' /\ ri' = i /\ i \in Servers /\ replies' = answers
    /\ UNCHANGED <<server_sockets, client_sock>>
    /\ \A d \in DOMAIN conns : conns'[d].open = conns[d].open

\* The router sends a retrieve on to the first server.
LEMMA RouterRetrieveLog ==
    ASSUME SysInv, CountInv, LogInv, UNCHANGED <<servervars, clientvars, failed>>,
           rpc = "serve", NEW a, a = client_sock, CanRecv(a, "resp"),
           NEW cs, cs = Taken(a, "resp"), NEW i, i = 0,
           NEW c, c = server_sockets[i], NEW p, p.body.kind = "RETRIEVE",
           conns' = Sent(cs, c, "init", p), ri' = i, replies' = << >>,
           UNCHANGED <<server_sockets, client_sock>>
    PROVE  LogInv' /\ Supply /\ Asks(0, << >>)
<1>1. UNCHANGED <<cmd, sent, acked, known, chain, allocFails>>
  BY DEF servervars, clientvars
<1>2. InitPc(Router, i) = "idle" /\ i \in Servers
  BY ServerNumbers DEF InitPc
<1>3. a # NoConn /\ a \in DOMAIN conns /\ IsConn(conns[a]) /\ Has(Router, conns[a], "resp")
  BY RouterRequest
<1>4. AfterRecv(Router, cs)
  BY <1>3 DEF AfterRecv, Ends
<1>5. /\ c \in DOMAIN conns /\ conns'[c].inbox["init"] = << >>
      /\ conns'[c].inbox["resp"] # << >> => Head(conns'[c].inbox["resp"]) = p
      /\ DOMAIN conns' = DOMAIN conns
      /\ \A d \in DOMAIN conns : conns'[d].who = conns[d].who /\ conns'[d].open = conns[d].open
      /\ \A d \in DOMAIN conns \ {c} : Drained(conns[d], conns'[d])
  <2>1. Commanded(c, cs, p)
    BY <1>2, <1>4, CommandSent
  <2> QED
    BY <2>1 DEF Commanded
<1>6. ~AnswerIn(conns'[c]) /\ ~StoreIn(conns'[c])
  BY <1>5 DEF AnswerIn, StoreIn
<1>7. Quiet({})
  BY <1>5, <1>6 DEF Quiet, Drained
<1>8. WantKept({}) /\ ChainsKept /\ KnownDrops
  BY <1>1, WantsStay, ChainsStay DEF KnownDrops
<1>9. Supply /\ SentInv' /\ AckInv' /\ KnownInv' /\ ListInv'
  BY <1>1, <1>7, <1>8, QuietMost
<1>10. ~Came'
  BY <1>5 DEF Came
<1>11. \A s \in Servers : Part(s)' = chain'[s]
  <2>1. \A s \in Servers : ~(s < 0)
    BY NetAssumption DEF Servers
  <2> QED
    BY <1>10, <2>1 DEF Part
<1>12. \A k : k = conns'[client_sock'].who["init"] => k \in Clients
  BY <1>3, <1>5, RouterServes
<1>13. GatherInv'
  BY <1>1, <1>9, <1>11, <1>12, GatherStarts
<1>14. Carried({})
  BY <1>7, <1>8, QuietCarries
<1> QED
  BY <1>2, <1>5, <1>9, <1>10, <1>13, <1>14 DEF LogInv, Asks

\* The answers that the router has after a recv are the parts, or less where
\* a server did not answer.
LEMMA Answers ==
    ASSUME SysInv, Gathering, NEW reply, reply = ServerReply(server_sockets[ri]),
           NEW answers, answers = Append(replies, reply)
    PROVE  /\ \A s \in Servers :
                  s <= ri => Within(answers[s + 1].blocks, Part(s))
           /\ (\A s \in Servers : s <= ri => Shows(answers[s + 1])) =>
                  /\ Whole
                  /\ \A s \in Servers :
                         s <= ri => Within(Part(s), answers[s + 1].blocks)
           /\ \A s \in Servers : s < ri => answers[s + 1] = replies[s + 1]
           /\ answers[ri + 1] = reply
<1>1. /\ ri \in Servers /\ ri \in Nat /\ replies \in Seq(Replies) /\ Len(replies) = ri
      /\ \A s \in Servers : s \in Nat
  BY NetAssumption DEF SysInv, RouterInv, Gathering, Servers
<1>2. \A s \in Servers : s < ri => answers[s + 1] = replies[s + 1]
  BY <1>1
<1>3. answers[ri + 1] = reply
  BY <1>1
<1>4. Within(reply.blocks, Part(ri)) /\ (Shows(reply) => Within(Part(ri), reply.blocks))
      /\ (Came /\ Shows(reply) => Shows(CameBody))
  <2>1. PICK c : c = server_sockets[ri]
    OBVIOUS
  <2>2. CASE Readable(c, "init")
    <3>1. Came /\ reply = CameBody
      BY <2>1, <2>2 DEF ServerReply, Readable, AtEnd, Received, Came, CameBody
    <3>2. Part(ri) = reply.blocks
      BY <1>1, <3>1 DEF Part
    <3> QED
      BY <3>1, <3>2 DEF Within
  <2>3. CASE ~Readable(c, "init")
    <3>1. reply.kind = "NO_RESPONSE" /\ reply.blocks = << >>
      BY <2>1, <2>3 DEF ServerReply, Reply
    <3>2. DOMAIN << >> = {}
      OBVIOUS
    <3> QED
      BY <3>1, <3>2 DEF Within, Shows
  <2> QED
    BY <2>2, <2>3
<1>5. \A s \in Servers : s < ri => Part(s) = replies[s + 1].blocks
  BY DEF Part
<1>6. \A s \in Servers : s <= ri => s < ri \/ s = ri
  BY <1>1
<1>7. \A s \in Servers : s <= ri => Within(answers[s + 1].blocks, Part(s))
  BY <1>2, <1>3, <1>4, <1>5, <1>6 DEF Within
<1>8. ASSUME \A s \in Servers : s <= ri => Shows(answers[s + 1])
      PROVE  /\ Whole
             /\ \A s \in Servers : s <= ri => Within(Part(s), answers[s + 1].blocks)
  <2>1. Shows(reply)
    BY <1>1, <1>3, <1>8
  <2>2. \A s \in Servers : s < ri => s <= ri
    BY <1>1
  <2>3. Whole
    BY <1>2, <1>4, <1>8, <2>1, <2>2 DEF Whole
  <2>4. \A s \in Servers : s <= ri => Within(Part(s), answers[s + 1].blocks)
    BY <1>2, <1>3, <1>4, <1>5, <1>6, <2>1 DEF Within
  <2> QED
    BY <2>3, <2>4
<1> QED
  BY <1>2, <1>3, <1>7, <1>8

\* The router sends a retrieve on to the next server.
LEMMA RouterNextLog ==
    ASSUME SysInv, CountInv, LogInv, UNCHANGED <<servervars, clientvars, failed>>,
           Gathering, NEW b, b = server_sockets[ri], NEW reply, reply = ServerReply(b),
           NEW cs, cs = Taken(b, "init"), NEW i, i = ri + 1, i < NUM_SERVERS,
           NEW c, c = server_sockets[i], NEW p, p.body.kind = "RETRIEVE",
           conns' = Sent(cs, c, "init", p), ri' = i, replies' = Append(replies, reply),
           UNCHANGED <<request, server_sockets, client_sock>>
    PROVE  LogInv' /\ Supply /\ Asks(i, Append(replies, reply))
<1>1. UNCHANGED <<cmd, sent, acked, known, chain, allocFails>>
  BY DEF servervars, clientvars
<1>2. rpc \in {"serve", "await"} /\ rpc = "await" /\ request.kind = "RETRIEVE"
  BY DEF Gathering
<1>3. ri \in Nat /\ ri \in Servers /\ i \in Servers /\ i # ri
      /\ \A s \in Servers : s \in Nat
  BY NetAssumption DEF SysInv, RouterInv, Servers
<1>4. InitPc(Router, i) = "idle" /\ b # NoConn
  BY <1>2, <1>3 DEF InitPc, SysInv, RouterInv
<1>5. b \in DOMAIN conns /\ Has(Router, conns[b], "init")
  BY <1>3, <1>4, RouterConn
<1>6. AfterRecv(Router, cs)
  BY <1>5 DEF AfterRecv, Ends
<1>7. Commanded(c, cs, p)
  BY <1>2, <1>3, <1>4, <1>6, CommandSent
<1>8. /\ c \in DOMAIN conns /\ conns'[c].inbox["init"] = << >>
      /\ conns'[c].inbox["resp"] # << >> => Head(conns'[c].inbox["resp"]) = p
      /\ DOMAIN conns' = DOMAIN conns
      /\ \A d \in DOMAIN conns : conns'[d].who = conns[d].who /\ conns'[d].open = conns[d].open
      /\ \A d \in DOMAIN conns \ {c} : Drained(conns[d], conns'[d])
  BY <1>7 DEF Commanded
<1>9. ~AnswerIn(conns'[c]) /\ ~StoreIn(conns'[c])
  BY <1>8 DEF AnswerIn, StoreIn
<1>10. Quiet({})
  BY <1>8, <1>9 DEF Quiet, Drained
<1>11. WantKept({}) /\ ChainsKept /\ KnownDrops /\ LossKept
  BY <1>1, WantsStay, ChainsStay DEF KnownDrops, ChainsKept
<1>12. Supply /\ SentInv' /\ AckInv' /\ KnownInv' /\ ListInv'
  BY <1>1, <1>10, <1>11, QuietMost
<1>13. ~Came'
  BY <1>8 DEF Came
<1>14. ClientStays
  <2>1. PICK a : a = client_sock
    OBVIOUS
  <2>2. a \in DOMAIN conns
    BY <2>1, <1>5, Gatherer
  <2> QED
    BY <1>1, <1>8, <2>1, <2>2 DEF ClientStays
<1>15. PICK answers : answers = replies'
  OBVIOUS
<1>16. /\ \A s \in Servers :
              s <= ri => Within(answers[s + 1].blocks, Part(s))
       /\ (\A s \in Servers : s <= ri => Shows(answers[s + 1])) =>
              /\ Whole
              /\ \A s \in Servers :
                     s <= ri => Within(Part(s), answers[s + 1].blocks)
  BY <1>15, Answers
<1>17. \A s \in Servers : s < i <=> s <= ri
  <2>1. PICK n \in Nat : n = ri
    BY <1>3
  <2>2. i = n + 1 /\ \A s \in Nat : s < n + 1 <=> s <= n
    BY <2>1
  <2> QED
    BY ONLY <1>3, <2>1, <2>2
<1>18. \A s \in Servers :
           /\ s <= ri => Part(s)' = answers[s + 1].blocks
           /\ ~(s <= ri) => Part(s)' = chain[s] /\ Part(s) = chain[s]
  <2>1. \A s \in Servers :
            Part(s)' = IF s < i THEN answers[s + 1].blocks ELSE chain[s]
    BY <1>1, <1>13, <1>15 DEF Part
  <2>2. \A s \in Servers : ~(s <= ri) => ~(s < ri) /\ s # ri
    BY <1>3
  <2> QED
    BY <1>17, <2>1, <2>2 DEF Part
<1>19. \A s \in Servers : Within(Part(s)', Part(s))
  BY <1>16, <1>18 DEF Within
<1>20. Whole' => Whole /\ \A s \in Servers : Within(Part(s), Part(s)')
  <2>1. Whole' => \A s \in Servers : s <= ri => Shows(answers[s + 1])
    BY <1>15, <1>17 DEF Whole
  <2> QED
    BY <1>16, <1>18, <2>1 DEF Within
<1>21. ASSUME NEW d \in Data
       PROVE  Room(Copies(Parts', d), Waiting(d)', sent'[d])
  <2>1. \A s \in Servers : Within(Parts'[s], Parts[s])
    BY <1>19 DEF Parts
  <2>2. Copies(Parts', d) \subseteq Copies(Parts, d)
    BY <2>1, CopiesWithin
  <2>3. Room(Copies(Parts, d), Waiting(d), sent[d])
    BY DEF LogInv, GatherInv
  <2> QED
    BY <1>12, <2>2, <2>3, RoomSupply
<1>22. GatherInv'
  BY <1>11, <1>14, <1>20, <1>21, GatherOn DEF LogInv
<1>23. Carried({})
  BY <1>10, <1>11, QuietCarries
<1> QED
  BY <1>3, <1>8, <1>12, <1>13, <1>22, <1>23 DEF LogInv, Asks

\* What an answer of the router does to the connections: what came on b is
\* taken, and the answer is on a.
Passed(a, b, p) ==
    /\ a \in DOMAIN conns /\ b \in DOMAIN conns /\ a # b
    /\ conns[b].who["init"] = Router /\ conns[a].who["init"] \in Clients
    /\ conns[a].who["init"] # Router /\ conns[a].who["init"] \in Procs
    /\ DOMAIN conns' = DOMAIN conns
    /\ \A d \in DOMAIN conns : conns'[d].who = conns[d].who
    /\ conns'[a].inbox["resp"] = << >> /\ ~AnswerIn(conns'[b])
    /\ \A d \in DOMAIN conns \ {a} : Drained(conns[d], conns'[d])
    /\ conns'[a].inbox["init"] # << >> =>
           /\ Head(conns'[a].inbox["init"]) = p
           /\ conns[a].open["init"] /\ conns'[a].open["init"]
           /\ cmd[conns[a].who["init"]] = request

\* So does the send at the end of handle_client's loop.
LEMMA AnswerPassed ==
    ASSUME SysInv, rpc = "await", NEW a, a = client_sock, NEW b, b = server_sockets[ri],
           NEW cs, cs = Taken(b, "init"), NEW p, conns' = Sent(cs, a, "resp", p)
    PROVE  Passed(a, b, p)
<1>1. ri \in Servers /\ a # NoConn /\ b # NoConn
  BY DEF SysInv, RouterInv
<1>2. PICK k : k = conns[a].who["init"]
  OBVIOUS
<1>3. /\ a \in DOMAIN conns /\ IsConn(conns[a]) /\ k \in Clients /\ k # Router
      /\ InitPhase(a) = "gone" <=> ~conns[a].open["init"]
      /\ Exchange(InitPhase(a), RespPc(Router), conns[a], cmd[k], request, failed)
  BY <1>1, <1>2, RouterServes
<1>4. RespPc(Router) = "busy"
  BY DEF RespPc
<1>5. /\ conns[a].inbox["init"] = << >> /\ conns[a].inbox["resp"] = << >>
      /\ conns[a].open["init"] => cmd[k] = request
  BY <1>3, <1>4 DEF Exchange, Talking, Left
<1>6. /\ b \in DOMAIN conns /\ IsConn(conns[b]) /\ a # b
      /\ conns[b].who["init"] = Router /\ Has(Router, conns[b], "init")
  BY <1>1, RouterConn
<1>7. AfterRecv(Router, cs)
  BY <1>6 DEF AfterRecv, Ends
<1>8. SameEnds(conns, cs) /\ \A d \in DOMAIN conns : Drained(conns[d], cs[d])
  BY <1>7, RecvDrains
<1>9. OnlyAt(conns, cs, b) /\ TakenAt(conns[b], cs[b], "init")
  BY <1>6, TakenEffect DEF Ends
<1>10. /\ cs[a] = conns[a] /\ DOMAIN cs = DOMAIN conns
       /\ \A d \in DOMAIN cs : IsConn(cs[d])
       /\ \A d \in DOMAIN conns : cs[d].who = conns[d].who /\ cs[d].open = conns[d].open
  BY <1>3, <1>6, <1>8, <1>9 DEF OnlyAt, SameEnds
<1>11. OnlyAt(cs, conns', a) /\ SentAt(cs[a], conns'[a], "resp", p)
  BY <1>3, <1>10, SentEffect DEF Ends
<1>12. /\ DOMAIN conns' = DOMAIN conns
       /\ \A d \in DOMAIN conns : conns'[d].who = conns[d].who
       /\ \A d \in DOMAIN conns \ {a} : conns'[d] = cs[d]
       /\ conns'[a].open = conns[a].open
  BY <1>10, <1>11 DEF OnlyAt
<1>13. conns'[a].inbox["resp"] = << >>
  BY <1>5, <1>10, <1>11, EndsOf DEF SentAt
<1>14. ~AnswerIn(conns'[b])
  BY <1>6, <1>9, <1>12, TakenInit
<1>15. ASSUME conns'[a].inbox["init"] # << >>
       PROVE  conns[a].open["init"] /\ Head(conns'[a].inbox["init"]) = p
  <2>1. Head(Append(<< >>, p)) = p
    OBVIOUS
  <2> QED
    BY <1>5, <1>10, <1>11, <1>15, <2>1, EndsOf DEF SentAt
<1>16. k \in Procs
  BY <1>3 DEF Procs
<1>18. \A d \in DOMAIN conns \ {a} : Drained(conns[d], conns'[d])
  BY <1>8, <1>12
<1> QED
  BY <1>2, <1>3, <1>5, <1>6, <1>12, <1>13, <1>14, <1>15, <1>16, <1>18 DEF Passed

\* The stores that wait, and what clients wait for, when the router answers.
LEMMA PassedQuiet ==
    ASSUME SysInv, rpc = "await", NEW a, a = client_sock, NEW b, b = server_sockets[ri],
           NEW p, Passed(a, b, p), UNCHANGED clientvars, NEW S, S = {a}
    PROVE  Quiet(S) /\ WantKept(S) /\ Supply
<1>1. UNCHANGED <<cmd, sent, known>>
  BY DEF clientvars
<1>2. Quiet(S)
  BY DEF Passed, Quiet
<1>3. WantKept(S)
  <2> SUFFICES ASSUME NEW c \in DOMAIN conns, NEW i \in Procs, i = conns[c].who["init"],
                      AnswerIn(conns[c]), AnswerIn(conns'[c])
               PROVE  Wanted(i)' = Wanted(i) /\ (i \in Clients => known'[i] = known[i])
    BY DEF WantKept
  <2>1. i = Router => c = b
    BY AnswerAwaits
  <2>2. i # Router
    BY <2>1 DEF Passed
  <2> QED
    BY <1>1, <2>2 DEF Wanted
<1>4. Supply
  <2> SUFFICES ASSUME NEW d \in Data PROVE Waiting(d)' \subseteq Waiting(d)
    BY <1>1 DEF Supply
  <2>1. Waiting(d)' \ S \subseteq Waiting(d) \ S
    BY <1>2, QuietSets
  <2>2. a \notin Waiting(d)'
    BY DEF Passed, Waiting, StoreIn
  <2> QED
    BY <2>1, <2>2
<1> QED
  BY <1>2, <1>3, <1>4

\* The router answers a store.
LEMMA RouterAckLog ==
    ASSUME SysInv, CountInv, LogInv, UNCHANGED <<servervars, clientvars, failed>>,
           rpc = "await", request.kind = "STORE", rpc' = "serve",
           NEW a, a = client_sock, NEW b, b = server_sockets[ri],
           NEW reply, reply = ServerReply(b), NEW p, p.body = reply, Passed(a, b, p)
    PROVE  /\ LogInv' /\ Supply /\ Carried({a})
           /\ AnswerIn(conns'[a]) =>
                  AnswerIn(conns[b]) /\ Head(conns[b].inbox["init"]).body.kind = "DATA_STORED"
<1>1. UNCHANGED <<cmd, sent, acked, known>>
  BY DEF clientvars
<1>2. reply.kind \in {"DATA_STORED", "NO_RESPONSE"}
  BY RouterGets
<1>3. PICK S : S = {a}
  OBVIOUS
<1>4. Quiet(S) /\ WantKept(S) /\ Supply
  BY <1>3, PassedQuiet
<1>5. PICK k : k = conns[a].who["init"]
  OBVIOUS
<1>6. ASSUME AnswerIn(conns'[a])
      PROVE  /\ Head(conns'[a].inbox["init"]).body.kind = "DATA_STORED"
             /\ AnswerIn(conns[b]) /\ Head(conns[b].inbox["init"]).body.kind = "DATA_STORED"
             /\ Wanted(k)' = request
  <2>1. Head(conns'[a].inbox["init"]) = p /\ cmd[k] = request /\ k # Router
    BY <1>5, <1>6 DEF Passed, AnswerIn
  <2>2. reply.kind = "DATA_STORED"
    BY <1>2, <1>6, <2>1 DEF AnswerIn
  <2>3. Readable(b, "init")
    BY <2>2 DEF ServerReply, Reply
  <2>4. AnswerIn(conns[b]) /\ Head(conns[b].inbox["init"]).body.kind = "DATA_STORED"
    BY <2>2, <2>3 DEF ServerReply, Readable, AtEnd, Received, AnswerIn
  <2> QED
    BY <1>1, <2>1, <2>2, <2>4 DEF Wanted
<1>7. Confirm
  <2> SUFFICES ASSUME NEW d \in Data
               PROVE  \/ Acks(d)' \subseteq Acks(d)
                      \/ \E c, x : c \in Acks(d) /\ Acks(d)' \subseteq (Acks(d) \ {c}) \cup {x}
    BY <1>1 DEF Confirm
  <2>1. Acks(d)' \ S \subseteq Acks(d) \ S
    BY <1>4, QuietSets
  <2>2. CASE a \in Acks(d)'
    <3>1. AnswerIn(conns'[a]) /\ \A i : i = conns'[a].who["init"] => Wanted(i)' = StoreOf(d)
      BY <2>2 DEF Acks, AnswerIn, StoreOf, Wanted
    <3>2. request = StoreOf(d)
      BY <1>5, <1>6, <3>1 DEF Passed
    <3>3. b \in Acks(d)
      BY <1>6, <3>1, <3>2 DEF Acks, Wanted, Passed
    <3>4. b \notin Acks(d)'
      BY DEF Passed, Acks, AnswerIn
    <3>5. Acks(d)' \subseteq (Acks(d) \ {b}) \cup {a}
      BY <1>3, <2>1, <3>4
    <3> QED
      BY <3>3, <3>5
  <2>3. CASE a \notin Acks(d)'
    BY <1>3, <2>1, <2>3
  <2> QED
    BY <2>2, <2>3
<1>8. ~Gathering'
  BY DEF Gathering
<1>9. \A c \in S \cap DOMAIN conns' : ~ListIn(conns'[c])
  BY <1>3, <1>6 DEF ListIn
<1>10. Carried({a})
  BY <1>3, <1>4, QuietCarries
<1> QED
  BY <1>4, <1>6, <1>7, <1>8, <1>9, <1>10, MovedStep

\* The router answers a retrieve.
LEMMA RouterListLog ==
    ASSUME SysInv, CountInv, LogInv, UNCHANGED <<servervars, clientvars, failed>>,
           Gathering, ri + 1 = NUM_SERVERS, rpc' = "serve",
           NEW a, a = client_sock, NEW b, b = server_sockets[ri],
           NEW answers, answers = Append(replies, ServerReply(b)),
           NEW p, p.body = [kind |-> "LIST", parts |-> answers], Passed(a, b, p)
    PROVE  LogInv' /\ Supply /\ Carried({a})
<1>1. UNCHANGED <<cmd, sent, acked, known, chain, allocFails>>
  BY DEF servervars, clientvars
<1>2. rpc = "await"
  BY DEF Gathering
<1>3. PICK S : S = {a}
  OBVIOUS
<1>4. Quiet(S) /\ WantKept(S) /\ Supply
  BY <1>2, <1>3, PassedQuiet
<1>5. PICK k : k = conns[a].who["init"]
  OBVIOUS
<1>6. p.body.kind = "LIST" /\ p.body.parts = answers
  OBVIOUS
<1>7. Confirm
  <2> SUFFICES ASSUME NEW d \in Data PROVE Acks(d)' \subseteq Acks(d)
    BY <1>1 DEF Confirm
  <2>1. Acks(d)' \ S \subseteq Acks(d) \ S
    BY <1>4, QuietSets
  <2>2. a \notin Acks(d)'
    <3>1. a \in Acks(d)' => /\ conns'[a].inbox["init"] # << >>
                            /\ Head(conns'[a].inbox["init"]).body.kind = "DATA_STORED"
      BY DEF Acks, AnswerIn
    <3> QED
      BY <1>6, <3>1 DEF Passed
  <2> QED
    BY <1>3, <2>1, <2>2
<1>8. ~Gathering'
  BY DEF Gathering
<1>9. /\ ri \in Nat /\ \A s \in Servers : s \in Nat /\ s <= ri /\ s + 1 \in 1 .. NUM_SERVERS
      /\ NUM_SERVERS \in Nat
  BY NetAssumption DEF SysInv, RouterInv, Servers
<1>10. /\ \A s \in Servers : Within(answers[s + 1].blocks, Part(s))
       /\ (\A s \in Servers : Shows(answers[s + 1])) =>
              Whole /\ \A s \in Servers : Within(Part(s), answers[s + 1].blocks)
  <2>1. /\ \A s \in Servers :
               s <= ri => Within(answers[s + 1].blocks, Part(s))
        /\ (\A s \in Servers : s <= ri => Shows(answers[s + 1])) =>
               /\ Whole
               /\ \A s \in Servers :
                      s <= ri => Within(Part(s), answers[s + 1].blocks)
    BY Answers
  <2> QED
    BY <1>9, <2>1
<1>11. \A s \in Servers : Listed(answers)[s] = answers[s + 1].blocks /\ Parts[s] = Part(s)
  BY DEF Listed, Parts
<1>12. ASSUME ListIn(conns'[a]), NEW d \in Data
       PROVE  /\ Room(Copies(Listed(answers), d), {}, sent[d])
              /\ Lossless' /\ Complete(answers) =>
                     known[k][d] <= Cardinality(Copies(Listed(answers), d))
  <2>1. conns[a].open["init"]
    BY <1>12 DEF Passed, ListIn, AnswerIn
  <2>2. Room(Copies(Parts, d), Waiting(d), sent[d])
        /\ (Lossless /\ Whole => known[k][d] <= Cardinality(Copies(Parts, d)))
    BY <1>5, <2>1 DEF LogInv, GatherInv
  <2>3. Copies(Listed(answers), d) \subseteq Copies(Parts, d)
    <3>1. \A s \in Servers : Within(Listed(answers)[s], Parts[s])
      BY <1>10, <1>11
    <3> QED
      BY <3>1, CopiesWithin
  <2>4. Room(Copies(Listed(answers), d), {}, sent[d])
    <3>1. PICK W, A, A2, n : W = Waiting(d) /\ A = Copies(Parts, d)
                             /\ A2 = Copies(Listed(answers), d) /\ n = sent[d]
      OBVIOUS
    <3>2. PICK W2 : W2 = {}
      OBVIOUS
    <3>3. Room(A, W, n) /\ A2 \subseteq A /\ W2 \subseteq W
      BY <2>2, <2>3, <3>1, <3>2
    <3>4. Room(A2, W2, n)
      BY ONLY <3>3, RoomSteps
    <3> QED
      BY <3>1, <3>2, <3>4
  <2>5. ASSUME Lossless', Complete(answers)
        PROVE  known[k][d] <= Cardinality(Copies(Listed(answers), d))
    <3>1. Lossless
      BY <1>1, <2>5 DEF Lossless, NoneFailed
    <3>2. \A s \in Servers : Shows(answers[s + 1])
      BY <1>9, <2>5 DEF Complete, Shows
    <3>3. Copies(Parts, d) = Copies(Listed(answers), d)
      <4>1. \A s \in Servers : Within(Parts[s], Listed(answers)[s])
        BY <1>10, <1>11, <3>2
      <4> QED
        BY <2>3, <4>1, CopiesWithin
    <3> QED
      BY <1>10, <2>2, <3>1, <3>2, <3>3
  <2> QED
    BY <2>4, <2>5
<1>13. ASSUME NEW c \in S \cap DOMAIN conns', ListIn(conns'[c]),
              NEW list, NEW j, list = Head(conns'[c].inbox["init"]).body.parts,
              j = conns'[c].who["init"]
       PROVE  IsCurrent(list, known'[j], sent', Lossless')
  <2>1. c = a /\ j = k
    BY <1>3, <1>5, <1>13 DEF Passed
  <2>2. list = answers
    BY <1>6, <1>13, <2>1 DEF Passed, ListIn, AnswerIn
  <2> QED
    BY <1>1, <1>12, <1>13, <2>1, <2>2 DEF IsCurrent
<1>14. Carried({a})
  BY <1>3, <1>4, QuietCarries
<1> QED
  BY <1>4, <1>7, <1>8, <1>13, <1>14, MovedStep

\* What a step of the router does: it neither begins nor ends the answer to a
\* request; it begins to gather; it asks the next server; or it answers a
\* client, on a, with what it received on b.
RouterMoves ==
    \/ Plain
    \/ rpc = "serve" /\ rpc' = "await" /\ Asks(0, << >>)
    \/ Gathering /\ Asks(ri + 1, Append(replies, ServerReply(server_sockets[ri])))
    \/ \E a, b, p :
           /\ a = client_sock /\ b = server_sockets[ri] /\ Passed(a, b, p)
           /\ rpc = "await" /\ rpc' = "serve" /\ Carried({a})
           /\ \/ /\ request.kind = "STORE" /\ p.body = ServerReply(b)
                 /\ AnswerIn(conns'[a]) =>
                        /\ AnswerIn(conns[b])
                        /\ Head(conns[b].inbox["init"]).body.kind = "DATA_STORED"
              \/ /\ Gathering /\ ri + 1 = NUM_SERVERS
                 /\ p.body = [kind |-> "LIST", parts |-> Append(replies, ServerReply(b))]

\* A step of the router.
LEMMA RouterLog ==
    ASSUME SysInv, CountInv, LogInv, RouterStep, UNCHANGED <<servervars, clientvars>>
    PROVE  LogInv' /\ Supply /\ RouterMoves
<1>1. ASSUME NEW how, NEW cs, AfterRecv(Router, cs), RouterDies(how, cs)
      PROVE  LogInv' /\ Supply /\ RouterMoves
  BY <1>1, RouterDeathLog DEF RouterMoves
<1>2. PICK a, b : a = client_sock /\ b = server_sockets[ri]
  OBVIOUS
<1>3. CASE RouterServe
  <2>1. rpc = "serve" /\ CanRecv(a, "resp")
    BY <1>2, <1>3 DEF RouterServe, RouterAt
  <2>2. PICK r, cs : r = Received(a, "resp").body /\ cs = Taken(a, "resp")
    OBVIOUS
  <2>3. a \in DOMAIN conns /\ Has(Router, conns[a], "resp")
    BY <1>2, <2>1, RouterRequest
  <2>4. AfterRecv(Router, cs)
    BY <2>2, <2>3 DEF AfterRecv, Ends
  <2>5. CASE /\ Readable(a, "resp") /\ r.kind = "RETRIEVE"
             /\ SendCommand(cs, 0, r, current_server, << >>)
    <3>1. PICK i, c, p : /\ i = 0 /\ c = server_sockets[i]
                         /\ p = DataPacket(cs, c, "init", r, CommandLen(r))
      OBVIOUS
    <3>2. p.body.kind = "RETRIEVE"
      BY <2>5, <3>1 DEF DataPacket
    <3>3. CASE /\ Communicate(Sent(cs, c, "init", p)) /\ ri' = i /\ replies' = << >>
               /\ rpc' = "await" /\ UNCHANGED <<server_sockets, client_sock>>
      <4>1. conns' = Sent(cs, c, "init", p) /\ UNCHANGED failed
        BY <3>3 DEF Communicate
      <4> QED
        BY <1>2, <2>1, <2>2, <3>1, <3>2, <3>3, <4>1, RouterRetrieveLog DEF RouterMoves
    <3> QED
      BY <1>1, <2>4, <2>5, <3>1, <3>3 DEF SendCommand
  <2>6. CASE /\ Readable(a, "resp") /\ r.kind = "STORE"
             /\ SendCommand(cs, current_server, r, NextServer(current_server), << >>)
    <3>1. PICK i, c, p : /\ i = current_server /\ c = server_sockets[i]
                         /\ p = DataPacket(cs, c, "init", r, CommandLen(r))
      OBVIOUS
    <3>2. p.body = r /\ i \in Servers /\ conns[a].inbox["resp"] # << >>
      BY <2>6, <3>1 DEF DataPacket, SysInv, RouterInv, Readable, AtEnd
    <3>3. CASE Communicate(Sent(cs, c, "init", p)) /\ request' = r
      <4>1. conns' = Sent(cs, c, "init", p) /\ UNCHANGED failed
        BY <3>3 DEF Communicate
      <4> QED
        BY <1>2, <2>1, <2>2, <2>6, <3>1, <3>2, <3>3, <4>1, RouterStoreLog DEF RouterMoves
    <3> QED
      BY <1>1, <2>4, <2>6, <3>1, <3>3 DEF SendCommand
  <2>7. CASE Communicate(Closed(cs, a, "resp")) /\ rpc' = "accept"
    BY <1>2, <2>1, <2>2, <2>7, RouterCloseLog DEF RouterMoves
  <2> QED
    BY <1>2, <1>3, <2>2, <2>5, <2>6, <2>7 DEF RouterServe
<1>4. CASE RouterReply
  <2>1. rpc = "await" /\ CanRecv(b, "init")
    BY <1>2, <1>4 DEF RouterReply, RouterAt
  <2>2. PICK reply, cs : reply = ServerReply(b) /\ cs = Taken(b, "init")
    OBVIOUS
  <2>3. ri \in Servers /\ b # NoConn
    BY <1>2, <2>1 DEF SysInv, RouterInv
  <2>4. b \in DOMAIN conns /\ Has(Router, conns[b], "init")
    BY <1>2, <2>3, RouterConn
  <2>5. AfterRecv(Router, cs)
    BY <2>2, <2>4 DEF AfterRecv, Ends
  <2>6. ASSUME NEW body, NEW len, AnswerClient(cs, body, len)
        PROVE  \E p : p.body = body /\ Passed(a, b, p) /\ rpc' = "serve" /\ UNCHANGED failed
    <3>1. PICK p : p = DataPacket(cs, a, "resp", body, len)
      OBVIOUS
    <3>2. p.body = body
      BY <3>1 DEF DataPacket
    <3>3. conns' = Sent(cs, a, "resp", p) /\ rpc' = "serve" /\ UNCHANGED failed
      BY <1>2, <2>6, <3>1 DEF AnswerClient, Communicate
    <3>4. Passed(a, b, p)
      BY <1>2, <2>1, <2>2, <3>3, AnswerPassed
    <3> QED
      BY <3>2, <3>3, <3>4
  <2>7. CASE request.kind = "STORE" /\ AnswerClient(cs, reply, ReplyLen(reply))
    <3>1. PICK p : p.body = reply /\ Passed(a, b, p) /\ rpc' = "serve" /\ UNCHANGED failed
      BY <2>6, <2>7
    <3>2. /\ LogInv' /\ Supply /\ Carried({a})
          /\ AnswerIn(conns'[a]) =>
                 AnswerIn(conns[b]) /\ Head(conns[b].inbox["init"]).body.kind = "DATA_STORED"
      BY <1>2, <2>1, <2>2, <2>7, <3>1, RouterAckLog
    <3> QED
      BY <1>2, <2>1, <2>2, <2>7, <3>1, <3>2 DEF RouterMoves
  <2>8. CASE /\ request.kind = "RETRIEVE" /\ ri + 1 < NUM_SERVERS
             /\ SendCommand(cs, ri + 1, request, current_server, Append(replies, reply))
    <3>1. PICK i, c, p : /\ i = ri + 1 /\ c = server_sockets[i]
                         /\ p = DataPacket(cs, c, "init", request, CommandLen(request))
      OBVIOUS
    <3>2. p.body.kind = "RETRIEVE" /\ Gathering
      BY <2>1, <2>8, <3>1 DEF DataPacket, Gathering
    <3>3. CASE /\ Communicate(Sent(cs, c, "init", p)) /\ ri' = i
               /\ replies' = Append(replies, reply)
               /\ UNCHANGED <<request, server_sockets, client_sock>>
      <4>1. conns' = Sent(cs, c, "init", p) /\ UNCHANGED failed
        BY <3>3 DEF Communicate
      <4> QED
        BY <1>2, <2>2, <2>8, <3>1, <3>2, <3>3, <4>1, RouterNextLog DEF RouterMoves
    <3> QED
      BY <1>1, <2>5, <2>8, <3>1, <3>3 DEF SendCommand
  <2>9. ASSUME request.kind = "RETRIEVE", ri + 1 = NUM_SERVERS, NEW answers,
               answers = Append(replies, reply), NEW len,
               AnswerClient(cs, [kind |-> "LIST", parts |-> answers], len)
        PROVE  LogInv' /\ Supply /\ RouterMoves
    <3>1. PICK body : body = [kind |-> "LIST", parts |-> answers]
      OBVIOUS
    <3>2. PICK p : p.body = body /\ Passed(a, b, p) /\ rpc' = "serve" /\ UNCHANGED failed
      BY <2>6, <2>9, <3>1
    <3>3. Gathering
      BY <2>1, <2>9 DEF Gathering
    <3>4. LogInv' /\ Supply /\ Carried({a})
      BY <1>2, <2>2, <2>9, <3>1, <3>2, <3>3, RouterListLog
    <3> QED
      BY <1>2, <2>1, <2>2, <2>9, <3>1, <3>2, <3>3, <3>4 DEF RouterMoves
  <2> QED
    BY <1>2, <1>4, <2>2, <2>7, <2>8, <2>9 DEF RouterReply
<1> QED
  BY <1>3, <1>4, RouterHelloLog DEF RouterStep, RouterMoves

\* A process is killed.
LEMMA KillLog ==
    ASSUME SysInv, CountInv, LogInv, NEW p \in Procs, Kill(p)
    PROVE  LogInv' /\ Supply /\ Plain
<1>1. CASE p \in Servers /\ KillServer(p)
  BY <1>1, ServerDeathLog DEF KillServer
<1>2. CASE p = Router /\ KillRouter
  <2>1. AfterRecv(Router, conns)
    BY DEF AfterRecv
  <2> QED
    BY <1>2, <2>1, RouterDeathLog DEF KillRouter
<1>3. CASE p \in Clients /\ KillClient(p)
  <2>1. AfterRecv(p, conns)
    BY DEF AfterRecv
  <2> QED
    BY <1>3, <2>1, ClientRecvDeathLog DEF KillClient
<1> QED
  BY <1>1, <1>2, <1>3 DEF Kill

\* A process is started again, or nothing happens.
LEMMA RestartLog ==
    ASSUME SysInv, CountInv, LogInv, Restart \/ UNCHANGED vars
    PROVE  LogInv' /\ Supply /\ Plain
<1>1. /\ UNCHANGED <<conns, failed, chain, allocFails, cmd, sent, acked, known>>
      /\ UNCHANGED <<rpc, ri, request, replies, server_sockets, client_sock>>
  BY DEF Restart, ServerStart, RouterStart, Begin, vars, netvars, servervars,
         routervars, clientvars
<1>2. Quiet({}) /\ WantKept({}) /\ ChainsKept /\ KnownDrops
  BY <1>1, QuietSame, WantsStay, ChainsStay DEF KnownDrops
<1>3. GatherKept
  BY <1>1, GatherAway
<1> QED
  BY <1>1, <1>2, <1>3, QuietStep

\* Every step keeps what the shards hold and what users are told in accord.
LEMMA NextLog == SysInv /\ CountInv /\ LogInv /\ [Next]_vars => LogInv' /\ Supply
<1> SUFFICES ASSUME SysInv, CountInv, LogInv, [Next]_vars PROVE LogInv' /\ Supply
  OBVIOUS
<1>1. ASSUME NEW s \in Servers, ServerRuns(s)
      PROVE  LogInv' /\ Supply
  BY <1>1, ServerLog DEF ServerRuns
<1>2. CASE RouterRuns
  BY <1>2, RouterLog DEF RouterRuns
<1>3. ASSUME NEW k \in Clients, ClientRuns(k) \/ UserActs(k)
      PROVE  LogInv' /\ Supply
  BY <1>3, ClientLog DEF ClientRuns, UserActs
<1> QED
  BY <1>1, <1>2, <1>3, KillLog, RestartLog DEF Next

\* To begin with there is nothing in the shards, and nothing on its way.
LEMMA InitLog == Init => LogInv
<1> SUFFICES ASSUME Init PROVE LogInv
  OBVIOUS
<1> USE DEF Init, NetInit, ServerInit, RouterInit, ClientInit
<1>1. DOMAIN conns = {} /\ rpc = "connect" /\ allocFails = 0
  OBVIOUS
<1>2. \A d : Waiting(d) = {} /\ Acks(d) = {}
  BY <1>1 DEF Waiting, Acks
<1>3. \A d : Copies(chain, d) = {}
  <2>1. \A s \in Servers : chain[s] = << >>
    OBVIOUS
  <2>2. DOMAIN << >> = {}
    OBVIOUS
  <2> QED
    BY <2>1, <2>2 DEF Copies
<1>4. IsFiniteSet({}) /\ Cardinality({}) = 0
  BY FS_EmptySet
<1>5. \A d \in Data : sent[d] = 0 /\ acked[d] = 0
  BY DEF Nothing
<1>6. Room({}, {}, 0) /\ Backed(0, {}, {}, 0)
  BY ONLY <1>4 DEF Room, Backed
<1>7. SentInv /\ AckInv
  BY ONLY <1>1, <1>2, <1>3, <1>5, <1>6 DEF SentInv, AckInv
<1>8. KnownInv
  BY DEF KnownInv, Nothing
<1>9. GatherInv
  BY <1>1 DEF GatherInv, Gathering
<1>10. ListInv
  BY <1>1 DEF ListInv
<1> QED
  BY <1>7, <1>8, <1>9, <1>10 DEF LogInv

\* So they are always in accord.
LEMMA SystemLog == Spec => [](SysInv /\ CountInv /\ LogInv)
<1>1. Init => CountInv /\ LogInv
  BY InitCountInv, InitLog
<1>2. SysInv /\ (CountInv /\ LogInv) /\ [Next]_vars => (CountInv /\ LogInv)'
  BY NextCountInv, NextLog
<1> QED
  BY <1>1, <1>2, SystemInvariant, PTL DEF Spec

\* The blocks and the acknowledgements.
LEMMA BackedAcks == SentInv /\ AckInv => AckedAreStored
<1> SUFFICES ASSUME SentInv, AckInv, NoneFailed, NEW d \in Data
             PROVE  acked[d] <= StoredCount(d) + allocFails /\ StoredCount(d) <= sent[d]
  BY DEF AckedAreStored, NoneFailed
<1>1. PICK A, W, K, n, all, lost :
          /\ A = Copies(chain, d) /\ W = Waiting(d) /\ K = Acks(d)
          /\ n = acked[d] /\ all = sent[d] /\ lost = allocFails
  OBVIOUS
<1>2. Room(A, W, all) /\ Backed(n, K, A, lost)
  BY <1>1 DEF SentInv, AckInv
<1>3. /\ IsFiniteSet(A) /\ IsFiniteSet(W) /\ IsFiniteSet(K)
      /\ n \in Nat /\ all \in Nat /\ lost \in Nat
      /\ Cardinality(A) + Cardinality(W) <= all
      /\ n + Cardinality(K) <= Cardinality(A) + lost
  BY <1>2 DEF Room, Backed
<1>4. Cardinality(A) \in Nat /\ Cardinality(W) \in Nat /\ Cardinality(K) \in Nat
  BY <1>3, FS_CardinalityType
<1>5. n <= Cardinality(A) + lost /\ Cardinality(A) <= all
  BY <1>3, <1>4
<1> QED
  BY <1>1, <1>5 DEF StoredCount

\* The list that a client reads.
LEMMA ListsCurrent == SysInv /\ ListInv => (allocFails = 0 => RetrieveIsCurrent)
<1> SUFFICES ASSUME SysInv, ListInv, allocFails = 0, NEW k \in Clients,
                    cpc[k] = "await", cmd[k].kind = "RETRIEVE", ~AtEnd(sockfd[k], "init"),
                    NEW parts, parts = Received(sockfd[k], "init").body.parts,
                    NEW d \in Data
             PROVE  /\ ListedCount(parts, d) <= sent[d]
                    /\ Complete(parts) /\ failed \cap Servers = {} =>
                           known[k][d] <= ListedCount(parts, d)
  BY DEF RetrieveIsCurrent
<1>1. PICK c : c = sockfd[k]
  OBVIOUS
<1>2. c # NoConn
  BY <1>1 DEF SysInv, ClientInv
<1>3. /\ c \in DOMAIN conns /\ conns[c].who["init"] = k /\ k # Router
      /\ Exchange("await", RespPhase(c), conns[c], cmd[k], request, failed)
  BY <1>1, <1>2, ClientConn
<1>4. conns[c].inbox["init"] # << >> /\ parts = Head(conns[c].inbox["init"]).body.parts
  BY <1>1 DEF AtEnd, Received
<1>5. OneAnswer(conns[c].inbox["init"], k, cmd[k])
  BY <1>3, <1>4, ExchangeReads
<1>6. Head(conns[c].inbox["init"]).body.kind = "LIST"
  BY <1>3, <1>5 DEF OneAnswer, IsAnswer, AnswersCommand
<1>7. ListIn(conns[c])
  BY <1>4, <1>6 DEF ListIn, AnswerIn
<1>8. IsCurrent(parts, known[k], sent, Lossless)
  BY <1>3, <1>4, <1>7 DEF ListInv
<1>9. PICK A, all : A = Copies(Listed(parts), d) /\ all = sent[d]
  OBVIOUS
<1>10. Room(A, {}, all) /\ (Lossless /\ Complete(parts) => known[k][d] <= Cardinality(A))
  BY <1>8, <1>9 DEF IsCurrent
<1>11. Cardinality(A) <= all
  <2>1. IsFiniteSet(A) /\ all \in Nat /\ Cardinality(A) + Cardinality({}) <= all
    BY <1>10 DEF Room
  <2>2. Cardinality(A) \in Nat /\ Cardinality({}) = 0
    BY <2>1, FS_CardinalityType, FS_EmptySet
  <2> QED
    BY <2>1, <2>2
<1>12. ListedCount(parts, d) = Cardinality(A)
  BY <1>9 DEF ListedCount, Listed
<1> QED
  BY <1>9, <1>10, <1>11, <1>12 DEF Lossless, NoneFailed

\* While no server failed, what a client read DATA_STORED for is in the shards,
\* less at most one payload for each malloc that failed in store_data; and
\* nothing is in them twice that was sent once.
THEOREM SystemAckedAreStored == Spec => []AckedAreStored
<1>1. SysInv /\ CountInv /\ LogInv => AckedAreStored
  BY BackedAcks DEF LogInv
<1> QED
  BY <1>1, SystemLog, PTL

\* A list that a client reads for a retrieve shows everything that had been
\* acknowledged when it asked, if every server answered, none failed and no
\* malloc failed in store_data; and it shows nothing more often than it was
\* sent.
THEOREM SystemRetrieveIsCurrent == Spec => [](allocFails = 0 => RetrieveIsCurrent)
<1>1. SysInv /\ CountInv /\ LogInv => (allocFails = 0 => RetrieveIsCurrent)
  BY ListsCurrent DEF LogInv
<1> QED
  BY <1>1, SystemLog, PTL

-----------------------------------------------------------------------------
(***************************************************************************)
(* The sharded store: what the history variables of SystemStore say.       *)
(***************************************************************************)

(***************************************************************************)
(* What was performed and what waits is no more than was sent.             *)
(***************************************************************************)
PerformedInv ==
    \A d \in Data : Room(1 .. performed[d], Waiting(d), sent[d])

(***************************************************************************)
(* An acknowledgement, on its way to the router or to client k, is of a    *)
(* store that was performed.                                               *)
(***************************************************************************)
AckIn(k) == AnswerIn(k) /\ Head(k.inbox["init"]).body.kind = "DATA_STORED"

AckFor(k, c) ==
    \/ conns[c].who["init"] = k
    \/ conns[c].who["init"] = Router /\ client_sock = sockfd[k]

DoneAt(c) == \A k \in Clients : AckIn(conns[c]) /\ AckFor(k, c) => done[k]
DoneInv == \A c \in DOMAIN conns : DoneAt(c)

(***************************************************************************)
(* The view of client k is of the moment when the router began to serve    *)
(* its retrieve: there is none before; then every server that answered     *)
(* showed what is in the view, or refused, and every server that will      *)
(* answer still holds it; and then the list is of it.                      *)
(***************************************************************************)
AskedInv ==
    \A k \in Clients :
        cpc[k] = "await" /\ conns[sockfd[k]].inbox["resp"] # << >> => view[k] = NoView

ShowsOf(reply, data) == Shows(reply) => Payloads(reply.blocks) = data

ViewOf(s, data) ==
    IF s < ri THEN ShowsOf(replies[s + 1], data)
    ELSE IF s = ri /\ Came THEN ShowsOf(CameBody, data)
    ELSE ssock[s] = server_sockets[s] => Payloads(chain[s]) = data

ViewAt(k) == DOMAIN view[k] = Servers /\ \A s \in Servers : ViewOf(s, view[k][s])

ViewInv == Gathering => \A k \in Clients : client_sock = sockfd[k] => ViewAt(k)

ShowsAll(list, data) ==
    DOMAIN data = Servers /\ \A s \in Servers : ShowsOf(list[s + 1], data[s])

ListedAt(c) ==
    ListIn(conns[c]) =>
        \A k \in Clients :
            k = conns[c].who["init"] =>
                ShowsAll(Head(conns[c].inbox["init"]).body.parts, view[k])
ListedInv == \A c \in DOMAIN conns : ListedAt(c)

\* What the history variables say of the commands of their clients.
OwnInv ==
    /\ DOMAIN performed = Data /\ performed = [d \in Data |-> performed[d]]
    /\ \A d \in Data : performed[d] \in Nat
    /\ done \in [Clients -> BOOLEAN]
    /\ told = [k \in Clients |-> told[k]]
    /\ \A k \in Clients :
           /\ done[k] => cmd[k].kind = "STORE"
           /\ cmd[k].kind # "RETRIEVE" => view[k] = NoView
           /\ cmd[k] # NoCommand => told[k] = NoAnswer

HistInv ==
    OwnInv /\ PerformedInv /\ DoneInv /\ AskedInv /\ ViewInv /\ ListedInv

-----------------------------------------------------------------------------
\* A client whose command the router serves waits, and nothing is on its
\* connection.
ServedNow ==
    rpc = "await" =>
        \A k \in Clients :
            client_sock = sockfd[k] =>
                /\ cpc[k] = "await" /\ cmd[k] = request
                /\ client_sock \in DOMAIN conns /\ conns[client_sock].who["init"] = k
                /\ conns[sockfd[k]].inbox["resp"] = << >>
                /\ conns[sockfd[k]].inbox["init"] = << >>

\* A client that waits has a connection to the router, and the router serves
\* the one with a request on it.
AskingNow ==
    \A k \in Clients :
        cpc[k] = "await" =>
            /\ sockfd[k] # NoConn /\ sockfd[k] \in DOMAIN conns
            /\ conns[sockfd[k]].who["init"] = k
            /\ conns[sockfd[k]].who["resp"] = Router
            /\ conns[sockfd[k]].open["init"]
            /\ conns[sockfd[k]].inbox["resp"] # << >> =>
                   rpc = "serve" /\ client_sock = sockfd[k]

\* An answer on its way to the router, or to a client.
AnswerNow ==
    \A c \in DOMAIN conns :
        AnswerIn(conns[c]) =>
            /\ conns[c].who["init"] = Router =>
                   /\ rpc = "await" /\ c = server_sockets[ri]
                   /\ conns[c].who["resp"] = ri /\ InitPhase(c) = "await"
            /\ conns[c].who["init"] # Router =>
                   /\ conns[c].who["init"] \in Clients /\ c = sockfd[conns[c].who["init"]]
                   /\ cpc[conns[c].who["init"]] = "await"

\* The router serves a client that waits, with nothing on its connection.
LEMMA Served == SysInv => ServedNow
<1> SUFFICES ASSUME SysInv, rpc = "await", NEW k \in Clients, client_sock = sockfd[k]
             PROVE  /\ cpc[k] = "await" /\ cmd[k] = request
                    /\ client_sock \in DOMAIN conns
                    /\ conns[client_sock].who["init"] = k
                    /\ conns[sockfd[k]].inbox["resp"] = << >>
                    /\ conns[sockfd[k]].inbox["init"] = << >>
  BY DEF ServedNow
<1>1. client_sock # NoConn /\ sockfd[k] # NoConn
  BY DEF SysInv, RouterInv
<1>2. PICK a : a = client_sock
  OBVIOUS
<1>3. RespPhase(a) = "busy" /\ a \in DOMAIN conns
  BY <1>1, <1>2, RouterServes DEF RespPc
<1>4. /\ conns[a].who["init"] = k
      /\ Exchange(cpc[k], "busy", conns[a], cmd[k], request, failed)
  BY <1>1, <1>2, <1>3, ClientConn
<1>5. cpc[k] # "gone"
  BY DEF SysInv, ClientInv
<1> QED
  BY <1>2, <1>3, <1>4, <1>5 DEF Exchange, Talking

\* A request that waits for the router is on the connection it serves.
LEMMA Asking == SysInv => AskingNow
<1> SUFFICES ASSUME SysInv, NEW k \in Clients, cpc[k] = "await"
             PROVE  /\ sockfd[k] # NoConn /\ sockfd[k] \in DOMAIN conns
                    /\ conns[sockfd[k]].who["init"] = k
                    /\ conns[sockfd[k]].who["resp"] = Router
                    /\ conns[sockfd[k]].open["init"]
                    /\ conns[sockfd[k]].inbox["resp"] # << >> =>
                           rpc = "serve" /\ client_sock = sockfd[k]
  BY DEF AskingNow
<1>1. sockfd[k] # NoConn
  BY DEF SysInv, ClientInv
<1>2. PICK a : a = sockfd[k]
  OBVIOUS
<1>3. /\ a \in DOMAIN conns /\ conns[a].who["init"] = k /\ conns[a].who["resp"] = Router
      /\ conns[a].open["init"]
  BY <1>1, <1>2, AtClient
<1>4. Exchange("await", RespPhase(a), conns[a], cmd[k], request, failed)
  BY <1>1, <1>2, ClientConn
<1>5. ASSUME conns[a].inbox["resp"] # << >>
      PROVE  rpc = "serve" /\ client_sock = a
  <2>1. RespPhase(a) = "serve"
    BY <1>4, <1>5 DEF Exchange, Talking, Deserted
  <2>2. RespSock(Router) = client_sock /\ RespPc(Router) = IF rpc = "await" THEN "busy" ELSE rpc
    BY DEF RespSock, RespPc
  <2>3. client_sock = a /\ RespPc(Router) = "serve"
    BY <1>3, <2>1, <2>2 DEF RespPhase
  <2> QED
    BY <2>2, <2>3
<1> QED
  BY <1>1, <1>2, <1>3, <1>5

\* Answers are where somebody waits for them.
LEMMA Answering == SysInv => AnswerNow
<1> SUFFICES ASSUME SysInv, NEW c \in DOMAIN conns, AnswerIn(conns[c]),
                    NEW i, i = conns[c].who["init"]
             PROVE  /\ i = Router =>
                           /\ rpc = "await" /\ c = server_sockets[ri]
                           /\ conns[c].who["resp"] = ri /\ InitPhase(c) = "await"
                    /\ i # Router => i \in Clients /\ c = sockfd[i] /\ cpc[i] = "await"
  BY DEF AnswerNow
<1> QED
  BY AnswerAwaits

\* The same after a step that keeps the invariant.
LEMMA AfterStep ==
    ASSUME SysInv'
    PROVE  ServedNow' /\ AskingNow' /\ AnswerNow'
<1>1. ServedNow'
  BY Served, PTL
<1>2. AskingNow'
  BY Asking, PTL
<1>3. AnswerNow'
  BY Answering, PTL
<1> QED
  BY <1>1, <1>2, <1>3

-----------------------------------------------------------------------------
(***************************************************************************)
(* The router works on for the client it serves.                           *)
(***************************************************************************)
Stays ==
    rpc' = "await" =>
        /\ rpc \in {"serve", "await"} /\ client_sock' = client_sock
        /\ rpc = "serve" => /\ UNCHANGED clientvars
                            /\ conns[client_sock].inbox["resp"] # << >>
        /\ \A k \in Clients : client_sock' = sockfd'[k] => client_sock = sockfd[k]

\* A step of the router.
LEMMA RouterStays ==
    ASSUME SysInv, RouterStep, UNCHANGED <<servervars, clientvars>>
    PROVE  Stays
<1> SUFFICES ASSUME rpc' = "await"
             PROVE  /\ rpc \in {"serve", "await"} /\ client_sock' = client_sock
                    /\ rpc = "serve" => conns[client_sock].inbox["resp"] # << >>
  BY DEF Stays, clientvars
<1>1. RouterServe \/ RouterReply
  BY DEF RouterStep, RouterConnect, RouterSendHello, RouterRecvHello, RouterAccept,
         RouterHandshake, RouterDies, RouterGone
<1>2. CASE RouterServe
  <2>1. rpc = "serve" /\ Readable(client_sock, "resp") /\ client_sock' = client_sock
    BY <1>2 DEF RouterServe, RouterAt, SendCommand, RouterDies, RouterGone
  <2> QED
    BY <2>1 DEF Readable, AtEnd
<1>3. CASE RouterReply
  BY <1>3 DEF RouterReply, RouterAt, SendCommand, RouterDies, RouterGone, AnswerClient
<1> QED
  BY <1>1, <1>2, <1>3

\* Steps of others: a new connection of a client is not one the router serves.
LEMMA OthersStay ==
    ASSUME SysInv, UNCHANGED <<rpc, client_sock>>,
           \A k \in Clients :
               sockfd'[k] \in {sockfd[k], NoConn} \/ sockfd'[k] \notin DOMAIN conns
    PROVE  rpc # "serve" => Stays
<1> SUFFICES ASSUME rpc = "await"
             PROVE  \A k \in Clients : client_sock' = sockfd'[k] => client_sock = sockfd[k]
  BY DEF Stays
<1>1. client_sock # NoConn
  BY DEF SysInv, RouterInv
<1>2. client_sock \in DOMAIN conns
  BY <1>1, RouterServes
<1> QED
  BY <1>1, <1>2

\* The sockets of the clients after a step of client k.
LEMMA ClientSockets ==
    ASSUME SysInv, NEW k \in Clients, ClientStep(k) \/ UserStep(k) \/ KillClient(k)
    PROVE  \A j \in Clients :
               /\ sockfd'[j] \in {sockfd[j], NoConn} \/ sockfd'[j] \notin DOMAIN conns
               /\ j # k => sockfd'[j] = sockfd[j] /\ cmd'[j] = cmd[j] /\ cpc'[j] = cpc[j]
<1>1. /\ sockfd = [j \in Clients |-> sockfd[j]] /\ DOMAIN cmd = Clients
      /\ cpc = [j \in Clients |-> cpc[j]]
  BY DEF SysInv, ClientInv
<1>2. ASSUME NEW how, NEW cs, ClientDies(k, how, cs)
      PROVE  \A j \in Clients :
               /\ sockfd'[j] \in {sockfd[j], NoConn}
               /\ j # k => sockfd'[j] = sockfd[j] /\ cmd'[j] = cmd[j] /\ cpc'[j] = cpc[j]
  BY <1>1, <1>2 DEF ClientDies, ClientGone
<1>3. CASE ClientConnect(k)
  <2>1. CASE /\ FreeConns # {} /\ UNCHANGED cmd
             /\ sockfd' = [sockfd EXCEPT ![k] = FreshConn]
             /\ cpc' = [cpc EXCEPT ![k] = "connected"]
    <3>1. PICK c : c = FreshConn
      OBVIOUS
    <3>2. c \notin DOMAIN conns
      <4>1. <<k, Router>> \in Links
        BY DEF Links
      <4> QED
        BY <2>1, <3>1, <4>1, ConnectedEffect
    <3> QED
      BY <1>1, <2>1, <3>1, <3>2
  <2> QED
    BY <1>2, <1>3, <2>1 DEF ClientConnect
<1>4. CASE ClientSendHello(k) \/ ClientRecvHello(k)
  BY <1>1, <1>2, <1>4 DEF ClientSendHello, ClientRecvHello
<1>5. ASSUME NEW r, NEW now, ClientSend(k, r, now)
      PROVE  \A j \in Clients :
               /\ sockfd'[j] \in {sockfd[j], NoConn}
               /\ j # k => sockfd'[j] = sockfd[j] /\ cmd'[j] = cmd[j] /\ cpc'[j] = cpc[j]
  BY <1>1, <1>2, <1>5 DEF ClientSend
<1>6. CASE ClientReceive(k)
  BY <1>1, <1>6 DEF ClientReceive
<1>7. CASE ClientExit(k) \/ KillClient(k)
  BY <1>2, <1>7 DEF ClientExit, KillClient
<1> QED
  BY <1>3, <1>4, <1>5, <1>6, <1>7
  DEF ClientStep, UserStep, ClientStore, ClientRetrieve

\* So the router works on for its client in every step.
LEMMA NextStays ==
    ASSUME SysInv, Next
    PROVE  Stays
<1>1. ASSUME UNCHANGED <<rpc, client_sock>>,
             \A k \in Clients :
                 sockfd'[k] \in {sockfd[k], NoConn} \/ sockfd'[k] \notin DOMAIN conns
      PROVE  Stays
  <2>1. rpc = "serve" => Stays
    BY <1>1 DEF Stays
  <2> QED
    BY <1>1, <2>1, OthersStay
<1>2. ASSUME NEW s \in Servers, ServerRuns(s)
      PROVE  Stays
  BY <1>1, <1>2 DEF ServerRuns, routervars, clientvars
<1>3. CASE RouterRuns
  BY <1>3, RouterStays DEF RouterRuns
<1>4. ASSUME NEW k \in Clients, ClientRuns(k) \/ UserActs(k)
      PROVE  Stays
  BY <1>1, <1>4, ClientSockets DEF ClientRuns, UserActs, routervars
<1>5. ASSUME NEW p \in Procs, Kill(p)
      PROVE  Stays
  <2>1. CASE KillServer(p)
    BY <1>1, <2>1 DEF KillServer, routervars, clientvars
  <2>2. CASE KillRouter
    BY <2>2 DEF KillRouter, RouterDies, RouterGone, Stays
  <2>3. CASE p \in Clients /\ KillClient(p)
    <3>1. UNCHANGED <<rpc, client_sock>>
      BY <2>3 DEF KillClient, routervars
    <3> QED
      BY <1>1, <2>3, <3>1, ClientSockets
  <2> QED
    BY <1>5, <2>1, <2>2, <2>3 DEF Kill
<1>6. CASE Restart
  BY <1>1, <1>6 DEF Restart, RouterStart, routervars, clientvars
<1> QED
  BY <1>2, <1>3, <1>4, <1>5, <1>6 DEF Next

-----------------------------------------------------------------------------
\* A send, a close or a recv on connection c leaves the others alone.
LEMMA SentElsewhere ==
    ASSUME NEW cs, NEW c, NEW a \in DOMAIN cs, a # c, NEW e, NEW p
    PROVE  a \in DOMAIN Sent(cs, c, e, p) /\ Sent(cs, c, e, p)[a] = cs[a]
  BY DEF Sent

\* The same for close.
LEMMA ClosedElsewhere ==
    ASSUME NEW cs, NEW c, NEW a \in DOMAIN cs, a # c, NEW e
    PROVE  a \in DOMAIN Closed(cs, c, e) /\ Closed(cs, c, e)[a] = cs[a]
  BY DEF Closed

\* The same for a new key.
LEMMA KeyElsewhere ==
    ASSUME NEW cs, NEW c, NEW a \in DOMAIN cs, a # c, NEW e, NEW key
    PROVE  a \in DOMAIN WithKey(cs, c, e, key) /\ WithKey(cs, c, e, key)[a] = cs[a]
  BY DEF WithKey

\* The same for recv.
LEMMA TakenElsewhere ==
    ASSUME NEW c, NEW a \in DOMAIN conns, a # c, NEW e
    PROVE  a \in DOMAIN Taken(c, e) /\ Taken(c, e)[a] = conns[a]
  BY DEF Taken

\* The end of process p leaves alone the connections on which it has no end.
LEMMA EndElsewhere ==
    ASSUME NEW cs, NEW p, NEW a \in DOMAIN cs, \A e \in Ends : cs[a].who[e] # p
    PROVE  Orphaned(cs, p)[a] = cs[a]
  BY DEF Orphaned, HasOpen

\* A step of server s leaves alone the connections of the clients.
LEMMA ServerLeaves ==
    ASSUME SysInv, NEW s \in Servers, ServerStep(s) \/ KillServer(s),
           NEW k \in Clients, sockfd[k] # NoConn
    PROVE  conns'[sockfd[k]] = conns[sockfd[k]]
<1>1. PICK a, c : a = sockfd[k] /\ c = ssock[s]
  OBVIOUS
<1> SUFFICES conns'[a] = conns[a]
  BY <1>1
<1>2. /\ a \in DOMAIN conns /\ conns[a].who["init"] = k /\ conns[a].who["resp"] = Router
      /\ a # NoConn
  BY <1>1, AtClient
<1>3. s # Router /\ s # k
  BY NetAssumption DEF Servers
<1>4. a # c
  BY <1>1, <1>2, <1>3, AtServer
<1>5. PICK cs : cs = Taken(c, "resp")
  OBVIOUS
<1>6. a \in DOMAIN cs /\ cs[a] = conns[a]
  BY <1>2, <1>4, <1>5, TakenElsewhere
<1>7. ASSUME NEW how, End(s, how, conns)
      PROVE  conns'[a] = conns[a]
  BY <1>2, <1>3, <1>7, EndsOf, EndElsewhere DEF End
<1>8. ASSUME NEW key, conns' = Answered(c, key)
      PROVE  conns'[a] = conns[a]
  <2>1. PICK r : r = WithKey(cs, c, "resp", key)
    OBVIOUS
  <2>2. a \in DOMAIN r /\ r[a] = conns[a]
    BY <1>4, <1>6, <2>1, KeyElsewhere
  <2>3. conns' = Sent(r, c, "resp", ServerHello(key))
    BY <1>5, <1>8, <2>1 DEF Answered
  <2> QED
    BY <1>4, <2>2, <2>3, SentElsewhere
<1>9. ASSUME NEW reply, conns' = Responded(s, reply)
      PROVE  conns'[a] = conns[a]
  <2>1. PICK p : p = DataPacket(cs, c, "resp", reply, ReplyLen(reply))
    OBVIOUS
  <2>2. conns' = Sent(cs, c, "resp", p)
    BY <1>1, <1>5, <1>9, <2>1 DEF Responded
  <2> QED
    BY <1>4, <1>6, <2>2, SentElsewhere
<1>10. CASE ServerAccept(s)
  BY <1>1, <1>10 DEF ServerAccept, Accept
<1>11. CASE ServerHandshake(s)
  BY <1>1, <1>7, <1>8, <1>11 DEF ServerHandshake, Communicate
<1>12. CASE ServerServe(s)
  <2>1. CASE conns' = Closed(cs, c, "resp")
    BY <1>4, <1>6, <2>1, ClosedElsewhere
  <2> QED
    BY <1>1, <1>5, <1>9, <1>12, <2>1
    DEF ServerServe, ServerRetrieve, ServerStore, Communicate
<1>13. CASE KillServer(s)
  BY <1>1, <1>7, <1>13 DEF KillServer
<1> QED
  BY <1>1, <1>10, <1>11, <1>12, <1>13 DEF ServerStep

\* A step of client j leaves alone the connections of the others.
LEMMA ClientLeaves ==
    ASSUME SysInv, NEW j \in Clients, ClientStep(j) \/ UserStep(j) \/ KillClient(j),
           NEW k \in Clients \ {j}, sockfd[k] # NoConn
    PROVE  conns'[sockfd[k]] = conns[sockfd[k]]
<1>1. PICK a, c : a = sockfd[k] /\ c = sockfd[j]
  OBVIOUS
<1> SUFFICES conns'[a] = conns[a]
  BY <1>1
<1>2. /\ a \in DOMAIN conns /\ conns[a].who["init"] = k /\ conns[a].who["resp"] = Router
      /\ a # NoConn
  BY <1>1, AtClient
<1>3. j # Router
  BY NetAssumption
<1>4. a # c
  BY <1>1, <1>2, AtClient
<1>5. PICK cs : cs = Taken(c, "init")
  OBVIOUS
<1>6. a \in DOMAIN cs /\ cs[a] = conns[a]
  BY <1>2, <1>4, <1>5, TakenElsewhere
<1>7. ASSUME NEW how, NEW r, a \in DOMAIN r, r[a] = conns[a], ClientDies(j, how, r)
      PROVE  conns'[a] = conns[a]
  BY <1>2, <1>3, <1>7, EndsOf, EndElsewhere DEF End, ClientDies
<1>8. CASE ClientConnect(j)
  <2>1. CASE FreeConns # {} /\ conns' = Connected(j, Router)
    <3>1. <<j, Router>> \in Links
      BY DEF Links
    <3> QED
      BY <1>2, <2>1, <3>1, ConnectedEffect
  <2> QED
    BY <1>2, <1>7, <1>8, <2>1 DEF ClientConnect
<1>9. CASE ClientSendHello(j)
  <2>1. CASE conns' = Sent(conns, c, "init", ClientHello)
    BY <1>2, <1>4, <2>1, SentElsewhere
  <2> QED
    BY <1>1, <1>2, <1>7, <1>9, <2>1 DEF ClientSendHello, Communicate
<1>10. CASE ClientRecvHello(j)
  <2>1. HelloReceived(c)[a] = conns[a]
    <3>1. CASE AtEnd(c, "init")
      BY <3>1 DEF HelloReceived
    <3>2. CASE ~AtEnd(c, "init")
      BY <1>4, <1>5, <1>6, <3>2, KeyElsewhere DEF HelloReceived
    <3> QED
      BY <3>1, <3>2
  <2>2. CASE conns' = HelloReceived(c)
    BY <2>1, <2>2
  <2> QED
    BY <1>1, <1>5, <1>6, <1>7, <1>10, <2>2 DEF ClientRecvHello, Communicate
<1>11. ASSUME NEW r, NEW now, ClientSend(j, r, now)
       PROVE  conns'[a] = conns[a]
  <2>1. CASE conns' = Sent(conns, c, "init", RequestPacket(j, r))
    BY <1>2, <1>4, <2>1, SentElsewhere
  <2> QED
    BY <1>1, <1>2, <1>7, <1>11, <2>1 DEF ClientSend, Communicate
<1>12. CASE ClientReceive(j)
  <2>1. CASE conns' = cs
    BY <1>6, <2>1
  <2>2. CASE conns' = Closed(cs, c, "init")
    BY <1>4, <1>6, <2>2, ClosedElsewhere
  <2> QED
    BY <1>1, <1>5, <1>12, <2>1, <2>2 DEF ClientReceive, Communicate
<1>13. CASE ClientExit(j)
  <2>1. ASSUME NEW p, ClientDies(j, "exit", Sent(conns, c, "init", p))
        PROVE  conns'[a] = conns[a]
    <3>1. PICK r : r = Sent(conns, c, "init", p)
      OBVIOUS
    <3>2. a \in DOMAIN r /\ r[a] = conns[a]
      BY <1>2, <1>4, <3>1, SentElsewhere
    <3> QED
      BY <1>7, <2>1, <3>1, <3>2
  <2> QED
    BY <1>1, <1>2, <1>7, <1>13, <2>1 DEF ClientExit
<1>14. CASE KillClient(j)
  BY <1>2, <1>7, <1>14 DEF KillClient
<1> QED
  BY <1>1, <1>8, <1>9, <1>10, <1>11, <1>12, <1>13, <1>14
  DEF ClientStep, UserStep, ClientStore, ClientRetrieve

\* A client that waits before and after a step takes no step itself.
LEMMA WaitingClient ==
    ASSUME SysInv, NEW k \in Clients, ClientStep(k) \/ UserStep(k) \/ KillClient(k),
           cpc[k] = "await", cpc'[k] = "await"
    PROVE  FALSE
<1>1. cpc \in [Clients -> {"off", "connected", "server_hello", "idle", "await"}]
  BY DEF SysInv, ClientInv
<1>2. life[k] = "up"
  BY DEF SysInv, ClientInv
<1>3. ASSUME NEW how, NEW cs, ClientDies(k, how, cs)
      PROVE  FALSE
  BY <1>1, <1>3 DEF ClientDies, ClientGone
<1>4. CASE KillClient(k)
  BY <1>3, <1>4 DEF KillClient
<1>5. ~ClientConnect(k) /\ ~ClientSendHello(k) /\ ~ClientRecvHello(k) /\ ~ClientExit(k)
  BY <1>2 DEF ClientConnect, ClientSendHello, ClientRecvHello, ClientExit, ClientAt
<1>6. \A r, now : ~ClientSend(k, r, now)
  BY DEF ClientSend, ClientAt
<1>7. ~ClientReceive(k)
  BY <1>1 DEF ClientReceive
<1> QED
  BY <1>4, <1>5, <1>6, <1>7 DEF ClientStep, UserStep, ClientStore, ClientRetrieve

\* The router begins to listen to its client: it made the key exchange, or
\* answered it.
LEMMA RouterListens ==
    ASSUME SysInv, RouterStep, rpc' = "serve"
    PROVE  /\ client_sock' = client_sock
           /\ rpc = "client_hello" \/ conns'[client_sock].inbox["resp"] = << >>
<1>1. RouterHandshake \/ RouterReply
  BY DEF RouterStep, RouterConnect, RouterSendHello, RouterRecvHello, RouterAccept,
         RouterServe, SendCommand, RouterDies, RouterGone
<1>2. CASE RouterHandshake
  BY <1>2 DEF RouterHandshake, RouterAt, RouterDies, RouterGone
<1>3. CASE RouterReply
  <2>1. PICK a, b, cs : a = client_sock /\ b = server_sockets[ri] /\ cs = Taken(b, "init")
    OBVIOUS
  <2>2. rpc = "await"
    BY <1>3 DEF RouterReply, RouterAt
  <2>3. PICK body, len : AnswerClient(cs, body, len)
    BY <1>3, <2>1 DEF RouterReply, SendCommand, RouterDies, RouterGone
  <2>4. PICK p : p = DataPacket(cs, a, "resp", body, len)
    OBVIOUS
  <2>5. conns' = Sent(cs, a, "resp", p) /\ client_sock' = client_sock
    BY <2>1, <2>3, <2>4 DEF AnswerClient, Communicate
  <2>6. Passed(a, b, p)
    BY <2>1, <2>2, <2>5, AnswerPassed
  <2> QED
    BY <2>1, <2>5, <2>6 DEF Passed
<1> QED
  BY <1>1, <1>2, <1>3

\* There is no view of a retrieve that the router did not begin to serve.
LEMMA NextAsked ==
    ASSUME SysInv, SysInv', HistInv, SNext
    PROVE  AskedInv'
<1> SUFFICES ASSUME NEW k \in Clients, cpc'[k] = "await",
                    conns'[sockfd'[k]].inbox["resp"] # << >>, view'[k] # NoView
             PROVE  FALSE
  BY DEF AskedInv
<1>1. rpc' = "serve" /\ client_sock' = sockfd'[k]
  BY AfterStep DEF AskingNow
<1>2. view'[k] = view[k] /\ Next
  <2>1. Next /\ view' = [c \in Clients |-> IF cmd'[c].kind # "RETRIEVE" THEN NoView
                                          ELSE IF Begins(c) THEN Contents ELSE view[c]]
    BY DEF SNext
  <2>2. ~Begins(k)
    BY <1>1 DEF Begins
  <2> QED
    BY <2>1, <2>2
<1>3. cmd[k].kind = "RETRIEVE"
  BY <1>2 DEF HistInv, OwnInv
<1>4. cpc[k] = "await"
  BY <1>3 DEF SysInv, ClientInv, NoCommand
<1>5. PICK a : a = sockfd[k]
  OBVIOUS
<1>6. conns[a].inbox["resp"] = << >> /\ a # NoConn
  BY <1>2, <1>4, <1>5, Asking DEF HistInv, AskedInv, AskingNow
<1>7. ASSUME conns'[a] = conns[a], sockfd'[k] = a
      PROVE  FALSE
  BY <1>6, <1>7
<1>8. ASSUME NEW s \in Servers, ServerStep(s) \/ KillServer(s), UNCHANGED clientvars
      PROVE  FALSE
  BY <1>5, <1>6, <1>7, <1>8, ServerLeaves DEF clientvars
<1>9. ASSUME NEW j \in Clients, ClientStep(j) \/ UserStep(j) \/ KillClient(j)
      PROVE  FALSE
  <2>1. CASE j = k
    BY <1>4, <1>9, <2>1, WaitingClient
  <2>2. CASE j # k
    BY <1>5, <1>6, <1>7, <1>9, <2>2, ClientLeaves, ClientSockets
  <2> QED
    BY <2>1, <2>2
<1>10. CASE RouterRuns
  <2>1. sockfd' = sockfd /\ RouterStep
    BY <1>10 DEF RouterRuns, clientvars
  <2>2. client_sock = a /\ rpc = "client_hello"
    BY <1>1, <1>5, <2>1, RouterListens
  <2>3. RespPhase(a) = "client_hello"
    BY <1>6, <2>2, RouterServes DEF RespPc
  <2>4. Exchange("await", "client_hello", conns[a], cmd[k], request, failed)
    BY <1>4, <1>5, <1>6, <2>3, ClientConn
  <2> QED
    BY <2>4 DEF Exchange, Talking
<1>11. ASSUME NEW p \in Procs, Kill(p)
       PROVE  FALSE
  <2>1. CASE KillRouter
    BY <1>1, <2>1 DEF KillRouter, RouterDies, RouterGone
  <2> QED
    BY <1>8, <1>9, <1>11, <2>1 DEF Kill, KillServer
<1>12. CASE Restart
  BY <1>5, <1>7, <1>12 DEF Restart, ServerStart, RouterStart, Begin, clientvars
<1> QED
  BY <1>2, <1>8, <1>9, <1>10, <1>11, <1>12 DEF Next, ServerRuns, ClientRuns, UserActs

-----------------------------------------------------------------------------
(***************************************************************************)
(* What a step leaves in the history variables.                            *)
(***************************************************************************)
\* Of the store of client k.
LEMMA DoneAfter ==
    ASSUME SNext, NEW k \in Clients
    PROVE  /\ done'[k] => cmd'[k].kind = "STORE"
           /\ done'[k] => \/ done[k]
                          \/ \E s \in Servers : ServedBy(k, s) /\ Adds(s, cmd'[k].data)
           /\ cmd'[k].kind = "STORE" /\ done[k] => done'[k]
           /\ \A s \in Servers :
                  ServedBy(k, s) /\ Adds(s, cmd'[k].data) =>
                      (cmd'[k].kind = "STORE" => done'[k])
<1>1. done' = [c \in Clients |->
                  /\ cmd'[c].kind = "STORE"
                  /\ done[c] \/ \E s \in Servers :
                                    ServedBy(c, s) /\ Adds(s, cmd'[c].data)]
  BY DEF SNext
<1>2. done'[k] = (/\ cmd'[k].kind = "STORE"
                  /\ done[k] \/ \E s \in Servers :
                                    ServedBy(k, s) /\ Adds(s, cmd'[k].data))
  BY <1>1
<1> QED
  BY <1>2

\* Of the view of client k.
LEMMA ViewAfter ==
    ASSUME SNext, NEW k \in Clients
    PROVE  /\ cmd'[k].kind # "RETRIEVE" => view'[k] = NoView
           /\ cmd'[k].kind = "RETRIEVE" /\ Begins(k) => view'[k] = Contents
           /\ cmd'[k].kind = "RETRIEVE" /\ ~Begins(k) => view'[k] = view[k]
<1>1. view' = [c \in Clients |-> IF cmd'[c].kind # "RETRIEVE" THEN NoView
                                 ELSE IF Begins(c) THEN Contents ELSE view[c]]
  BY DEF SNext
<1> QED
  BY <1>1

\* Of the answer to client k.
LEMMA ToldAfter ==
    ASSUME SNext, NEW k \in Clients
    PROVE  /\ cpc[k] = "await" /\ cpc'[k] = "idle" => told'[k] = AnswerRead(k)
           /\ ~(cpc[k] = "await" /\ cpc'[k] = "idle") =>
                  told'[k] = IF cmd'[k] # NoCommand THEN NoAnswer ELSE told[k]
<1>1. told' = [c \in Clients |->
                  IF cpc[c] = "await" /\ cpc'[c] = "idle" THEN AnswerRead(c)
                  ELSE IF cmd'[c] # NoCommand THEN NoAnswer ELSE told[c]]
  BY DEF SNext
<1> QED
  BY <1>1

\* Of what was performed.
LEMMA PerformedAfter ==
    ASSUME SNext, NEW d \in Data
    PROVE  /\ (\E s \in Servers : Adds(s, d)) => performed'[d] = performed[d] + 1
           /\ ~(\E s \in Servers : Adds(s, d)) => performed'[d] = performed[d]
<1>1. performed' = [e \in Data |-> IF \E s \in Servers : Adds(s, e)
                                   THEN performed[e] + 1 ELSE performed[e]]
  BY DEF SNext
<1> QED
  BY <1>1

\* The history variables keep to the commands of their clients.
LEMMA OwnStep ==
    ASSUME SysInv, SysInv', OwnInv, SNext
    PROVE  OwnInv'
<1>1. DOMAIN performed' = Data /\ performed' = [d \in Data |-> performed'[d]]
  BY DEF SNext
<1>2. ASSUME NEW d \in Data
      PROVE  performed'[d] \in Nat
  BY PerformedAfter DEF OwnInv
<1>3. done' \in [Clients -> BOOLEAN]
  <2>1. done' = [c \in Clients |->
                    /\ cmd'[c].kind = "STORE"
                    /\ done[c] \/ \E s \in Servers :
                                      ServedBy(c, s) /\ Adds(s, cmd'[c].data)]
    BY DEF SNext
  <2> QED
    BY <2>1, Zenon
<1>4. told' = [k \in Clients |-> told'[k]]
  BY DEF SNext
<1>5. ASSUME NEW k \in Clients
      PROVE  /\ done'[k] => cmd'[k].kind = "STORE"
             /\ cmd'[k].kind # "RETRIEVE" => view'[k] = NoView
  BY DoneAfter, ViewAfter
<1>6. ASSUME NEW k \in Clients, cmd'[k] # NoCommand
      PROVE  told'[k] = NoAnswer
  <2>1. cpc'[k] = "await"
    BY <1>6 DEF SysInv, ClientInv
  <2> QED
    BY <1>6, <2>1, ToldAfter
<1> QED
  BY <1>1, <1>2, <1>3, <1>4, <1>5, <1>6 DEF OwnInv

\* An acknowledgement that was there is of a store that was performed.
LEMMA DoneCarried ==
    ASSUME SysInv, SysInv', HistInv, SNext, NEW S, Carried(S),
           NEW c \in DOMAIN conns' \ S
    PROVE  DoneAt(c)'
<1> SUFFICES ASSUME NEW k \in Clients, AckIn(conns'[c]),
                    \/ conns'[c].who["init"] = k
                    \/ conns'[c].who["init"] = Router /\ client_sock' = sockfd'[k]
             PROVE  done'[k]
  BY DEF DoneAt, AckFor, AckIn, AnswerIn
<1>1. AnswerIn(conns'[c])
  BY DEF AckIn
<1>2. PICK i : i = conns'[c].who["init"]
  OBVIOUS
<1>3. /\ c \in DOMAIN conns /\ AnswerIn(conns[c]) /\ conns[c].who["init"] = i
      /\ conns'[c].inbox["init"] = conns[c].inbox["init"]
      /\ i \in Procs => Wanted(i)' = Wanted(i)
  BY <1>1, <1>2 DEF Carried
<1>4. AckIn(conns[c]) /\ DoneAt(c)
  BY <1>3 DEF AckIn, HistInv, DoneInv
<1>5. k \in Procs /\ Router \in Procs /\ k # Router
  BY NetAssumption DEF Procs
<1>6. SUFFICES done[k] /\ cmd'[k] = cmd[k]
  BY DoneAfter DEF HistInv, OwnInv
<1>7. CASE i = k
  BY <1>3, <1>4, <1>5, <1>7 DEF DoneAt, AckFor, Wanted
<1>8. CASE i = Router /\ client_sock' = sockfd'[k]
  <2>1. rpc' = "await"
    BY <1>1, <1>2, <1>8, AfterStep DEF AnswerNow, AnswerIn
  <2>2. rpc = "await"
    BY <1>3, <1>8, Answering DEF AnswerNow
  <2>3. client_sock = sockfd[k]
    BY <1>8, <2>1, NextStays DEF Stays, SNext
  <2>4. cmd[k] = request /\ cmd'[k] = request'
    BY <1>8, <2>1, <2>2, <2>3, Served, AfterStep DEF ServedNow
  <2>5. request' = request
    BY <1>3, <1>5, <1>8 DEF Wanted
  <2> QED
    BY <1>3, <1>4, <1>8, <2>3, <2>4, <2>5 DEF DoneAt, AckFor
<1> QED
  BY <1>2, <1>7, <1>8

\* A list that was there shows the view.
LEMMA ListedCarried ==
    ASSUME SysInv, SysInv', HistInv, SNext, NEW S, Carried(S),
           NEW c \in DOMAIN conns' \ S
    PROVE  ListedAt(c)'
<1> SUFFICES ASSUME NEW k \in Clients, ListIn(conns'[c]), k = conns'[c].who["init"]
             PROVE  ShowsAll(Head(conns'[c].inbox["init"]).body.parts, view'[k])
  BY DEF ListedAt, ListIn, AnswerIn, ShowsAll, ShowsOf, Shows
<1>1. AnswerIn(conns'[c])
  BY DEF ListIn
<1>2. k \in Procs /\ k # Router
  BY NetAssumption DEF Procs
<1>3. /\ c \in DOMAIN conns /\ AnswerIn(conns[c]) /\ conns[c].who["init"] = k
      /\ conns'[c].inbox["init"] = conns[c].inbox["init"]
      /\ Wanted(k)' = Wanted(k)
  BY <1>1, <1>2 DEF Carried
<1>4. ListIn(conns[c]) /\ ListedAt(c)
  BY <1>3 DEF ListIn, HistInv, ListedInv
<1>5. ShowsAll(Head(conns[c].inbox["init"]).body.parts, view[k])
  BY <1>3, <1>4 DEF ListedAt
<1>6. view[k] # NoView
  BY <1>5, NetAssumption DEF ShowsAll, NoView, Servers
<1>7. cmd[k].kind = "RETRIEVE" /\ cmd'[k] = cmd[k]
  BY <1>2, <1>3, <1>6 DEF HistInv, OwnInv, Wanted
<1>8. ~Begins(k)
  <2> SUFFICES ASSUME Begins(k)
               PROVE  FALSE
    OBVIOUS
  <2>1. rpc' = "await" /\ rpc = "serve" /\ client_sock = sockfd[k]
    BY DEF Begins, RouterAt
  <2>2. client_sock' = sockfd'[k]
    BY <2>1, NextStays DEF Stays, SNext, clientvars
  <2>3. conns'[sockfd'[k]].inbox["init"] = << >>
    BY <2>1, <2>2, AfterStep DEF ServedNow
  <2>4. c = sockfd'[k]
    BY <1>1, <1>2, AfterStep DEF AnswerNow, AnswerIn
  <2> QED
    BY <1>1, <2>3, <2>4 DEF AnswerIn
<1>9. view'[k] = view[k]
  BY <1>7, <1>8, ViewAfter
<1> QED
  BY <1>3, <1>5, <1>9

-----------------------------------------------------------------------------
(***************************************************************************)
(* No chain grows.                                                         *)
(***************************************************************************)
NoGrowth == \A s \in Servers : Len(chain'[s]) <= Len(chain[s])

\* Then no payload is added.
LEMMA NothingAdded ==
    ASSUME SysInv, SysInv', NoGrowth, NEW s \in Servers, NEW d
    PROVE  ~Adds(s, d)
<1>1. Len(chain[s]) \in Nat
  BY ChainLen
<1>2. Len(chain'[s]) \in Nat
  <2>1. Chained(chain'[s])
    BY DEF SysInv, ShardInv
  <2> QED
    BY <2>1 DEF Chained
<1> QED
  BY <1>1, <1>2 DEF NoGrowth, Adds

\* Then nothing is performed.
LEMMA NothingPerformed ==
    ASSUME SysInv, SysInv', OwnInv, NoGrowth, SNext
    PROVE  /\ performed' = performed
           /\ \A k \in Clients : done'[k] => done[k]
<1>1. \A d \in Data : performed'[d] = performed[d]
  BY NothingAdded, PerformedAfter
<1>2. performed' = [d \in Data |-> performed'[d]]
  BY DEF SNext
<1>3. performed = [d \in Data |-> performed[d]]
  BY DEF OwnInv
<1>4. ASSUME NEW k \in Clients, done'[k]
      PROVE  done[k]
  BY <1>4, NothingAdded, DoneAfter
<1> QED
  BY <1>1, <1>2, <1>3, <1>4

\* So there is still room for what waits.
LEMMA RoomStays ==
    ASSUME SysInv, SysInv', HistInv, NoGrowth, SNext, Supply
    PROVE  PerformedInv'
<1>1. performed' = performed
  BY NothingPerformed DEF HistInv
<1> SUFFICES ASSUME NEW d \in Data
             PROVE  Room(1 .. performed[d], Waiting(d)', sent'[d])
  BY <1>1 DEF PerformedInv
<1>2. Room(1 .. performed[d], Waiting(d), sent[d])
  BY DEF HistInv, PerformedInv
<1> QED
  BY <1>2, RoomSupply

-----------------------------------------------------------------------------
(***************************************************************************)
(* While the router gathers answers, the shards of the servers it talks to *)
(* do not change.                                                          *)
(***************************************************************************)
Steady ==
    Gathering =>
        \A s \in Servers :
            ssock'[s] = server_sockets[s] =>
                ssock[s] = server_sockets[s] /\ Payloads(chain'[s]) = Payloads(chain[s])

\* The connection of a router that gathers is neither new nor has a store.
LEMMA GatheringConn ==
    ASSUME SysInv, Gathering, NEW s \in Servers, NEW c, c = server_sockets[s]
    PROVE  /\ c # NoConn /\ c \in DOMAIN conns /\ InitPhase(c) \in {"idle", "await"}
           /\ RespPhase(c) # "queued" /\ ~StoreIn(conns[c])
<1>1. c # NoConn /\ rpc = "await"
  BY DEF Gathering, SysInv, RouterInv
<1>2. /\ c \in DOMAIN conns /\ conns[c].who["init"] = Router
      /\ InitPhase(c) = InitPc(Router, s)
      /\ Exchange(InitPc(Router, s), RespPhase(c), conns[c], request, request, failed)
  BY <1>1, RouterConn
<1>3. InitPhase(c) \in {"idle", "await"}
  BY <1>1, <1>2 DEF InitPc
<1>4. RespPhase(c) # "queued"
  BY <1>2, <1>3 DEF Exchange, Talking
<1>5. ASSUME StoreIn(conns[c])
      PROVE  FALSE
  <2>1. /\ InitPhase(c) = "await" => Head(conns[c].inbox["resp"]).body = Wanted(Router)
        /\ InitPhase(c) \in {"gone", "await"}
    BY <1>2, <1>5, StoreServed
  <2>2. Head(conns[c].inbox["resp"]).body.kind = "RETRIEVE"
    BY <1>3, <2>1 DEF Wanted, Gathering
  <2> QED
    BY <1>5, <2>2 DEF StoreIn
<1> QED
  BY <1>1, <1>2, <1>3, <1>4, <1>5

\* A step of a server.
LEMMA ServerSteady ==
    ASSUME SysInv, NEW s \in Servers, ServerStep(s) \/ KillServer(s)
    PROVE  Steady
<1>1. /\ ssock = [t \in Servers |-> ssock[t]] /\ DOMAIN chain = Servers
      /\ chain[s] \in Seq(Block)
  BY ChainLen DEF SysInv, ServerInv, ShardInv
<1> SUFFICES ASSUME Gathering, NEW t \in Servers, NEW c, c = server_sockets[t],
                    ssock'[t] = c
             PROVE  ssock[t] = c /\ Payloads(chain'[t]) = Payloads(chain[t])
  BY DEF Steady
<1>2. /\ c # NoConn /\ c \in DOMAIN conns
      /\ RespPhase(c) # "queued" /\ ~StoreIn(conns[c])
  BY GatheringConn
<1>3. CASE ServerGone(s)
  <2>1. t # s
    BY <1>1, <1>2, <1>3 DEF ServerGone
  <2> QED
    BY <1>1, <1>3, <2>1 DEF ServerGone
<1>4. CASE ServerAccept(s)
  <2>1. s \in Responders
    BY DEF Responders
  <2>2. RespPhase(Head(backlog[s])) = "queued"
    BY <1>4, <2>1, FirstInQueue DEF ServerAccept, Accept
  <2>3. t # s
    BY <1>1, <1>2, <1>4, <2>2 DEF ServerAccept
  <2> QED
    BY <1>1, <1>4, <2>3 DEF ServerAccept
<1>5. CASE ServerHandshake(s)
  BY <1>1, <1>3, <1>5 DEF ServerHandshake
<1>6. CASE ServerServe(s)
  <2>1. CASE ssock' = [ssock EXCEPT ![s] = NoConn] /\ UNCHANGED chain
    BY <1>1, <1>2, <2>1
  <2>2. CASE UNCHANGED ssock /\ chain' = [chain EXCEPT ![s] = Validated(@)]
    BY <1>1, <2>2, ValidatedPayloads
  <2>3. CASE /\ Readable(ssock[s], "resp") /\ UNCHANGED ssock
             /\ Received(ssock[s], "resp").body.kind = "STORE"
             /\ \/ UNCHANGED chain
                \/ chain' = [chain EXCEPT
                                 ![s] = StoreData(@, Received(ssock[s], "resp").body.data)]
    <3>1. t # s
      BY <1>2, <2>3 DEF StoreIn, Readable, AtEnd, Received
    <3> QED
      BY <1>1, <2>3, <3>1
  <2> QED
    BY <1>6, <2>1, <2>2, <2>3 DEF ServerServe, ServerRetrieve, ServerStore
<1> QED
  BY <1>3, <1>4, <1>5, <1>6 DEF ServerStep, KillServer

\* A step of another process.
LEMMA OthersSteady ==
    ASSUME UNCHANGED <<ssock, chain>>
    PROVE  Steady
  BY DEF Steady

\* What a shard answers, if it answers, is what it holds.
LEMMA ReplyShows ==
    ASSUME NEW ch \in Seq(Block), NEW reply, reply = RetrieveReply(ch), Shows(reply)
    PROVE  Payloads(reply.blocks) = Payloads(ch)
<1>1. CASE ~ValidChain(ch)
  BY <1>1 DEF RetrieveReply, Reply, Shows
<1>2. CASE ValidChain(ch) /\ ch = << >>
  BY <1>2 DEF RetrieveReply, Reply
<1>3. CASE ValidChain(ch) /\ ch # << >>
  BY <1>3, ValidatedPayloads DEF RetrieveReply, Reply
<1> QED
  BY <1>1, <1>2, <1>3

\* What the router takes for the answer of server ri shows what came.
LEMMA TakenShows ==
    ASSUME NEW data, NEW reply, reply = ServerReply(server_sockets[ri]),
           Came => ShowsOf(CameBody, data)
    PROVE  ShowsOf(reply, data)
<1>1. PICK b : b = server_sockets[ri]
  OBVIOUS
<1>2. CASE Readable(b, "init")
  BY <1>1, <1>2 DEF Readable, AtEnd, Came, CameBody, ServerReply, Received
<1>3. CASE ~Readable(b, "init")
  BY <1>1, <1>3 DEF ServerReply, Reply, ShowsOf, Shows
<1> QED
  BY <1>2, <1>3

\* A client whose retrieve is served keeps its view.
LEMMA ViewStays ==
    ASSUME SysInv, SysInv', SNext, Gathering', NEW k \in Clients, client_sock' = sockfd'[k]
    PROVE  /\ client_sock = sockfd[k]
           /\ rpc = "await" => view'[k] = view[k]
           /\ rpc = "serve" => view'[k] = Contents
<1>1. rpc' = "await" /\ request'.kind = "RETRIEVE"
  BY DEF Gathering
<1>2. client_sock = sockfd[k]
  BY <1>1, NextStays DEF Stays, SNext
<1>3. cmd'[k].kind = "RETRIEVE"
  BY <1>1, AfterStep DEF ServedNow
<1>4. ASSUME rpc = "await"
      PROVE  ~Begins(k)
  BY <1>4 DEF Begins, RouterAt
<1>5. ASSUME rpc = "serve"
      PROVE  Begins(k)
  BY <1>1, <1>2, <1>5 DEF Begins, RouterAt, SysInv, RouterInv
<1> QED
  BY <1>2, <1>3, <1>4, <1>5, ViewAfter

\* The views after a step that keeps view[k].
LEMMA ViewOn ==
    ASSUME NEW k, view'[k] = view[k], DOMAIN view[k] = Servers,
           \A s \in Servers : \A data : data = view[k][s] => ViewOf(s, data)'
    PROVE  ViewAt(k)'
<1> SUFFICES ASSUME NEW s \in Servers
             PROVE  ViewOf(s, view[k][s])'
  BY DEF ViewAt
<1>1. PICK data : data = view[k][s]
  OBVIOUS
<1>2. ViewOf(s, data)' /\ data = view'[k][s]
  BY <1>1
<1> QED
  BY <1>2 DEF ViewOf

\* The router goes on to wait for the same answer.
LEMMA ViewKept ==
    ASSUME SysInv, SysInv', HistInv, SNext, GatherKept, Steady
    PROVE  ViewInv'
<1> SUFFICES ASSUME Gathering', NEW k \in Clients, client_sock' = sockfd'[k]
             PROVE  ViewAt(k)'
  BY DEF ViewInv
<1>1. /\ Gathering /\ UNCHANGED <<ri, replies, server_sockets, client_sock>>
      /\ \A c : c = server_sockets[ri] => conns'[c].inbox["init"] = conns[c].inbox["init"]
  BY DEF GatherKept
<1>2. view'[k] = view[k] /\ client_sock = sockfd[k]
  BY <1>1, ViewStays DEF Gathering
<1>3. DOMAIN view[k] = Servers /\ \A s \in Servers : ViewOf(s, view[k][s])
  BY <1>1, <1>2 DEF HistInv, ViewInv, ViewAt
<1>4. (Came' <=> Came) /\ CameBody' = CameBody
  BY <1>1 DEF Came, CameBody
<1>5. ASSUME NEW s \in Servers, NEW data, data = view[k][s]
      PROVE  ViewOf(s, data)'
  <2>1. ViewOf(s, data)
    BY <1>3, <1>5
  <2>2. CASE s < ri
    BY <1>1, <2>1, <2>2 DEF ViewOf
  <2>3. CASE ~(s < ri) /\ s = ri /\ Came
    BY <1>1, <1>4, <2>1, <2>3 DEF ViewOf
  <2>4. CASE ~(s < ri) /\ ~(s = ri /\ Came)
    BY <1>1, <1>4, <2>1, <2>4 DEF ViewOf, Steady
  <2> QED
    BY <2>2, <2>3, <2>4
<1> QED
  BY <1>2, <1>3, <1>5, ViewOn

\* The answer of server s comes.
LEMMA ViewAnswered ==
    ASSUME SysInv, SysInv', HistInv, SNext, Steady, NEW s \in Servers,
           AnswerComes(s, RetrieveReply(chain[s]))
    PROVE  ViewInv'
<1>1. CASE GatherKept
  BY <1>1, ViewKept
<1> SUFFICES ASSUME ~GatherKept, Gathering', NEW k \in Clients, client_sock' = sockfd'[k]
             PROVE  ViewAt(k)'
  BY <1>1 DEF ViewInv
<1>2. PICK reply : reply = RetrieveReply(chain[s])
  OBVIOUS
<1>3. /\ Gathering /\ UNCHANGED <<ri, replies, server_sockets, client_sock>>
      /\ ri = s /\ ~Came /\ Came' /\ CameBody' = reply /\ ssock[s] = server_sockets[s]
  BY <1>2 DEF AnswerComes
<1>4. view'[k] = view[k] /\ client_sock = sockfd[k]
  BY <1>3, ViewStays DEF Gathering
<1>5. DOMAIN view[k] = Servers /\ \A t \in Servers : ViewOf(t, view[k][t])
  BY <1>3, <1>4 DEF HistInv, ViewInv, ViewAt
<1>6. ASSUME NEW t \in Servers, NEW data, data = view[k][t]
      PROVE  ViewOf(t, data)'
  <2>1. ViewOf(t, data)
    BY <1>5, <1>6
  <2>2. CASE t < ri
    BY <1>3, <2>1, <2>2 DEF ViewOf
  <2>3. CASE t = ri
    <3>1. Payloads(chain[s]) = data
      BY <1>3, <2>1, <2>3 DEF ViewOf, Servers
    <3>2. ShowsOf(reply, data)
      BY <1>2, <3>1, ReplyShows, ChainLen DEF ShowsOf
    <3> QED
      BY <1>3, <2>3, <3>2 DEF ViewOf, Servers
  <2>4. CASE ~(t < ri) /\ t # ri
    BY <1>3, <2>1, <2>4 DEF ViewOf, Steady
  <2> QED
    BY <2>2, <2>3, <2>4
<1> QED
  BY <1>4, <1>5, <1>6, ViewOn

\* The router begins to serve the retrieve.
LEMMA ViewBegins ==
    ASSUME SysInv, SysInv', SNext, UNCHANGED <<chain, ssock>>,
           rpc = "serve", Asks(0, << >>)
    PROVE  ViewInv'
<1> SUFFICES ASSUME Gathering', NEW k \in Clients, client_sock' = sockfd'[k]
             PROVE  ViewAt(k)'
  BY DEF ViewInv
<1>1. ri' = 0 /\ ~Came'
  BY DEF Asks
<1>2. view'[k] = [s \in Servers |-> Payloads(chain[s])]
  BY ViewStays DEF Contents
<1> SUFFICES ASSUME NEW s \in Servers
             PROVE  ViewOf(s, view[k][s])'
  BY <1>2 DEF ViewAt
<1>3. view'[k][s] = Payloads(chain'[s])
  BY <1>2
<1> QED
  BY <1>1, <1>3 DEF ViewOf, Servers

\* A router that gathers has the answers of the servers before ri.
LEMMA AnswersSoFar ==
    ASSUME SysInv, Gathering
    PROVE  replies \in Seq(Replies) /\ Len(replies) = ri /\ ri \in Nat
  BY DEF Gathering, SysInv, RouterInv, Servers

\* The router takes the answer of server ri and asks the next.
LEMMA ViewGathered ==
    ASSUME SysInv, SysInv', HistInv, SNext, UNCHANGED <<chain, ssock>>, Gathering,
           Asks(ri + 1, Append(replies, ServerReply(server_sockets[ri])))
    PROVE  ViewInv'
<1> SUFFICES ASSUME Gathering', NEW k \in Clients, client_sock' = sockfd'[k]
             PROVE  ViewAt(k)'
  BY DEF ViewInv
<1>1. PICK reply, answers : /\ reply = ServerReply(server_sockets[ri])
                            /\ answers = Append(replies, reply)
  OBVIOUS
<1>2. ri' = ri + 1 /\ ~Came' /\ replies' = answers /\ server_sockets' = server_sockets
  BY <1>1 DEF Asks
<1>3. /\ \A s \in Servers : s < ri => answers[s + 1] = replies[s + 1]
      /\ answers[ri + 1] = reply
  BY <1>1, AnswersSoFar DEF Servers
<1>4. view'[k] = view[k] /\ client_sock = sockfd[k]
  BY ViewStays DEF Gathering
<1>5. DOMAIN view[k] = Servers /\ \A s \in Servers : ViewOf(s, view[k][s])
  BY <1>4 DEF HistInv, ViewInv, ViewAt
<1>6. ri \in Servers
  BY DEF SysInv, RouterInv
<1>7. ASSUME NEW s \in Servers, NEW data, data = view[k][s]
      PROVE  ViewOf(s, data)'
  <2>1. ViewOf(s, data)
    BY <1>5, <1>7
  <2>2. CASE s < ri
    BY <1>2, <1>3, <1>6, <2>1, <2>2 DEF ViewOf, Servers
  <2>3. CASE s = ri
    <3>1. Came => ShowsOf(CameBody, data)
      BY <1>6, <2>1, <2>3 DEF ViewOf, Servers
    <3>2. ShowsOf(reply, data)
      BY <1>1, <3>1, TakenShows
    <3> QED
      BY <1>2, <1>3, <1>6, <2>3, <3>2 DEF ViewOf, Servers
  <2>4. CASE s > ri
    BY <1>2, <1>6, <2>1, <2>4 DEF ViewOf, Servers
  <2> QED
    BY <1>6, <2>2, <2>3, <2>4 DEF Servers
<1> QED
  BY <1>4, <1>5, <1>7, ViewOn

-----------------------------------------------------------------------------
(***************************************************************************)
(* Server s stores payload p, which it received on connection c.           *)
(***************************************************************************)
Stores(s, p, c) ==
    /\ p \in Data /\ c = ssock[s] /\ c \in Waiting(p)
    /\ chain' = [chain EXCEPT ![s] = StoreData(@, p)]
    /\ \A d \in Data : Waiting(d)' \subseteq Waiting(d) \ {c}
    /\ UNCHANGED <<ssock, routervars, clientvars>>

\* Nothing else is added.
LEMMA OnlyStored ==
    ASSUME SysInv, NEW s \in Servers, NEW p, NEW c, Stores(s, p, c)
    PROVE  /\ Adds(s, p)
           /\ \A t \in Servers : \A d : Adds(t, d) => t = s /\ d = p
           /\ chain' = [chain EXCEPT ![s] = chain'[s]]
           /\ Payloads(chain'[s]) = Append(Payloads(chain[s]), p)
<1>1. DOMAIN chain = Servers /\ p \in Data
  BY DEF SysInv, ShardInv, Stores
<1>2. PICK ch : ch = chain[s]
  OBVIOUS
<1>3. PICK b : b = StoreData(ch, p)
  OBVIOUS
<1>4. chain' = [chain EXCEPT ![s] = b] /\ chain'[s] = b
  BY <1>1, <1>2, <1>3 DEF Stores
<1>5. ch \in Seq(Block) /\ Len(ch) \in Nat
  BY <1>2, ChainLen
<1>6. Len(b) = Len(ch) + 1 /\ b[Len(ch) + 1].data = p /\ Payloads(b) = Append(Payloads(ch), p)
  BY <1>1, <1>3, <1>5, StoreKeeps, StoredPayloads
<1>7. Adds(s, p) /\ \A d : Adds(s, d) => d = p
  BY <1>2, <1>4, <1>5, <1>6 DEF Adds
<1>8. ASSUME NEW t \in Servers, t # s, NEW d
      PROVE  ~Adds(t, d)
  <2>1. chain'[t] = chain[t] /\ Len(chain[t]) \in Nat
    BY <1>4, <1>8, ChainLen
  <2> QED
    BY <2>1 DEF Adds
<1> QED
  BY <1>2, <1>4, <1>6, <1>7, <1>8

\* One more was performed, and one less waits.
LEMMA StoreCounts ==
    ASSUME SysInv, HistInv, SNext, NEW s \in Servers, NEW p, NEW c, Stores(s, p, c)
    PROVE  /\ PerformedInv' /\ performed[p] < sent[p]
           /\ performed' = [performed EXCEPT ![p] = @ + 1]
<1>1. /\ p \in Data /\ c \in Waiting(p) /\ sent' = sent
      /\ \A d \in Data : Waiting(d)' \subseteq Waiting(d) \ {c}
  BY DEF Stores, clientvars
<1>2. \A d \in Data : performed'[d] = IF d = p THEN performed[d] + 1 ELSE performed[d]
  BY OnlyStored, PerformedAfter
<1>3. /\ DOMAIN performed = Data /\ performed = [d \in Data |-> performed[d]]
      /\ \A d \in Data : performed[d] \in Nat
  BY DEF HistInv, OwnInv
<1>4. performed' = [performed EXCEPT ![p] = @ + 1]
  <2>1. performed' = [d \in Data |-> performed'[d]]
    BY DEF SNext
  <2> QED
    BY <1>2, <1>3, <2>1
<1>5. performed[p] < sent[p]
  <2>1. PICK n, W, all : n = performed[p] /\ W = Waiting(p) /\ all = sent[p]
    OBVIOUS
  <2>2. Room(1 .. n, W, all) /\ n \in Nat
    BY <1>1, <1>3, <2>1 DEF HistInv, PerformedInv
  <2>3. Cardinality(1 .. n) = n
    BY <2>2, FS_Interval
  <2>4. Cardinality(W) \in Nat /\ Cardinality(W) # 0
    BY <1>1, <2>1, <2>2, FS_CardinalityType, FS_EmptySet DEF Room
  <2> QED
    BY <2>1, <2>2, <2>3, <2>4 DEF Room
<1>6. ASSUME NEW d \in Data
      PROVE  Room(1 .. performed'[d], Waiting(d)', sent'[d])
  <2>1. PICK n, W, W2, all : /\ n = performed[d] /\ W = Waiting(d) /\ W2 = Waiting(d)'
                             /\ all = sent[d]
    OBVIOUS
  <2>2. Room(1 .. n, W, all) /\ n \in Nat /\ W2 \subseteq W \ {c} /\ sent'[d] = all
    BY <1>1, <1>3, <2>1 DEF HistInv, PerformedInv
  <2>3. CASE d = p
    <3>1. PICK m : m = n + 1
      OBVIOUS
    <3>2. Gained(1 .. n, 1 .. m, m)
      BY <2>2, <3>1 DEF Gained
    <3>3. Lost(W, W2, c)
      BY <1>1, <2>1, <2>2, <2>3 DEF Lost
    <3>4. Room(1 .. m, W2, all)
      BY <2>2, <3>2, <3>3, RoomLands
    <3> QED
      BY <1>2, <2>1, <2>2, <2>3, <3>1, <3>4
  <2>4. CASE d # p
    <3>1. Room(1 .. n, W2, all)
      BY <2>2, RoomSteps
    <3> QED
      BY <1>2, <2>1, <2>2, <2>4, <3>1
  <2> QED
    BY <2>3, <2>4
<1> QED
  BY <1>4, <1>5, <1>6 DEF PerformedInv

\* The store of client k, if the router still serves it, is this one.
LEMMA StoreOfClient ==
    ASSUME SysInv, NEW s \in Servers, NEW p, NEW c, Stores(s, p, c),
           NEW k \in Clients, ServedBy(k, s), c = server_sockets[s]
    PROVE  cmd[k] = StoreOf(p)
<1>1. rpc = "await" /\ ri = s /\ client_sock = sockfd[k]
  BY DEF ServedBy, RouterAt
<1>2. cmd[k] = request
  BY <1>1, Served DEF ServedNow
<1>3. c # NoConn
  BY <1>1 DEF SysInv, RouterInv
<1>4. c \in DOMAIN conns /\ conns[c].who["init"] = Router /\ InitPhase(c) = InitPc(Router, s)
  BY <1>3, RouterConn
<1>5. InitPhase(c) = "await"
  BY <1>1, <1>4 DEF InitPc
<1>6. StoreIn(conns[c]) /\ Head(conns[c].inbox["resp"]).body = StoreOf(p)
  BY DEF Stores, Waiting
<1>7. Head(conns[c].inbox["resp"]).body = Wanted(Router)
  BY <1>4, <1>5, <1>6, StoreServed
<1> QED
  BY <1>2, <1>6, <1>7 DEF Wanted

\* Connections to servers are of the router.
ServerLinks ==
    \A s \in Servers :
        ssock[s] # NoConn =>
            /\ ssock[s] \in DOMAIN conns /\ conns[ssock[s]].who["resp"] = s
            /\ conns[ssock[s]].who["init"] = Router

\* By the invariant.
LEMMA ServerLink == SysInv => ServerLinks
  BY AtServer DEF ServerLinks

\* The acknowledgement is of a store that was performed.
LEMMA StoreAcked ==
    ASSUME SysInv, SysInv', HistInv, SNext, NEW s \in Servers, NEW p, NEW c,
           Stores(s, p, c), c \in DOMAIN conns'
    PROVE  DoneAt(c)' /\ ListedAt(c)'
<1>1. c = ssock[s] /\ c = ssock'[s] /\ c \in DOMAIN conns /\ UNCHANGED <<routervars, clientvars>>
  BY DEF Stores, Waiting
<1>2. c # NoConn
  BY <1>1 DEF SysInv, NetInv, NoConn
<1>3. ServerLinks'
  BY ServerLink, PTL
<1>4. conns'[c].who["resp"] = s /\ conns'[c].who["init"] = Router
  BY <1>1, <1>2, <1>3 DEF ServerLinks
<1>5. Router \notin Clients
  BY NetAssumption
<1>6. ListedAt(c)'
  BY <1>4, <1>5 DEF ListedAt
<1>7. ASSUME NEW k \in Clients, AckIn(conns'[c]), client_sock' = sockfd'[k]
      PROVE  done'[k]
  <2>1. AnswerIn(conns'[c])
    BY <1>7 DEF AckIn
  <2>2. rpc' = "await" /\ c = server_sockets'[ri'] /\ conns'[c].who["resp"] = ri'
    BY <1>4, <2>1, AfterStep DEF AnswerNow, AnswerIn
  <2>3. rpc = "await" /\ c = server_sockets[ri] /\ ri = s /\ client_sock = sockfd[k]
    BY <1>1, <1>4, <1>7, <2>2 DEF routervars, clientvars
  <2>4. ServedBy(k, s)
    BY <2>3 DEF ServedBy, RouterAt, SysInv, RouterInv
  <2>5. cmd[k] = StoreOf(p)
    BY <2>3, <2>4, StoreOfClient
  <2>6. cmd'[k].kind = "STORE" /\ cmd'[k].data = p
    BY <1>1, <2>5 DEF clientvars, StoreOf
  <2>7. Adds(s, cmd'[k].data)
    BY <2>6, OnlyStored
  <2> QED
    BY <2>4, <2>6, <2>7, DoneAfter
<1> QED
  BY <1>4, <1>5, <1>6, <1>7 DEF DoneAt, AckFor, AckIn, AnswerIn

-----------------------------------------------------------------------------
(***************************************************************************)
(* The history invariant, step by step.                                    *)
(***************************************************************************)
\* The parts that concern one connection each, from those of the others.
LEMMA HistParts ==
    ASSUME SysInv, SysInv', HistInv, SNext, NEW S, Carried(S), PerformedInv', ViewInv',
           \A c \in S \cap DOMAIN conns' : DoneAt(c)' /\ ListedAt(c)'
    PROVE  HistInv'
<1>1. ASSUME NEW c \in DOMAIN conns'
      PROVE  DoneAt(c)' /\ ListedAt(c)'
  <2>1. CASE c \in S
    BY <2>1
  <2>2. CASE c \notin S
    <3>1. c \in DOMAIN conns' \ S
      BY <2>2
    <3>2. DoneAt(c)'
      BY <3>1, DoneCarried
    <3>3. ListedAt(c)'
      BY <3>1, ListedCarried
    <3> QED
      BY <3>2, <3>3
  <2> QED
    BY <2>1, <2>2
<1>2. DoneInv' /\ ListedInv'
  BY <1>1 DEF DoneInv, ListedInv
<1>3. OwnInv'
  BY OwnStep DEF HistInv
<1>4. AskedInv'
  BY NextAsked
<1> QED
  BY <1>2, <1>3, <1>4 DEF HistInv

\* A step after which no answer is new.
LEMMA QuietHist ==
    ASSUME SysInv, SysInv', HistInv, SNext, Carried({}), Supply, NoGrowth, ViewInv'
    PROVE  HistInv'
<1>1. PerformedInv'
  BY RoomStays
<1>2. PICK S : S = {}
  OBVIOUS
<1>3. Carried(S) /\ \A c \in S \cap DOMAIN conns' : DoneAt(c)' /\ ListedAt(c)'
  BY <1>2
<1> QED
  BY <1>1, <1>3, HistParts

\* A step of the network, or the end of a process.
LEMMA PlainHist ==
    ASSUME SysInv, SysInv', HistInv, SNext, Plain, Supply, NoGrowth, Steady
    PROVE  HistInv'
  BY QuietHist, ViewKept DEF Plain

\* Chains that are unchanged, emptied or validated do not grow.
LEMMA ChainsNoGrowth ==
    ASSUME SysInv, NEW s \in Servers,
           \/ UNCHANGED chain
           \/ chain' = [chain EXCEPT ![s] = << >>]
           \/ chain' = [chain EXCEPT ![s] = Validated(@)]
    PROVE  NoGrowth
<1> SUFFICES ASSUME NEW t \in Servers
             PROVE  Len(chain'[t]) <= Len(chain[t])
  BY DEF NoGrowth
<1>1. DOMAIN chain = Servers /\ Len(chain[t]) \in Nat /\ chain[t] \in Seq(Block)
  BY ChainLen DEF SysInv, ShardInv
<1>2. CASE chain'[t] = chain[t] \/ chain'[t] = << >>
  BY <1>1, <1>2
<1>3. CASE chain'[t] = Validated(chain[t])
  <2>1. Len(Validated(chain[t])) = Len(chain[t])
    BY <1>1, ValidatedKeeps
  <2> QED
    BY <1>1, <1>3, <2>1
<1> QED
  BY <1>1, <1>2, <1>3

\* A step of server s.
LEMMA ServerHist ==
    ASSUME SysInv, SysInv', CountInv, LogInv, HistInv, SNext, NEW s \in Servers,
           ServerStep(s), UNCHANGED <<routervars, clientvars>>, allocFails' = allocFails
    PROVE  HistInv'
<1>1. Supply /\ ServerMoves(s)
  BY ServerLog
<1>2. Steady
  BY ServerSteady
<1>3. CASE Plain /\ (UNCHANGED chain \/ chain' = [chain EXCEPT ![s] = << >>])
  BY <1>1, <1>2, <1>3, PlainHist, ChainsNoGrowth
<1>4. CASE /\ Carried({}) /\ AnswerComes(s, RetrieveReply(chain[s]))
           /\ chain' = [chain EXCEPT ![s] = Validated(@)]
  BY <1>1, <1>2, <1>4, QuietHist, ViewAnswered, ChainsNoGrowth
<1>5. ASSUME NEW p \in Data, GatherKept, Carried({ssock[s]}), UNCHANGED ssock,
             ssock[s] \in Waiting(p),
             \A d \in Data : Waiting(d)' \subseteq Waiting(d) \ {ssock[s]},
             chain' = [chain EXCEPT ![s] = StoreData(@, p)]
      PROVE  HistInv'
  <2>1. PICK c, S : c = ssock[s] /\ S = {c}
    OBVIOUS
  <2>2. Stores(s, p, c)
    BY <1>5, <2>1 DEF Stores
  <2>3. PerformedInv'
    BY <2>2, StoreCounts
  <2>4. ViewInv'
    BY <1>2, <1>5, ViewKept
  <2>5. \A d \in S \cap DOMAIN conns' : DoneAt(d)' /\ ListedAt(d)'
    BY <2>1, <2>2, StoreAcked
  <2>6. Carried(S)
    BY <1>5, <2>1
  <2> QED
    BY <2>3, <2>4, <2>5, <2>6, HistParts
<1>6. allocFails' # allocFails + 1
  BY DEF SysInv, ShardInv
<1> QED
  BY <1>1, <1>3, <1>4, <1>5, <1>6 DEF ServerMoves

\* The router passes an answer on to the client it serves.
LEMMA PassedHist ==
    ASSUME SysInv, SysInv', HistInv, SNext, UNCHANGED <<chain, clientvars>>,
           rpc = "await", rpc' = "serve",
           NEW a, a = client_sock, NEW b, b = server_sockets[ri], NEW p, Passed(a, b, p),
           \/ /\ request.kind = "STORE" /\ p.body = ServerReply(b)
              /\ AnswerIn(conns'[a]) =>
                     /\ AnswerIn(conns[b])
                     /\ Head(conns[b].inbox["init"]).body.kind = "DATA_STORED"
           \/ /\ Gathering /\ ri + 1 = NUM_SERVERS
              /\ p.body = [kind |-> "LIST", parts |-> Append(replies, ServerReply(b))]
    PROVE  DoneAt(a)' /\ ListedAt(a)'
<1>1. PICK k : k = conns'[a].who["init"]
  OBVIOUS
<1>2. /\ a \in DOMAIN conns' /\ b \in DOMAIN conns /\ k \in Clients /\ k # Router
      /\ conns[b].who["init"] = Router
  BY <1>1 DEF Passed
<1>3. CASE ~AnswerIn(conns'[a])
  BY <1>3 DEF DoneAt, ListedAt, AckIn, ListIn, AnswerIn
<1> SUFFICES ASSUME AnswerIn(conns'[a])
             PROVE  DoneAt(a)' /\ ListedAt(a)'
  BY <1>3
<1>4. a = sockfd'[k]
  BY <1>1, <1>2, AfterStep DEF AnswerNow, AnswerIn
<1>5. client_sock = sockfd[k] /\ cmd'[k] = cmd[k]
  BY <1>4 DEF clientvars
<1>6. cmd[k] = request
  BY <1>2, <1>5, Served DEF ServedNow
<1>7. Head(conns'[a].inbox["init"]).body = p.body
  BY DEF Passed, AnswerIn
<1>8. ASSUME AckIn(conns'[a]) => done'[k],
             ListIn(conns'[a]) =>
                 ShowsAll(Head(conns'[a].inbox["init"]).body.parts, view'[k])
      PROVE  DoneAt(a)' /\ ListedAt(a)'
  <2>1. DoneAt(a)'
    BY <1>1, <1>2, <1>8 DEF DoneAt, AckFor, AckIn, AnswerIn
  <2>2. ListedAt(a)'
    BY <1>1, <1>2, <1>8 DEF ListedAt, ListIn, AnswerIn, ShowsAll, ShowsOf, Shows
  <2> QED
    BY <2>1, <2>2
<1>9. CASE /\ request.kind = "STORE" /\ p.body = ServerReply(b)
           /\ AnswerIn(conns[b])
           /\ Head(conns[b].inbox["init"]).body.kind = "DATA_STORED"
  <2>1. DoneAt(b)
    BY <1>2 DEF HistInv, DoneInv
  <2>2. done[k]
    BY <1>2, <1>5, <1>9, <2>1 DEF DoneAt, AckFor, AckIn
  <2>3. done'[k]
    BY <1>2, <1>5, <1>6, <1>9, <2>2, DoneAfter
  <2>4. p.body.kind # "LIST"
    BY <1>9 DEF ServerReply, Reply, Received
  <2>5. ~ListIn(conns'[a])
    BY <1>7, <2>4 DEF ListIn
  <2> QED
    BY <1>8, <2>3, <2>5
<1>10. CASE /\ Gathering /\ ri + 1 = NUM_SERVERS
            /\ p.body = [kind |-> "LIST", parts |-> Append(replies, ServerReply(b))]
  <2>1. PICK reply, answers : reply = ServerReply(b) /\ answers = Append(replies, reply)
    OBVIOUS
  <2>2. Head(conns'[a].inbox["init"]).body = [kind |-> "LIST", parts |-> answers]
    BY <1>7, <1>10, <2>1
  <2>3. ~Begins(k)
    BY DEF Begins
  <2>4. view'[k] = view[k]
    BY <1>2, <1>5, <1>6, <1>10, <2>3, ViewAfter DEF Gathering
  <2>5. DOMAIN view[k] = Servers /\ \A s \in Servers : ViewOf(s, view[k][s])
    BY <1>2, <1>5, <1>10 DEF HistInv, ViewInv, ViewAt
  <2>6. ASSUME NEW s \in Servers, NEW data, data = view[k][s]
        PROVE  ShowsOf(answers[s + 1], data)
    <3>1. ViewOf(s, data)
      BY <2>5, <2>6
    <3>2. replies \in Seq(Replies) /\ Len(replies) = ri /\ ri \in Nat
      BY <1>10, AnswersSoFar
    <3>3. CASE s < ri
      <4>1. answers[s + 1] = replies[s + 1]
        BY <2>1, <3>2, <3>3 DEF Servers
      <4> QED
        BY <3>1, <3>3, <4>1 DEF ViewOf
    <3>4. CASE s = ri
      <4>1. Came => ShowsOf(CameBody, data)
        BY <3>1, <3>2, <3>4 DEF ViewOf
      <4>2. ShowsOf(reply, data)
        BY <2>1, <4>1, TakenShows
      <4> QED
        BY <2>1, <3>2, <3>4, <4>2
    <3> QED
      BY <1>10, <3>2, <3>3, <3>4, NetAssumption DEF Servers
  <2>7. ShowsAll(answers, view'[k])
    BY <2>4, <2>5, <2>6 DEF ShowsAll
  <2>8. ~AckIn(conns'[a])
    BY <2>2 DEF AckIn
  <2> QED
    BY <1>8, <2>2, <2>7, <2>8
<1> QED
  BY <1>9, <1>10

\* A step of the router.
LEMMA RouterHist ==
    ASSUME SysInv, SysInv', CountInv, LogInv, HistInv, SNext,
           RouterStep, UNCHANGED <<servervars, clientvars>>
    PROVE  HistInv'
<1>1. Supply /\ RouterMoves
  BY RouterLog
<1>2. UNCHANGED <<chain, ssock>>
  BY DEF servervars
<1>3. NoGrowth
  <2>1. 0 \in Servers
    BY NetAssumption DEF Servers
  <2> QED
    BY <1>2, <2>1, ChainsNoGrowth
<1>4. Steady
  BY <1>2, OthersSteady
<1>5. CASE Plain
  BY <1>1, <1>3, <1>4, <1>5, PlainHist
<1>6. CASE rpc = "serve" /\ rpc' = "await" /\ Asks(0, << >>)
  <2>1. ViewInv'
    BY <1>2, <1>6, ViewBegins
  <2> QED
    BY <1>1, <1>3, <1>6, <2>1, QuietHist DEF Asks
<1>7. CASE Gathering /\ Asks(ri + 1, Append(replies, ServerReply(server_sockets[ri])))
  <2>1. ViewInv'
    BY <1>2, <1>7, ViewGathered
  <2> QED
    BY <1>1, <1>3, <1>7, <2>1, QuietHist DEF Asks
<1>8. ASSUME NEW a, NEW b, NEW p, a = client_sock, b = server_sockets[ri], Passed(a, b, p),
             rpc = "await", rpc' = "serve", Carried({a}),
             \/ /\ request.kind = "STORE" /\ p.body = ServerReply(b)
                /\ AnswerIn(conns'[a]) =>
                       /\ AnswerIn(conns[b])
                       /\ Head(conns[b].inbox["init"]).body.kind = "DATA_STORED"
             \/ /\ Gathering /\ ri + 1 = NUM_SERVERS
                /\ p.body = [kind |-> "LIST", parts |-> Append(replies, ServerReply(b))]
      PROVE  HistInv'
  <2>1. DoneAt(a)' /\ ListedAt(a)'
    BY <1>2, <1>8, PassedHist
  <2>2. PerformedInv'
    BY <1>1, <1>3, RoomStays
  <2>3. ViewInv'
    BY <1>8 DEF ViewInv, Gathering
  <2>4. PICK S : S = {a}
    OBVIOUS
  <2>5. Carried(S) /\ \A c \in S \cap DOMAIN conns' : DoneAt(c)' /\ ListedAt(c)'
    BY <1>8, <2>1, <2>4
  <2> QED
    BY <2>2, <2>3, <2>5, HistParts
<1> QED
  BY <1>1, <1>5, <1>6, <1>7, <1>8 DEF RouterMoves

\* A step in which no shard changes.
LEMMA OtherHist ==
    ASSUME SysInv, SysInv', HistInv, SNext, Plain, Supply, UNCHANGED servervars
    PROVE  HistInv'
<1>1. UNCHANGED <<chain, ssock>>
  BY DEF servervars
<1>2. NoGrowth
  <2>1. 0 \in Servers
    BY NetAssumption DEF Servers
  <2> QED
    BY <1>1, <2>1, ChainsNoGrowth
<1>3. Steady
  BY <1>1, OthersSteady
<1> QED
  BY <1>2, <1>3, PlainHist

\* A process is killed.
LEMMA KillHist ==
    ASSUME SysInv, SysInv', CountInv, LogInv, HistInv, SNext, NEW p \in Procs, Kill(p)
    PROVE  HistInv'
<1>1. Plain /\ Supply
  BY KillLog
<1>2. CASE p \in Servers /\ KillServer(p)
  <2>1. Steady
    BY <1>2, ServerSteady
  <2>2. NoGrowth
    BY <1>2, ChainsNoGrowth DEF KillServer, ServerGone
  <2> QED
    BY <1>1, <2>1, <2>2, PlainHist
<1>3. CASE UNCHANGED servervars
  BY <1>1, <1>3, OtherHist
<1> QED
  BY <1>2, <1>3 DEF Kill, KillRouter, KillClient

\* Every step.
LEMMA NextHist ==
    ASSUME SysInv, SysInv', CountInv, LogInv, HistInv, SNext, allocFails' = allocFails
    PROVE  HistInv'
<1>1. ASSUME NEW s \in Servers, ServerRuns(s)
      PROVE  HistInv'
  BY <1>1, ServerHist DEF ServerRuns
<1>2. CASE RouterRuns
  BY <1>2, RouterHist DEF RouterRuns
<1>3. ASSUME NEW k \in Clients, ClientRuns(k) \/ UserActs(k)
      PROVE  HistInv'
  <2>1. (ClientStep(k) \/ UserStep(k)) /\ UNCHANGED <<servervars, routervars>>
    BY <1>3 DEF ClientRuns, UserActs
  <2>2. Plain /\ Supply
    BY <2>1, ClientLog
  <2> QED
    BY <2>1, <2>2, OtherHist
<1>4. ASSUME NEW p \in Procs, Kill(p)
      PROVE  HistInv'
  BY <1>4, KillHist
<1>5. CASE Restart
  <2>1. Plain /\ Supply
    BY <1>5, RestartLog
  <2>2. UNCHANGED servervars
    BY <1>5 DEF Restart, ServerStart
  <2> QED
    BY <2>1, <2>2, OtherHist
<1> QED
  BY <1>1, <1>2, <1>3, <1>4, <1>5 DEF SNext, Next

\* No step.
LEMMA StutterHist ==
    ASSUME HistInv, UNCHANGED svars
    PROVE  HistInv'
<1>1. /\ UNCHANGED <<conns, chain, ssock, sent, cmd, cpc, sockfd>>
      /\ UNCHANGED <<rpc, ri, request, replies, server_sockets, client_sock>>
      /\ UNCHANGED <<performed, done, view, told>>
  BY DEF svars, vars, netvars, servervars, routervars, clientvars
<1>2. OwnInv'
  BY <1>1 DEF HistInv, OwnInv
<1>3. PerformedInv'
  <2>1. \A d \in Data : Waiting(d)' = Waiting(d)
    BY <1>1 DEF Waiting
  <2> QED
    BY <1>1, <2>1 DEF HistInv, PerformedInv
<1>4. DoneInv'
  BY <1>1 DEF HistInv, DoneInv, DoneAt, AckFor
<1>5. AskedInv'
  BY <1>1 DEF HistInv, AskedInv
<1>6. ViewInv'
  <2>1. (Gathering' <=> Gathering) /\ (Came' <=> Came) /\ CameBody' = CameBody
    BY <1>1 DEF Gathering, Came, CameBody
  <2>2. \A s, data : ViewOf(s, data)' <=> ViewOf(s, data)
    BY <1>1, <2>1 DEF ViewOf
  <2>3. ASSUME NEW k \in Clients, ViewAt(k)
        PROVE  ViewAt(k)'
    BY <1>1, <2>2, <2>3, ViewOn DEF ViewAt
  <2> QED
    BY <1>1, <2>1, <2>3 DEF HistInv, ViewInv
<1>7. ListedInv'
  BY <1>1 DEF HistInv, ListedInv, ListedAt
<1> QED
  BY <1>2, <1>3, <1>4, <1>5, <1>6, <1>7 DEF HistInv

\* At the start.
LEMMA InitHist == SInit => HistInv
<1> SUFFICES ASSUME SInit
             PROVE  HistInv
  OBVIOUS
<1>1. /\ DOMAIN conns = {} /\ rpc = "connect" /\ sent = Nothing
      /\ cpc = [c \in Clients |-> "off"] /\ cmd = [c \in Clients |-> NoCommand]
  BY DEF SInit, Init, NetInit, RouterInit, ClientInit
<1>2. /\ performed = Nothing /\ done = [c \in Clients |-> FALSE]
      /\ view = [c \in Clients |-> NoView] /\ told = [c \in Clients |-> NoAnswer]
  BY DEF SInit
<1>3. OwnInv
  <2>1. done \in [Clients -> BOOLEAN] /\ \A k \in Clients : ~done[k]
    BY <1>2, Zenon
  <2> QED
    BY <1>1, <1>2, <2>1 DEF OwnInv, Nothing
<1>4. PerformedInv
  <2> SUFFICES ASSUME NEW d \in Data
               PROVE  Room(1 .. performed[d], Waiting(d), sent[d])
    BY DEF PerformedInv
  <2>1. Waiting(d) = {} /\ performed[d] = 0 /\ sent[d] = 0 /\ 1 .. 0 = {}
    BY <1>1, <1>2 DEF Waiting, Nothing
  <2> QED
    BY <2>1, FS_EmptySet DEF Room
<1>5. DoneInv /\ ListedInv
  BY <1>1 DEF DoneInv, ListedInv
<1>6. AskedInv /\ ViewInv
  BY <1>1 DEF AskedInv, ViewInv, Gathering
<1> QED
  BY <1>3, <1>4, <1>5, <1>6 DEF HistInv

-----------------------------------------------------------------------------
(***************************************************************************)
(* The refinement.                                                         *)
(***************************************************************************)
Ops == [c \in Clients |-> Op(c)]

\* The command a client waits for, by its kind.
LEMMA OpKinds ==
    ASSUME SysInv, NEW k \in Clients
    PROVE  /\ cmd[k] = NoCommand => Op(k) = [kind |-> "NONE"]
           /\ cmd[k] # NoCommand =>
                  cpc[k] = "await" /\ cmd[k] \in Requests /\ cmd[k].kind \in {"STORE", "RETRIEVE"}
           /\ cmd[k].kind = "STORE" =>
                  Op(k) = [kind |-> "STORE", data |-> cmd[k].data, done |-> done[k]]
           /\ cmd[k].kind = "RETRIEVE" => Op(k) = [kind |-> "RETRIEVE", view |-> view[k]]
<1>1. cmd[k] # NoCommand => cpc[k] = "await" /\ cmd[k] \in Requests
  BY DEF SysInv, ClientInv
<1>2. cmd[k] # NoCommand => cmd[k].kind \in {"STORE", "RETRIEVE"}
  BY <1>1 DEF Requests
<1>3. cmd[k] = NoCommand => Op(k) = [kind |-> "NONE"]
  BY DEF Op, NoCommand
<1>4. cmd[k].kind = "STORE" =>
          Op(k) = [kind |-> "STORE", data |-> cmd[k].data, done |-> done[k]]
  BY DEF Op
<1>5. cmd[k].kind = "RETRIEVE" => Op(k) = [kind |-> "RETRIEVE", view |-> view[k]]
  BY DEF Op
<1> QED
  BY <1>1, <1>2, <1>3, <1>4, <1>5

\* The same after a step.
OpKind ==
    \A k \in Clients :
        /\ cmd[k] = NoCommand => Op(k) = [kind |-> "NONE"]
        /\ cmd[k] # NoCommand =>
               cpc[k] = "await" /\ cmd[k] \in Requests /\ cmd[k].kind \in {"STORE", "RETRIEVE"}
        /\ cmd[k].kind = "STORE" =>
               Op(k) = [kind |-> "STORE", data |-> cmd[k].data, done |-> done[k]]
        /\ cmd[k].kind = "RETRIEVE" => Op(k) = [kind |-> "RETRIEVE", view |-> view[k]]

\* As a state predicate.
LEMMA OpKindHolds == SysInv => OpKind
  BY OpKinds DEF OpKind

\* After a step that keeps the invariant.
LEMMA OpKindAfter == ASSUME SysInv' PROVE OpKind'
  BY OpKindHolds, PTL

\* A client that goes on waiting for the same command.
LEMMA Keeps ==
    ASSUME SysInv, SysInv', OwnInv, SNext, NEW k \in Clients, cmd'[k] = cmd[k]
    PROVE  /\ told'[k] = told[k]
           /\ /\ done'[k] => done[k]
              /\ Begins(k) => cmd[k].kind # "RETRIEVE"
              => Op(k)' = Op(k)
<1>1. told'[k] = told[k]
  <2>1. ~(cpc[k] = "await" /\ cpc'[k] = "idle")
    <3>1. cpc[k] = "await" => cmd[k] # NoCommand
      BY DEF SysInv, ClientInv, Requests, NoCommand
    <3>2. cpc'[k] = "idle" => cmd'[k] = NoCommand
      BY DEF SysInv, ClientInv
    <3> QED
      BY <3>1, <3>2
  <2> QED
    BY <2>1, ToldAfter DEF OwnInv
<1>2. ASSUME done'[k] => done[k], Begins(k) => cmd[k].kind # "RETRIEVE"
      PROVE  Op(k)' = Op(k)
  <2>1. CASE cmd[k] = NoCommand
    BY <2>1, OpKindHolds, OpKindAfter DEF OpKind
  <2>2. CASE cmd[k].kind = "STORE"
    <3>1. done[k] => done'[k]
      BY <2>2, DoneAfter
    <3>2. done'[k] = done[k]
      <4>1. done[k] \in BOOLEAN /\ done'[k] \in BOOLEAN
        <5>1. OwnInv'
          BY OwnStep
        <5> QED
          BY <5>1 DEF OwnInv
      <4> QED
        BY <1>2, <3>1, <4>1
    <3> QED
      BY <2>2, <3>2, OpKindHolds, OpKindAfter DEF OpKind
  <2>3. CASE cmd[k].kind = "RETRIEVE"
    <3>1. view'[k] = view[k]
      BY <1>2, <2>3, ViewAfter
    <3> QED
      BY <2>3, <3>1, OpKindHolds, OpKindAfter DEF OpKind
  <2> QED
    BY <2>1, <2>2, <2>3, OpKindHolds DEF OpKind
<1> QED
  BY <1>1, <1>2

\* At most client k is concerned.
LEMMA OnlyClient ==
    ASSUME NEW k \in Clients,
           told = [j \in Clients |-> told[j]], told' = [j \in Clients |-> told'[j]],
           \A j \in Clients \ {k} : told'[j] = told[j] /\ Op(j)' = Op(j)
    PROVE  /\ Ops' = [Ops EXCEPT ![k] = Op(k)']
           /\ told' = [told EXCEPT ![k] = told'[k]]
           /\ Ops[k] = Op(k)
<1>1. Ops' = [Ops EXCEPT ![k] = Op(k)'] /\ Ops[k] = Op(k)
  BY DEF Ops
<1>2. told' = [told EXCEPT ![k] = told'[k]]
  BY ONLY told = [j \in Clients |-> told[j]], told' = [j \in Clients |-> told'[j]],
          k \in Clients, \A j \in Clients \ {k} : told'[j] = told[j] /\ Op(j)' = Op(j)
<1> QED
  BY <1>1, <1>2

\* Nobody is concerned.
LEMMA NoClient ==
    ASSUME told = [j \in Clients |-> told[j]], told' = [j \in Clients |-> told'[j]],
           \A j \in Clients : told'[j] = told[j] /\ Op(j)' = Op(j)
    PROVE  Ops' = Ops /\ told' = told
<1>1. Ops' = Ops
  BY DEF Ops
<1>2. told' = told
  BY ONLY told = [j \in Clients |-> told[j]], told' = [j \in Clients |-> told'[j]],
          \A j \in Clients : told'[j] = told[j] /\ Op(j)' = Op(j)
<1> QED
  BY <1>1, <1>2

\* The answers are a function of the clients.
LEMMA ToldType ==
    ASSUME OwnInv, SNext
    PROVE  told = [j \in Clients |-> told[j]] /\ told' = [j \in Clients |-> told'[j]]
  BY DEF OwnInv, SNext

\* A step that nobody sees.
LEMMA Unseen ==
    ASSUME SysInv, SysInv', HistInv, SNext, NoGrowth, UNCHANGED <<cmd, sent>>,
           Contents' = Contents,
           \A k \in Clients : Begins(k) => cmd[k].kind # "RETRIEVE"
    PROVE  UNCHANGED Store!vars
<1>1. performed' = performed /\ \A k \in Clients : done'[k] => done[k]
  BY NothingPerformed DEF HistInv
<1>2. \A k \in Clients : told'[k] = told[k] /\ Op(k)' = Op(k)
  BY <1>1, Keeps DEF HistInv
<1>3. Ops' = Ops /\ told' = told
  BY <1>2, NoClient, ToldType DEF HistInv
<1> QED
  BY <1>1, <1>3 DEF Store!vars, Ops

\* A step of server s without a store.
LEMMA ServerUnseen ==
    ASSUME SysInv, SysInv', HistInv, SNext, NEW s \in Servers,
           UNCHANGED <<routervars, clientvars>>,
           \/ UNCHANGED chain
           \/ chain' = [chain EXCEPT ![s] = << >>]
           \/ chain' = [chain EXCEPT ![s] = Validated(@)]
    PROVE  [Store!Next]_(Store!vars)
<1>1. NoGrowth
  BY ChainsNoGrowth
<1>2. UNCHANGED <<cmd, sent, rpc>>
  BY DEF routervars, clientvars
<1>3. \A k \in Clients : ~Begins(k)
  BY <1>2 DEF Begins, RouterAt
<1>4. DOMAIN chain = Servers /\ \A t \in Servers : chain[t] \in Seq(Block)
  BY ChainLen DEF SysInv, ShardInv
<1>5. CASE UNCHANGED chain
  <2>1. Contents' = Contents
    BY <1>5 DEF Contents
  <2> QED
    BY <1>1, <1>2, <1>3, <2>1, Unseen
<1>6. CASE chain' = [chain EXCEPT ![s] = Validated(@)]
  <2>1. \A t \in Servers : Payloads(chain'[t]) = Payloads(chain[t])
    BY <1>4, <1>6, ValidatedPayloads
  <2>2. Contents' = Contents
    BY <2>1 DEF Contents
  <2> QED
    BY <1>1, <1>2, <1>3, <2>2, Unseen
<1>7. CASE chain' = [chain EXCEPT ![s] = << >>]
  <2>1. Payloads(<< >>) = << >>
    BY DEF Payloads
  <2>2. Contents' = [Contents EXCEPT ![s] = << >>]
    BY <1>4, <1>7, <2>1 DEF Contents
  <2>3. performed' = performed /\ \A k \in Clients : done'[k] => done[k]
    BY <1>1, NothingPerformed DEF HistInv
  <2>4. \A k \in Clients : told'[k] = told[k] /\ Op(k)' = Op(k)
    BY <1>2, <1>3, <2>3, Keeps DEF HistInv
  <2>5. Ops' = Ops /\ told' = told
    BY <2>4, NoClient, ToldType DEF HistInv
  <2>6. Store!Forget(s)
    BY <1>2, <2>2, <2>3, <2>5 DEF Store!Forget, Ops
  <2> QED
    BY <2>6 DEF Store!Next
<1> QED
  BY <1>5, <1>6, <1>7

\* A store is performed, for the client that the router serves, or for one
\* that has gone.
LEMMA StorePerforms ==
    ASSUME SysInv, SysInv', HistInv, SNext, NEW s \in Servers, NEW p, NEW c, Stores(s, p, c)
    PROVE  Store!Perform(s, p) /\ p \in Data
<1>1. UNCHANGED <<cmd, sent, rpc>> /\ p \in Data
  BY DEF Stores, routervars, clientvars
<1>2. performed[p] < sent[p] /\ performed' = [performed EXCEPT ![p] = @ + 1]
  BY StoreCounts
<1>3. DOMAIN chain = Servers
  BY DEF SysInv, ShardInv
<1>4. /\ chain' = [chain EXCEPT ![s] = chain'[s]]
      /\ Payloads(chain'[s]) = Append(Payloads(chain[s]), p)
      /\ \A t \in Servers : \A d : Adds(t, d) => t = s /\ d = p
  BY OnlyStored
<1>5. Contents' = [Contents EXCEPT ![s] = Append(@, p)]
  BY <1>3, <1>4 DEF Contents
<1>6. \A k \in Clients : ~Begins(k)
  BY <1>1 DEF Begins, RouterAt
<1>7. ASSUME NEW k \in Clients, ~(done'[k] => done[k])
      PROVE  /\ ServedBy(k, s) /\ cmd[k].kind = "STORE" /\ cmd[k].data = p
             /\ done'[k] /\ ~done[k]
  BY <1>1, <1>4, <1>7, DoneAfter
<1>8. CASE \A k \in Clients : done'[k] => done[k]
  <2>1. \A k \in Clients : told'[k] = told[k] /\ Op(k)' = Op(k)
    BY <1>1, <1>6, <1>8, Keeps DEF HistInv
  <2>2. Ops' = Ops /\ told' = told
    BY <2>1, NoClient, ToldType DEF HistInv
  <2> QED
    BY <1>1, <1>2, <1>5, <2>2 DEF Store!Perform, Ops
<1>9. ASSUME NEW k \in Clients, ~(done'[k] => done[k])
      PROVE  Store!Perform(s, p)
  <2>1. /\ ServedBy(k, s) /\ cmd[k].kind = "STORE" /\ cmd[k].data = p
        /\ done'[k] /\ ~done[k]
    BY <1>7, <1>9
  <2>2. ASSUME NEW j \in Clients \ {k}
        PROVE  done'[j] => done[j]
    <3>1. SUFFICES ASSUME ~(done'[j] => done[j])
                   PROVE  FALSE
      OBVIOUS
    <3>2. ServedBy(j, s)
      BY <1>7, <3>1
    <3> QED
      BY <2>1, <3>2, Served DEF ServedBy, RouterAt, ServedNow
  <2>3. \A j \in Clients \ {k} : told'[j] = told[j] /\ Op(j)' = Op(j)
    BY <1>1, <1>6, <2>2, Keeps DEF HistInv
  <2>4. /\ Ops' = [Ops EXCEPT ![k] = Op(k)'] /\ told' = [told EXCEPT ![k] = told'[k]]
        /\ Ops[k] = Op(k)
    BY <2>3, OnlyClient, ToldType DEF HistInv
  <2>5. told'[k] = told[k]
    BY <1>1, Keeps DEF HistInv
  <2>6. told' = told
    BY <2>4, <2>5, ToldType DEF HistInv
  <2>7. done[k] = FALSE /\ done'[k] = TRUE
    <3>1. OwnInv /\ OwnInv'
      BY OwnStep DEF HistInv
    <3>2. done[k] \in BOOLEAN /\ done'[k] \in BOOLEAN
      BY <3>1 DEF OwnInv
    <3> QED
      BY <2>1, <3>2
  <2>8. Op(k) = [kind |-> "STORE", data |-> p, done |-> FALSE]
    BY <2>1, <2>7, OpKindHolds DEF OpKind
  <2>9. Op(k)' = [kind |-> "STORE", data |-> p, done |-> TRUE]
    BY <1>1, <2>1, <2>7, OpKindAfter DEF OpKind
  <2> QED
    BY <1>1, <1>2, <1>5, <2>4, <2>6, <2>8, <2>9 DEF Store!Perform, Store!Storing, Ops
<1> QED
  BY <1>1, <1>8, <1>9

\* A step of server s.
LEMMA ServerRefines ==
    ASSUME SysInv, SysInv', CountInv, LogInv, HistInv, SNext, NEW s \in Servers,
           ServerStep(s), UNCHANGED <<routervars, clientvars>>, allocFails' = allocFails
    PROVE  [Store!Next]_(Store!vars)
<1>1. ServerMoves(s)
  BY ServerLog
<1>2. allocFails' # allocFails + 1
  BY DEF SysInv, ShardInv
<1>3. ASSUME NEW p \in Data, UNCHANGED ssock, ssock[s] \in Waiting(p),
             \A d \in Data : Waiting(d)' \subseteq Waiting(d) \ {ssock[s]},
             chain' = [chain EXCEPT ![s] = StoreData(@, p)]
      PROVE  [Store!Next]_(Store!vars)
  <2>1. PICK c : c = ssock[s]
    OBVIOUS
  <2>2. Stores(s, p, c)
    BY <1>3, <2>1 DEF Stores
  <2>3. Store!Perform(s, p)
    BY <2>2, StorePerforms
  <2> QED
    BY <2>3 DEF Store!Next
<1> QED
  BY <1>1, <1>2, <1>3, ServerUnseen DEF ServerMoves

\* A step of the router: at most the moment at which a retrieve begins.
LEMMA RouterRefines ==
    ASSUME SysInv, SysInv', HistInv, SNext, RouterStep, UNCHANGED <<servervars, clientvars>>
    PROVE  [Store!Next]_(Store!vars)
<1>1. UNCHANGED <<chain, cmd, sent>>
  BY DEF servervars, clientvars
<1>2. NoGrowth
  <2>1. 0 \in Servers
    BY NetAssumption DEF Servers
  <2> QED
    BY <1>1, <2>1, ChainsNoGrowth
<1>3. Contents' = Contents
  BY <1>1 DEF Contents
<1>4. CASE \A k \in Clients : Begins(k) => cmd[k].kind # "RETRIEVE"
  BY <1>1, <1>2, <1>3, <1>4, Unseen
<1>5. ASSUME NEW k \in Clients, Begins(k), cmd[k].kind = "RETRIEVE"
      PROVE  Store!View(k)
  <2>1. rpc = "serve" /\ rpc' = "await" /\ client_sock = sockfd[k]
    BY <1>5 DEF Begins, RouterAt
  <2>2. conns[client_sock].inbox["resp"] # << >>
    BY <2>1, NextStays DEF Stays, SNext
  <2>3. cpc[k] = "await"
    BY <1>5, OpKindHolds DEF OpKind, NoCommand
  <2>4. view[k] = NoView
    BY <2>1, <2>2, <2>3 DEF HistInv, AskedInv
  <2>5. performed' = performed /\ \A j \in Clients : done'[j] => done[j]
    BY <1>2, NothingPerformed DEF HistInv
  <2>6. ASSUME NEW j \in Clients \ {k}
        PROVE  ~Begins(j)
    <3> SUFFICES ASSUME Begins(j)
                 PROVE  FALSE
      OBVIOUS
    <3>1. sockfd[j] = sockfd[k]
      BY <2>1 DEF Begins
    <3>2. sockfd[k] # NoConn
      BY <2>1 DEF SysInv, RouterInv
    <3>3. conns[sockfd[k]].who["init"] = k
      BY <3>2, AtClient
    <3>4. conns[sockfd[j]].who["init"] = j
      BY <3>1, <3>2, AtClient
    <3> QED
      BY <3>1, <3>3, <3>4
  <2>7. \A j \in Clients \ {k} : told'[j] = told[j] /\ Op(j)' = Op(j)
    BY <1>1, <2>5, <2>6, Keeps DEF HistInv
  <2>8. /\ Ops' = [Ops EXCEPT ![k] = Op(k)'] /\ told' = [told EXCEPT ![k] = told'[k]]
        /\ Ops[k] = Op(k)
    BY <2>7, OnlyClient, ToldType DEF HistInv
  <2>9. told'[k] = told[k]
    BY <1>1, Keeps DEF HistInv
  <2>10. told' = told
    BY <2>8, <2>9, ToldType DEF HistInv
  <2>11. Op(k) = [kind |-> "RETRIEVE", view |-> NoView]
    BY <1>5, <2>4, OpKindHolds DEF OpKind
  <2>12. view'[k] = Contents
    BY <1>1, <1>5, ViewAfter
  <2>13. Op(k)' = [kind |-> "RETRIEVE", view |-> Contents]
    BY <1>1, <1>5, <2>12, OpKindAfter DEF OpKind
  <2> QED
    BY <1>1, <1>3, <2>5, <2>8, <2>10, <2>11, <2>13
    DEF Store!View, Store!Retrieving, Store!NoView, NoView, Ops
<1>6. CASE \E k \in Clients : Store!View(k)
  BY <1>6 DEF Store!Next
<1> QED
  BY <1>4, <1>5, <1>6

\* A step of client k changes only what is of client k.
OnlyAbout(k) ==
    /\ Ops' = [Ops EXCEPT ![k] = Op(k)'] /\ told' = [told EXCEPT ![k] = told'[k]]
    /\ Ops[k] = Op(k) /\ Contents' = Contents /\ performed' = performed
    /\ done'[k] => done[k]
    /\ cmd'[k] = cmd[k] => told' = told /\ Ops' = Ops
    /\ ~Begins(k)

\* By the invariant.
LEMMA ClientOnly ==
    ASSUME SysInv, SysInv', HistInv, SNext, NEW k \in Clients,
           ClientStep(k) \/ UserStep(k) \/ KillClient(k), UNCHANGED <<chain, rpc>>
    PROVE  OnlyAbout(k)
<1>1. NoGrowth
  <2>1. 0 \in Servers
    BY NetAssumption DEF Servers
  <2> QED
    BY <2>1, ChainsNoGrowth
<1>2. Contents' = Contents
  BY DEF Contents
<1>3. performed' = performed /\ \A j \in Clients : done'[j] => done[j]
  BY <1>1, NothingPerformed DEF HistInv
<1>4. \A j \in Clients : ~Begins(j)
  BY DEF Begins, RouterAt
<1>5. \A j \in Clients \ {k} : cmd'[j] = cmd[j]
  BY ClientSockets
<1>6. \A j \in Clients \ {k} : told'[j] = told[j] /\ Op(j)' = Op(j)
  BY <1>3, <1>4, <1>5, Keeps DEF HistInv
<1>7. /\ Ops' = [Ops EXCEPT ![k] = Op(k)'] /\ told' = [told EXCEPT ![k] = told'[k]]
      /\ Ops[k] = Op(k)
  BY <1>6, OnlyClient, ToldType DEF HistInv
<1>8. ASSUME cmd'[k] = cmd[k]
      PROVE  told' = told /\ Ops' = Ops
  <2>1. told'[k] = told[k] /\ Op(k)' = Op(k)
    BY <1>3, <1>4, <1>8, Keeps DEF HistInv
  <2>2. \A j \in Clients : told'[j] = told[j] /\ Op(j)' = Op(j)
    BY <1>6, <2>1
  <2> QED
    BY <2>2, NoClient, ToldType DEF HistInv
<1> QED
  BY <1>2, <1>3, <1>4, <1>7, <1>8 DEF OnlyAbout

\* Client k ends.
LEMMA EndRefines ==
    ASSUME SysInv, SysInv', HistInv, SNext, NEW k \in Clients,
           ClientStep(k) \/ UserStep(k) \/ KillClient(k), UNCHANGED <<chain, rpc>>,
           NEW how, NEW cs, ClientDies(k, how, cs)
    PROVE  [Store!Next]_(Store!vars)
<1>1. DOMAIN cmd = Clients /\ DOMAIN cpc = Clients
  BY DEF SysInv, ClientInv
<1>2. cmd'[k] = NoCommand /\ cpc'[k] = "off" /\ sent' = sent
  BY <1>1 DEF ClientDies, ClientGone
<1>3. CASE cmd[k] = NoCommand
  <2>1. told' = told /\ Ops' = Ops /\ Contents' = Contents /\ performed' = performed
    BY <1>2, <1>3, ClientOnly DEF OnlyAbout
  <2> QED
    BY <1>2, <2>1 DEF Store!vars, Ops
<1>4. CASE cmd[k] # NoCommand
  <2>1. told'[k] = NoAnswer
    BY <1>2, <1>4, ToldAfter DEF HistInv, OwnInv
  <2>2. Op(k)' = [kind |-> "NONE"]
    BY <1>2, OpKindAfter DEF OpKind
  <2>3. Op(k) # [kind |-> "NONE"]
    BY <1>4, OpKindHolds DEF OpKind
  <2>4. Store!Fail(k)
    BY <1>2, <2>1, <2>2, <2>3, ClientOnly
    DEF OnlyAbout, Store!Fail, Store!Answer, Store!NoOp, Store!NoAnswer, NoAnswer, Ops
  <2> QED
    BY <2>4 DEF Store!Next
<1> QED
  BY <1>3, <1>4

\* The user of client k gives a command.
LEMMA SendRefines ==
    ASSUME SysInv, SysInv', HistInv, SNext, NEW k \in Clients, UserStep(k),
           UNCHANGED <<chain, rpc>>, NEW r, NEW now, ClientSend(k, r, now),
           \/ r = [kind |-> "RETRIEVE"] /\ now = sent
           \/ \E d \in Data : r = StoreOf(d) /\ now = [sent EXCEPT ![d] = @ + 1]
    PROVE  [Store!Next]_(Store!vars)
<1>1. CASE \E how, cs : ClientDies(k, how, cs)
  BY <1>1, EndRefines
<1>2. CASE cpc[k] = "idle" /\ cmd' = [cmd EXCEPT ![k] = r] /\ sent' = now
  <2>1. DOMAIN cmd = Clients /\ cmd[k] = NoCommand
    BY <1>2 DEF SysInv, ClientInv
  <2>2. cmd'[k] = r
    BY <1>2, <2>1
  <2>3. Op(k) = [kind |-> "NONE"]
    BY <2>1, OpKindHolds DEF OpKind
  <2>4. r # NoCommand
    BY DEF NoCommand, StoreOf
  <2>5. told'[k] = NoAnswer
    BY <1>2, <2>2, <2>4, ToldAfter
  <2>6. ~done[k] /\ view[k] = NoView
    BY <2>1 DEF HistInv, OwnInv, NoCommand
  <2>7. CASE r = [kind |-> "RETRIEVE"] /\ now = sent
    <3>1. view'[k] = NoView
      BY <2>2, <2>6, <2>7, ViewAfter, ClientOnly DEF OnlyAbout
    <3>2. Op(k)' = [kind |-> "RETRIEVE", view |-> NoView]
      BY <2>2, <2>7, <3>1, OpKindAfter DEF OpKind
    <3>3. Store!RequestRetrieve(k)
      BY <1>2, <2>3, <2>5, <2>7, <3>2, ClientOnly
      DEF OnlyAbout, Store!RequestRetrieve, Store!Request, Store!Retrieving, Store!NoOp, Store!NoView,
          Store!NoAnswer, NoAnswer, NoView, Ops
    <3> QED
      BY <3>3 DEF Store!Next
  <2>8. ASSUME NEW d \in Data, r = StoreOf(d), now = [sent EXCEPT ![d] = @ + 1]
        PROVE  [Store!Next]_(Store!vars)
    <3>1. done'[k] = FALSE
      <4>1. ~done'[k]
        BY <2>6, ClientOnly DEF OnlyAbout
      <4>2. OwnInv'
        BY OwnStep DEF HistInv
      <4> QED
        BY <4>1, <4>2 DEF OwnInv
    <3>2. cmd'[k].kind = "STORE" /\ cmd'[k].data = d
      BY <2>2, <2>8 DEF StoreOf
    <3>3. Op(k)' = [kind |-> "STORE", data |-> d, done |-> FALSE]
      BY <3>1, <3>2, OpKindAfter DEF OpKind
    <3>4. Store!RequestStore(k, d)
      BY <1>2, <2>3, <2>5, <2>8, <3>3, ClientOnly
      DEF OnlyAbout, Store!RequestStore, Store!Request, Store!Storing, Store!NoOp,
          Store!NoAnswer, NoAnswer, Ops
    <3> QED
      BY <3>4 DEF Store!Next
  <2> QED
    BY <2>7, <2>8
<1> QED
  BY <1>1, <1>2 DEF ClientSend, ClientAt

\* Client k reads an answer, or learns that there is none.
LEMMA ReceiveRefines ==
    ASSUME SysInv, SysInv', HistInv, SNext, NEW k \in Clients, ClientReceive(k),
           UNCHANGED <<chain, rpc>>
    PROVE  [Store!Next]_(Store!vars)
<1>1. OnlyAbout(k)
  BY ClientOnly DEF ClientStep
<1>2. DOMAIN cmd = Clients /\ DOMAIN cpc = Clients
  BY DEF SysInv, ClientInv
<1>3. cpc[k] = "await" /\ cpc'[k] = "idle" /\ cmd'[k] = NoCommand /\ sent' = sent
  BY <1>2 DEF ClientReceive, ClientAt
<1>4. told'[k] = AnswerRead(k)
  BY <1>3, ToldAfter
<1>5. Op(k)' = [kind |-> "NONE"]
  BY <1>3, OpKindAfter DEF OpKind
<1>6. cmd[k] \in Requests /\ cmd[k].kind \in {"STORE", "RETRIEVE"}
  BY <1>3 DEF SysInv, ClientInv, Requests
<1>7. CASE AnswerRead(k) = NoAnswer
  <2>1. Op(k) # [kind |-> "NONE"]
    BY <1>6, OpKindHolds DEF OpKind
  <2>2. Store!Fail(k)
    BY <1>1, <1>3, <1>4, <1>5, <1>7, <2>1
    DEF OnlyAbout, Store!Fail, Store!Answer, Store!NoOp, Store!NoAnswer, NoAnswer, Ops
  <2> QED
    BY <2>2 DEF Store!Next
<1> SUFFICES ASSUME AnswerRead(k) # NoAnswer
             PROVE  [Store!Next]_(Store!vars)
  BY <1>7
<1>8. PICK c, body : c = sockfd[k] /\ body = Received(c, "init").body
  OBVIOUS
<1>9. Readable(c, "init") /\ conns[c].inbox["init"] # << >>
  BY <1>8 DEF AnswerRead, Readable, AtEnd
<1>10. AnswersCommand(cmd[k], body)
  BY <1>3, <1>8, <1>9, AnswersKind DEF AtEnd
<1>11. c \in DOMAIN conns /\ conns[c].who["init"] = k
  BY <1>3, <1>8, Asking DEF AskingNow
<1>12. body = Head(conns[c].inbox["init"]).body
  BY <1>8 DEF Received
<1>13. CASE cmd[k].kind = "STORE"
  <2>1. body.kind \in {"DATA_STORED", "NO_RESPONSE"}
    BY <1>10, <1>13 DEF AnswersCommand
  <2>2. body.kind = "DATA_STORED" /\ AnswerRead(k) = <<"stored">>
    BY <1>8, <1>9, <2>1 DEF AnswerRead
  <2>3. AckIn(conns[c])
    BY <1>9, <1>12, <2>2 DEF AckIn, AnswerIn
  <2>4. done[k]
    BY <1>11, <2>3 DEF HistInv, DoneInv, DoneAt, AckFor
  <2>5. Op(k) = [kind |-> "STORE", data |-> cmd[k].data, done |-> done[k]]
    BY <1>13, OpKindHolds DEF OpKind
  <2>6. Op(k).kind = "STORE" /\ Op(k).done
    BY <2>4, <2>5
  <2>7. Store!Answer(k, <<"stored">>)
    BY <1>1, <1>3, <1>4, <1>5, <2>2 DEF OnlyAbout, Store!Answer, Store!NoOp, Ops
  <2>8. Ops[k] = Op(k)
    BY <1>1 DEF OnlyAbout
  <2>9. Store!AnswerStore(k)
    BY <2>6, <2>7, <2>8 DEF Store!AnswerStore, Store!Stored, Ops
  <2> QED
    BY <2>9 DEF Store!Next
<1>14. CASE cmd[k].kind = "RETRIEVE"
  <2>1. body.kind = "LIST"
    BY <1>10, <1>14 DEF AnswersCommand
  <2>2. AnswerRead(k) = <<"listing", [s \in Servers |-> ShownPart(body.parts[s + 1])]>>
    BY <1>8, <1>9, <2>1 DEF AnswerRead
  <2>3. ListIn(conns[c])
    BY <1>9, <1>12, <2>1 DEF ListIn, AnswerIn
  <2>4. ShowsAll(body.parts, view[k])
    BY <1>11, <1>12, <2>3 DEF HistInv, ListedInv, ListedAt
  <2>5. view[k] # NoView
    BY <2>4, NetAssumption DEF ShowsAll, NoView, Servers
  <2>6. Op(k) = [kind |-> "RETRIEVE", view |-> view[k]]
    BY <1>14, OpKindHolds DEF OpKind
  <2>7. PICK refusing : refusing = {s \in Servers : ~Shows(body.parts[s + 1])}
    OBVIOUS
  <2>8. ASSUME NEW s \in Servers
        PROVE  ShownPart(body.parts[s + 1]) =
                   IF s \in refusing THEN <<"refused">> ELSE <<"shown", view[k][s]>>
    <3>1. ShowsOf(body.parts[s + 1], view[k][s])
      BY <2>4 DEF ShowsAll
    <3> QED
      BY <2>7, <3>1 DEF ShownPart, ShowsOf, Shows
  <2>9. PICK answer : answer = <<"listing", [s \in Servers |->
                IF s \in refusing THEN <<"refused">> ELSE <<"shown", view[k][s]>>]>>
    OBVIOUS
  <2>10. AnswerRead(k) = answer
    BY <2>2, <2>8, <2>9
  <2>11. Store!Answer(k, answer)
    BY <1>1, <1>3, <1>4, <1>5, <2>10 DEF OnlyAbout, Store!Answer, Store!NoOp, Ops
  <2>12. Ops[k] = Op(k)
    BY <1>1 DEF OnlyAbout
  <2>13. Ops[k].kind = "RETRIEVE" /\ Ops[k].view = view[k]
    BY <2>6, <2>12
  <2>14. refusing \in SUBSET Servers
    BY <2>7
  <2>15. answer = Store!Listing([s \in Servers |->
             IF s \in refusing THEN Store!Refused ELSE Store!Shown(Ops[k].view[s])])
    BY <2>9, <2>13 DEF Store!Listing, Store!Refused, Store!Shown
  <2>16. Store!AnswerRetrieve(k)
    BY <2>5, <2>11, <2>13, <2>14, <2>15
    DEF Store!AnswerRetrieve, Store!NoView, NoView, Ops
  <2> QED
    BY <2>16 DEF Store!Next
<1> QED
  BY <1>6, <1>13, <1>14

\* A step of client k or of its user.
LEMMA ClientRefines ==
    ASSUME SysInv, SysInv', HistInv, SNext, NEW k \in Clients,
           ClientStep(k) \/ UserStep(k) \/ KillClient(k), UNCHANGED <<servervars, routervars>>
    PROVE  [Store!Next]_(Store!vars)
<1>1. UNCHANGED <<chain, rpc>>
  BY DEF servervars, routervars
<1>2. CASE \E how, cs : ClientDies(k, how, cs)
  BY <1>1, <1>2, EndRefines
<1>3. CASE UNCHANGED <<cmd, sent>>
  <2>1. told' = told /\ Ops' = Ops /\ Contents' = Contents /\ performed' = performed
    BY <1>1, <1>3, ClientOnly DEF OnlyAbout
  <2> QED
    BY <1>3, <2>1 DEF Store!vars, Ops
<1>4. CASE ClientSendHello(k) \/ ClientRecvHello(k) \/ ClientConnect(k)
  BY <1>2, <1>3, <1>4 DEF ClientSendHello, ClientRecvHello, ClientConnect
<1>5. CASE ClientReceive(k)
  BY <1>1, <1>5, ReceiveRefines
<1>6. CASE ClientRetrieve(k)
  BY <1>1, <1>6, SendRefines DEF ClientRetrieve, UserStep
<1>7. ASSUME NEW d \in Data, ClientStore(k, d)
      PROVE  [Store!Next]_(Store!vars)
  <2>1. PICK r, now : r = StoreOf(d) /\ now = [sent EXCEPT ![d] = @ + 1]
    OBVIOUS
  <2>2. ClientSend(k, r, now)
    BY <1>7, <2>1 DEF ClientStore, StoreOf
  <2>3. UserStep(k)
    BY <1>7 DEF UserStep
  <2> QED
    BY <1>1, <2>1, <2>2, <2>3, SendRefines
<1>8. CASE ClientExit(k) \/ KillClient(k)
  BY <1>2, <1>8 DEF ClientExit, KillClient
<1> QED
  BY <1>4, <1>5, <1>6, <1>7, <1>8 DEF ClientStep, UserStep

\* Every step of the system is a step of the store, or none.
LEMMA NextRefines ==
    ASSUME SysInv, SysInv', CountInv, LogInv, HistInv, SNext, allocFails' = allocFails
    PROVE  [Store!Next]_(Store!vars)
<1>1. ASSUME NEW s \in Servers, ServerRuns(s)
      PROVE  [Store!Next]_(Store!vars)
  BY <1>1, ServerRefines DEF ServerRuns
<1>2. CASE RouterRuns
  BY <1>2, RouterRefines DEF RouterRuns
<1>3. ASSUME NEW k \in Clients, ClientRuns(k) \/ UserActs(k)
      PROVE  [Store!Next]_(Store!vars)
  BY <1>3, ClientRefines DEF ClientRuns, UserActs
<1>4. ASSUME NEW s \in Servers, UNCHANGED <<chain, routervars, clientvars>>
      PROVE  [Store!Next]_(Store!vars)
  BY <1>4, ServerUnseen
<1>5. 0 \in Servers
  BY NetAssumption DEF Servers
<1>6. ASSUME UNCHANGED <<servervars, clientvars>>, rpc' # "await"
      PROVE  [Store!Next]_(Store!vars)
  <2>1. UNCHANGED <<chain, cmd, sent>>
    BY <1>6 DEF servervars, clientvars
  <2>2. NoGrowth
    BY <1>5, <2>1, ChainsNoGrowth
  <2>3. Contents' = Contents
    BY <2>1 DEF Contents
  <2>4. \A k \in Clients : ~Begins(k)
    BY <1>6 DEF Begins
  <2> QED
    BY <2>1, <2>2, <2>3, <2>4, Unseen
<1>7. ASSUME NEW p \in Procs, Kill(p)
      PROVE  [Store!Next]_(Store!vars)
  <2>1. CASE p \in Servers /\ KillServer(p)
    BY <2>1, ServerUnseen DEF KillServer, ServerGone
  <2>2. CASE KillRouter
    BY <1>6, <2>2 DEF KillRouter, RouterDies, RouterGone
  <2>3. CASE p \in Clients /\ KillClient(p)
    BY <2>3, ClientRefines DEF KillClient
  <2> QED
    BY <1>7, <2>1, <2>2, <2>3 DEF Kill
<1>8. CASE Restart
  <2>1. \/ rpc' # "await" /\ UNCHANGED <<servervars, clientvars>>
        \/ UNCHANGED <<chain, routervars, clientvars>>
    BY <1>8 DEF Restart, ServerStart, RouterStart, Begin, SysInv, RouterInv, servervars
  <2> QED
    BY <1>4, <1>5, <1>6, <2>1
<1> QED
  BY <1>1, <1>2, <1>3, <1>7, <1>8 DEF SNext, Next

\* The initial states.
LEMMA InitRefines == SInit => Store!Init
<1> SUFFICES ASSUME SInit
             PROVE  Store!Init
  OBVIOUS
<1>1. /\ chain = [s \in Servers |-> << >>] /\ cmd = [c \in Clients |-> NoCommand]
      /\ sent = Nothing /\ performed = Nothing /\ told = [c \in Clients |-> NoAnswer]
  BY DEF SInit, Init, ServerInit, ClientInit
<1>2. Payloads(<< >>) = << >>
  BY DEF Payloads
<1>3. Contents = [s \in Servers |-> << >>]
  BY <1>1, <1>2 DEF Contents
<1>4. \A c \in Clients : Op(c) = [kind |-> "NONE"]
  BY <1>1 DEF Op, NoCommand
<1> QED
  BY <1>1, <1>3, <1>4 DEF Store!Init, Store!NoOp, Store!NoAnswer, NoAnswer, Nothing

\* No malloc that failed is ever undone.
LEMMA FailsCounted ==
    ASSUME SysInv, [Next]_vars
    PROVE  allocFails' = allocFails \/ (allocFails \in Nat /\ allocFails' = allocFails + 1)
<1>1. allocFails \in Nat
  BY ServerAssumption DEF SysInv, ShardInv
<1>2. ASSUME NEW s \in Servers, ServerStep(s)
      PROVE  allocFails' = allocFails \/ allocFails' = allocFails + 1
  <2>1. CASE ServerAccept(s)
    BY <2>1 DEF ServerAccept
  <2>2. CASE ServerHandshake(s)
    BY <2>2 DEF ServerHandshake, ServerGone
  <2>3. CASE ServerServe(s)
    BY <2>3 DEF ServerServe, ServerRetrieve, ServerStore
  <2> QED
    BY <1>2, <2>1, <2>2, <2>3 DEF ServerStep
<1>3. CASE UNCHANGED servervars
  BY <1>3 DEF servervars
<1>4. CASE UNCHANGED vars
  BY <1>3, <1>4 DEF vars
<1>5. ASSUME NEW s \in Servers, ServerRuns(s)
      PROVE  allocFails' = allocFails \/ allocFails' = allocFails + 1
  BY <1>2, <1>5 DEF ServerRuns
<1>6. CASE RouterRuns \/ \E k \in Clients : ClientRuns(k) \/ UserActs(k)
  BY <1>3, <1>6 DEF RouterRuns, ClientRuns, UserActs
<1>7. ASSUME NEW p \in Procs, Kill(p)
      PROVE  allocFails' = allocFails
  BY <1>3, <1>7 DEF Kill, KillServer, KillRouter, KillClient, ServerGone, servervars
<1>8. CASE Restart
  BY <1>3, <1>8 DEF Restart, ServerStart
<1> QED
  BY <1>1, <1>4, <1>5, <1>6, <1>7, <1>8 DEF Next

\* The history invariant holds until a malloc fails.
LEMMA StoreHist == SSpec => [](SysInv /\ CountInv /\ LogInv /\ (allocFails = 0 => HistInv))
<1>1. SInit => Init /\ HistInv
  BY InitHist DEF SInit
<1>2. [SNext]_svars => [Next]_vars
  BY DEF SNext, svars
<1>3. SSpec => [](SysInv /\ CountInv /\ LogInv)
  BY <1>1, <1>2, SystemLog, PTL DEF SSpec, Spec
<1>4. /\ SysInv /\ CountInv /\ LogInv /\ (allocFails = 0 => HistInv) /\ SysInv'
      /\ [SNext]_svars
      => (allocFails = 0 => HistInv)'
  <2> SUFFICES ASSUME SysInv, SysInv', CountInv, LogInv, allocFails = 0 => HistInv,
                      [SNext]_svars, allocFails' = 0
               PROVE  HistInv'
    OBVIOUS
  <2>1. allocFails' = allocFails /\ HistInv
    BY <1>2, FailsCounted
  <2> QED
    BY <2>1, NextHist, StutterHist
<1> QED
  BY <1>1, <1>3, <1>4, PTL DEF SSpec

\* What client k may read is the answer to its own last command.
LEMMA AnswerIsOwn ==
    ASSUME SysInv, HistInv, NEW k \in Clients, cpc[k] = "await", ~AtEnd(sockfd[k], "init")
    PROVE  OwnAnswer(k, Received(sockfd[k], "init").body)
<1>1. PICK c, body : c = sockfd[k] /\ body = Received(c, "init").body
  OBVIOUS
<1>2. c \in DOMAIN conns /\ conns[c].who["init"] = k
  BY <1>1, Asking DEF AskingNow
<1>3. conns[c].inbox["init"] # << >> /\ body = Head(conns[c].inbox["init"]).body
  BY <1>1 DEF Received, AtEnd
<1>4. ASSUME body.kind = "DATA_STORED"
      PROVE  done[k]
  <2>1. AckIn(conns[c])
    BY <1>3, <1>4 DEF AckIn, AnswerIn
  <2> QED
    BY <1>2, <2>1 DEF HistInv, DoneInv, DoneAt, AckFor
<1>5. ASSUME body.kind = "LIST"
      PROVE  /\ view[k] # NoView
             /\ \A s \in Servers :
                    body.parts[s + 1].kind \in {"BLOCKS", "NO_DATA"} =>
                        Payloads(body.parts[s + 1].blocks) = view[k][s]
  <2>1. ListIn(conns[c])
    BY <1>3, <1>5 DEF ListIn, AnswerIn
  <2>2. ShowsAll(body.parts, view[k])
    BY <1>2, <1>3, <2>1 DEF HistInv, ListedInv, ListedAt
  <2>3. view[k] # NoView
    BY <2>2, NetAssumption DEF ShowsAll, NoView, Servers
  <2>4. \A s \in Servers : ShowsOf(body.parts[s + 1], view[k][s])
    BY <2>2 DEF ShowsAll
  <2> QED
    BY <2>3, <2>4 DEF ShowsOf, Shows
<1> QED
  BY <1>1, <1>4, <1>5 DEF OwnAnswer

(***************************************************************************)
(* What a client reads answers its own last command, never an earlier one  *)
(* or that of another client, although router.c and client.c take whatever *)
(* they read next as the answer: a store is acknowledged only after it was *)
(* put into a shard while the router served this client (or a malloc       *)
(* failed), and a list shows the shards as they were when the router began *)
(* with this retrieve.                                                     *)
(***************************************************************************)
THEOREM SystemAnswersMatch == SSpec => []AnswersMatch
<1>1. SysInv /\ (allocFails = 0 => HistInv) => AnswersMatch
  <2> SUFFICES ASSUME SysInv, allocFails = 0 => HistInv,
                      NEW k \in Clients, cpc[k] = "await", ~AtEnd(sockfd[k], "init")
               PROVE  /\ AnswersCommand(cmd[k], Received(sockfd[k], "init").body)
                      /\ allocFails = 0 => OwnAnswer(k, Received(sockfd[k], "init").body)
    BY DEF AnswersMatch
  <2> QED
    BY AnswersKind, AnswerIsOwn
<1> QED
  BY <1>1, StoreHist, PTL

(***************************************************************************)
(* The system implements the sharded store, for every number of servers    *)
(* and clients, whoever is killed and started again and whenever, as long  *)
(* as no malloc fails in store_data (server.c acknowledges a store that    *)
(* malloc made it drop: no store that forgets only with its server does).  *)
(***************************************************************************)
THEOREM SystemImplementsStore == SSpec /\ [](allocFails = 0) => ImplementsStore
<1>1. SInit => Store!Init
  BY InitRefines
<1>2. SSpec /\ [](allocFails = 0) => [](SysInv /\ CountInv /\ LogInv /\ HistInv)
  BY StoreHist, PTL
<1>3. /\ SysInv /\ CountInv /\ LogInv /\ HistInv /\ allocFails = 0 /\ [SNext]_svars
      /\ SysInv' /\ (allocFails = 0)'
      => [Store!Next]_(Store!vars)
  <2> SUFFICES ASSUME SysInv, SysInv', CountInv, LogInv, HistInv, [SNext]_svars,
                      allocFails' = allocFails
               PROVE  [Store!Next]_(Store!vars)
    OBVIOUS
  <2>1. CASE SNext
    BY <2>1, NextRefines
  <2>2. CASE UNCHANGED svars
    <3>1. UNCHANGED <<chain, cmd, sent, performed, done, view, told>>
      BY <2>2 DEF svars, vars, servervars, clientvars
    <3>2. Contents' = Contents /\ \A c \in Clients : Op(c)' = Op(c)
      BY <3>1 DEF Contents, Op
    <3>3. UNCHANGED Store!vars
      BY <3>1, <3>2 DEF Store!vars
    <3> QED
      BY <3>3
  <2> QED
    BY <2>1, <2>2
<1>4. SSpec /\ [](allocFails = 0) => [][Store!Next]_(Store!vars)
  BY <1>2, <1>3, PTL DEF SSpec
<1> QED
  BY <1>1, <1>4, PTL DEF SSpec, ImplementsStore, Store!Spec

=============================================================================
