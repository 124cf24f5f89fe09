---------------------------- MODULE ShardProofs ----------------------------
(***************************************************************************)
(* Proofs about Shard, for every set of payloads, every payload length and *)
(* every number of blocks.                                                 *)
(***************************************************************************)
EXTENDS Shard, ChainProofs

(***************************************************************************)
(* The inductive invariant: no request and no fault changes the hash of a  *)
(* block, and the hash records what was stored: the first block's payload  *)
(* alone, and for every later block its payload after the first block's.   *)
(***************************************************************************)
HashInv == Hashed(chain, stored)

IInv == TypeOK /\ HashInv /\ RetrieveIsFaithful /\ ReplyFits

-----------------------------------------------------------------------------

\* A store appends a block that is hashed over its payload.
LEMMA StoreStep ==
    ASSUME IInv, NEW d \in Data, Store(d)
    PROVE  IInv'
<1>1. /\ chain \in Seq(Block) /\ stored \in Seq(Data) /\ Hashed(chain, stored)
      /\ response' = NoReply
      /\ relinked' = relinked /\ relinked \subseteq 2 .. Len(chain)
      /\ Len(chain) \in Nat
      /\ stored' = Append(stored, d)
      /\ chain' = StoreData(chain, d)
  BY DEF IInv, TypeOK, HashInv, Store
<1>2. chain' \in Seq(Block) /\ Len(chain') = Len(chain) + 1
  BY <1>1, StoreKeeps
<1>3. stored' \in Seq(Data) /\ Hashed(chain', stored')
  BY <1>1, StoreHashes
<1>4. TypeOK'
  BY <1>1, <1>2, <1>3 DEF TypeOK, NoReply, Reply, Replies
<1>5. RetrieveIsFaithful' /\ ReplyFits'
  BY <1>1 DEF RetrieveIsFaithful, ReplyFits, NoReply, Reply
<1> QED
  BY <1>3, <1>4, <1>5 DEF IInv, HashInv

\* A retrieve changes no payload and no hash; if it answers with blocks the
\* chain validated, so the answer is what was stored, and is short.
LEMMA RetrieveStep ==
    ASSUME IInv, Retrieve
    PROVE  IInv'
<1>1. /\ chain \in Seq(Block) /\ Len(chain) \in Nat
      /\ stored' = stored /\ relinked' = relinked
      /\ stored \in Seq(Data) /\ relinked \subseteq 2 .. Len(chain)
      /\ Len(chain) = Len(stored)
      /\ chain' = Validated(chain) /\ response' = RetrieveReply(chain)
  BY DEF IInv, TypeOK, HashInv, Hashed, Retrieve
<1>2. /\ Validated(chain) \in Seq(Block)
      /\ Len(Validated(chain)) = Len(chain)
      /\ \A i \in 1 .. Len(chain) :
             /\ Validated(chain)[i].hash = chain[i].hash
             /\ Validated(chain)[i].data = chain[i].data
  BY <1>1, ValidatedKeeps
<1>3. TypeOK'
  <2>1. << >> \in Seq(Block)
    OBVIOUS
  <2>2. response' \in Replies
    BY <1>1, <1>2, <2>1 DEF RetrieveReply, Reply, Replies
  <2> QED
    BY <1>1, <1>2, <2>2 DEF TypeOK
<1>4. HashInv'
  <2>1. HashInv
    BY DEF IInv
  <2> QED
    BY <1>1, <1>2, <2>1, HashesKept DEF HashInv
<1>5. CASE response'.kind = "BLOCKS"
  <2>1. ValidChain(chain) /\ response' = Reply("BLOCKS", Validated(chain))
    BY <1>1, <1>5 DEF RetrieveReply, Reply
  <2>2. /\ response'.blocks = Validated(chain)
        /\ response'.kind = "BLOCKS"
    BY <2>1 DEF Reply
  <2>3. /\ \A i \in 1 .. Len(chain) : chain[i].data = stored[i]
        /\ Len(chain) <= 2
    BY <1>1, <2>1, ValidMeansStored DEF IInv, HashInv
  <2>4. \A i \in 1 .. Len(chain) :
            ExpectedPrevious(Validated(chain), i) = ExpectedPrevious(chain, i)
    <3> TAKE i \in 1 .. Len(chain)
    <3>1. CASE i = 1
      BY <3>1 DEF ExpectedPrevious
    <3>2. CASE i # 1
      <4>1. i - 1 \in 1 .. Len(chain)
        BY <3>2
      <4> QED
        BY <1>2, <3>2, <4>1 DEF ExpectedPrevious
    <3> QED
      BY <3>1, <3>2
  <2>5. \A i \in 1 .. Len(chain) :
            Validated(chain)[i].previous_hash = ExpectedPrevious(chain, i)
    BY <1>1, <2>1, ValidatedLinks
  <2>6. RetrieveIsFaithful'
    BY <1>1, <1>2, <2>2, <2>3, <2>4, <2>5 DEF RetrieveIsFaithful
  <2>7. ReplyFits'
    <3>1. PICK n \in 0 .. 2 : n = Len(chain)
      BY <1>1, <2>3
    <3>2. ReplyLen(response') = BlocksLen(n)
      BY <1>2, <2>2, <3>1 DEF ReplyLen
    <3>3. BlocksLen(n) <= 2048
      BY TwoBlocksFit
    <3>4. ReplyLen(response') <= 2048
      BY <3>2, <3>3
    <3> QED
      BY <3>4 DEF ReplyFits
  <2> QED
    BY <1>3, <1>4, <2>6, <2>7 DEF IInv
<1>6. CASE response'.kind # "BLOCKS"
  <2>1. RetrieveIsFaithful'
    BY <1>6 DEF RetrieveIsFaithful
  <2>2. response'.kind \in {"INVALID", "NO_DATA"}
    BY <1>1, <1>6 DEF RetrieveReply, Reply
  <2>3. ReplyFits'
    BY <2>2 DEF ReplyFits, ReplyLen
  <2> QED
    BY <1>3, <1>4, <2>1, <2>3 DEF IInv
<1> QED
  BY <1>5, <1>6

\* A fault overwrites a payload or a link, never a hash.
LEMMA CorruptStep ==
    ASSUME IInv, Corrupt
    PROVE  IInv'
<1>1. /\ chain \in Seq(Block) /\ Len(chain) \in Nat
      /\ stored \in Seq(Data) /\ relinked \subseteq 2 .. Len(chain)
      /\ HashInv
      /\ \A i \in 1 .. Len(chain) : chain[i] \in Block
  BY DEF IInv, TypeOK
<1>2. PICK i \in 1 .. Len(chain) :
          \/ \E d \in Data : CorruptData(i, d)
          \/ \E j \in 1 .. Len(chain) : CorruptLink(i, chain[j].hash)
  BY DEF Corrupt
<1>3. /\ response' = NoReply
      /\ stored' = stored
      /\ relinked' \subseteq 2 .. Len(chain)
      /\ \E b \in Block : /\ chain' = [chain EXCEPT ![i] = b]
                          /\ b.hash = chain[i].hash
  <2>1. ASSUME NEW d \in Data, CorruptData(i, d)
        PROVE  <1>3
    <3> DEFINE b == [chain[i] EXCEPT !.data = d]
    <3>1. b \in Block /\ b.hash = chain[i].hash
      BY <1>1 DEF Block
    <3>2. chain' = [chain EXCEPT ![i] = b]
      BY <2>1 DEF CorruptData
    <3> HIDE DEF b
    <3> QED
      BY <1>1, <2>1, <3>1, <3>2 DEF CorruptData
  <2>2. ASSUME NEW j \in 1 .. Len(chain), CorruptLink(i, chain[j].hash)
        PROVE  <1>3
    <3> DEFINE b == [chain[i] EXCEPT !.previous_hash = chain[j].hash]
    <3>1. b \in Block /\ b.hash = chain[i].hash
      BY <1>1 DEF Block
    <3>2. chain' = [chain EXCEPT ![i] = b]
      BY <2>2 DEF CorruptLink
    <3> HIDE DEF b
    <3>3. relinked' \subseteq 2 .. Len(chain)
      <4>1. CASE i = 1
        BY <1>1, <2>2, <4>1 DEF CorruptLink
      <4>2. CASE i # 1
        <5>1. i \in 2 .. Len(chain)
          BY <1>1, <4>2
        <5>2. relinked' \in {relinked \ {i}, relinked \cup {i}}
          BY <2>2 DEF CorruptLink
        <5> QED
          BY <1>1, <5>1, <5>2
      <4> QED
        BY <4>1, <4>2
    <3> QED
      BY <2>2, <3>1, <3>2, <3>3 DEF CorruptLink
  <2> QED
    BY <1>2, <2>1, <2>2
<1>4. /\ chain' \in Seq(Block)
      /\ Len(chain') = Len(chain)
      /\ \A k \in 1 .. Len(chain) : chain'[k].hash = chain[k].hash
  BY <1>1, <1>3
<1>5. TypeOK'
  BY <1>1, <1>3, <1>4 DEF TypeOK, NoReply, Reply, Replies
<1>6. HashInv'
  BY <1>1, <1>3, <1>4, HashesKept DEF HashInv
<1>7. RetrieveIsFaithful' /\ ReplyFits'
  BY <1>3 DEF RetrieveIsFaithful, ReplyFits, NoReply, Reply
<1> QED
  BY <1>5, <1>6, <1>7 DEF IInv

-----------------------------------------------------------------------------

\* The strengthened invariant holds in every reachable state of a shard.
THEOREM Inductive == Spec => []IInv
<1>1. Init => IInv
  <2> SUFFICES ASSUME Init PROVE IInv
    OBVIOUS
  <2>1. TypeOK
    <3>1. << >> \in Seq(Block) /\ << >> \in Seq(Data)
      OBVIOUS
    <3>2. response \in Replies
      BY <3>1 DEF Init, NoReply, Reply, Replies
    <3> QED
      BY <3>1, <3>2 DEF Init, TypeOK
  <2>2. HashInv
    BY DEF Init, HashInv, Hashed
  <2>3. RetrieveIsFaithful /\ ReplyFits
    BY DEF Init, RetrieveIsFaithful, ReplyFits, NoReply, Reply
  <2> QED
    BY <2>1, <2>2, <2>3 DEF IInv
<1>2. IInv /\ [Next]_vars => IInv'
  <2> SUFFICES ASSUME IInv, [Next]_vars PROVE IInv'
    OBVIOUS
  <2>1. ASSUME NEW d \in Data, Store(d) PROVE IInv'
    BY <2>1, StoreStep
  <2>2. CASE Retrieve
    BY <2>2, RetrieveStep
  <2>3. CASE Corrupt
    BY <2>3, CorruptStep
  <2>4. CASE UNCHANGED vars
    BY <2>4 DEF vars, IInv, TypeOK, HashInv, RetrieveIsFaithful, ReplyFits
  <2> QED
    BY <2>1, <2>2, <2>3, <2>4 DEF Next
<1> QED
  BY <1>1, <1>2, PTL DEF Spec

\* The variables of a shard keep their types, whatever is stored, retrieved
\* or overwritten.
THEOREM TypeCorrect == Spec => []TypeOK
<1>1. IInv => TypeOK
  BY DEF IInv
<1> QED
  BY <1>1, Inductive, PTL

\* retrieve_data answers with blocks only if they are what was stored.
THEOREM Faithful == Spec => []RetrieveIsFaithful
<1>1. IInv => RetrieveIsFaithful
  BY DEF IInv
<1> QED
  BY <1>1, Inductive, PTL

\* A shard of three or more blocks never validates.
THEOREM Unreadable == Spec => []UnreadableBeyondTwo
<1>1. IInv => UnreadableBeyondTwo
  <2> SUFFICES ASSUME IInv, Len(chain) >= 3, ValidChain(chain) PROVE FALSE
    BY DEF UnreadableBeyondTwo
  <2>1. Len(chain) <= 2
    BY ValidMeansStored DEF IInv, HashInv, TypeOK
  <2>2. Len(chain) \in Nat
    BY DEF IInv, TypeOK
  <2> QED
    BY <2>1, <2>2
<1> QED
  BY <1>1, Inductive, PTL

\* Every answer to a retrieve fits the receive buffer of its reader.
THEOREM Fits == Spec => []ReplyFits
<1>1. IInv => ReplyFits
  BY DEF IInv
<1> QED
  BY <1>1, Inductive, PTL

=============================================================================
