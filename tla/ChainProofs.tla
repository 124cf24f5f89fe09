---------------------------- MODULE ChainProofs ----------------------------
(***************************************************************************)
(* What the operators of Chain do to a list of blocks, for every set of    *)
(* payloads, every payload length and every number of blocks.              *)
(***************************************************************************)
EXTENDS Chain, TLAPS

(***************************************************************************)
(* The blocks of ch were hashed when the payloads ds were stored in them:  *)
(* the first one's hash is over its payload alone, and that of every later *)
(* block over its payload and the first block's hash.                      *)
(***************************************************************************)
Hashed(ch, ds) ==
    /\ Len(ch) = Len(ds)
    /\ \A i \in 1 .. Len(ch) :
           ch[i].hash = Digest(ds[i], IF i = 1 THEN NoHash ELSE ch[1].hash)

-----------------------------------------------------------------------------
\* What validate_blockchain leaves alone: it returns a list of as many
\* blocks with the same payloads and hashes, and only previous_hash differs.
LEMMA ValidatedKeeps ==
    ASSUME NEW ch \in Seq(Block)
    PROVE  /\ Validated(ch) \in Seq(Block)
           /\ Len(Validated(ch)) = Len(ch)
           /\ \A i \in 1 .. Len(ch) :
                  /\ Validated(ch)[i].hash = ch[i].hash
                  /\ Validated(ch)[i].data = ch[i].data
<1>1. \A i \in 1 .. Len(ch) : ch[i] \in Block
  OBVIOUS
<1>2. \A i \in 1 .. Len(ch) : ExpectedPrevious(ch, i) \in Hashes
  <2> TAKE i \in 1 .. Len(ch)
  <2>1. NoHash \in Hashes
    BY DEF NoHash, Hashes
  <2>2. CASE i = 1
    BY <2>1, <2>2 DEF ExpectedPrevious
  <2>3. CASE i # 1
    <3>1. i - 1 \in 1 .. Len(ch)
      BY <2>3
    <3>2. ch[i - 1].hash \in Hashes
      BY <1>1, <3>1 DEF Block
    <3> QED
      BY <2>3, <3>2 DEF ExpectedPrevious
  <2> QED
    BY <2>2, <2>3
<1>3. \A b \in Block, h \in Hashes :
          /\ WithPrevious(b, h) \in Block
          /\ WithPrevious(b, h).hash = b.hash
          /\ WithPrevious(b, h).data = b.data
          /\ WithPrevious(b, h).previous_hash = h
  BY DEF WithPrevious, Block
<1>4. \A i \in 1 .. Len(ch) :
          /\ Validated(ch)[i] \in Block
          /\ Validated(ch)[i].hash = ch[i].hash
          /\ Validated(ch)[i].data = ch[i].data
  BY <1>1, <1>2, <1>3 DEF Validated
<1>5. Validated(ch) \in [1 .. Len(ch) -> Block]
  BY <1>4 DEF Validated
<1>6. Len(ch) \in Nat
  OBVIOUS
<1>7. Validated(ch) \in Seq(Block) /\ Len(Validated(ch)) = Len(ch)
  BY <1>5, <1>6
<1> QED
  BY <1>4, <1>7

\* A chain that validates is visited to its end, so every block's
\* previous_hash is rewritten to the stored hash of the block before it.
LEMMA ValidatedLinks ==
    ASSUME NEW ch \in Seq(Block), ValidChain(ch), NEW i \in 1 .. Len(ch)
    PROVE  Validated(ch)[i].previous_hash = ExpectedPrevious(ch, i)
<1>1. i \in Visited(ch)
  BY DEF Visited, ValidChain
<1>2. ch[i] \in Block
  OBVIOUS
<1> QED
  BY <1>1, <1>2 DEF Validated, WithPrevious, Block

\* The digest is one longer than the hash it extends, and determines the
\* payload and the hash it was computed from.
LEMMA DigestInjective ==
    ASSUME NEW d \in Data, NEW e \in Data, NEW g \in Hashes, NEW h \in Hashes
    PROVE  /\ Digest(d, g) \in Hashes
           /\ Len(Digest(d, g)) = Len(g) + 1
           /\ Digest(d, g) = Digest(e, h) => d = e /\ Len(g) = Len(h)
<1>1. Len(g) \in Nat /\ Len(h) \in Nat
  BY DEF Hashes
<1>2. /\ Digest(d, g) \in Seq(Data)
      /\ Len(Digest(d, g)) = Len(g) + 1
      /\ Digest(d, g)[Len(g) + 1] = d
  BY DEF Digest, Hashes
<1>3. Len(Digest(e, h)) = Len(h) + 1 /\ Digest(e, h)[Len(h) + 1] = e
  BY DEF Digest, Hashes
<1> QED
  BY <1>1, <1>2, <1>3 DEF Hashes

\* A list of at most two blocks prints in at most 764 characters.
LEMMA TwoBlocksFit == \A n \in 0 .. 2 : BlocksLen(n) <= 2048
  BY DataAssumption DEF BlocksLen, Least, HASH_LEN, RESPONSE_MAX

-----------------------------------------------------------------------------

\* A chain with the same hashes is hashed over the same payloads: no
\* validation, and no overwritten payload or link, changes that.
LEMMA HashesKept ==
    ASSUME NEW ch0, NEW ds, Hashed(ch0, ds), Len(ch0) \in Nat,
           NEW ch, Len(ch) = Len(ch0),
           \A i \in 1 .. Len(ch0) : ch[i].hash = ch0[i].hash
    PROVE  Hashed(ch, ds)
<1>1. \A i \in 1 .. Len(ch) : i # 1 => ch[1].hash = ch0[1].hash
  <2> TAKE i \in 1 .. Len(ch)
  <2>1. 1 \in 1 .. Len(ch0)
    OBVIOUS
  <2> QED
    BY <2>1
<1> QED
  BY <1>1 DEF Hashed

\* A chain that validates holds the payloads it was hashed over, and has at
\* most two blocks: the third one's hash is as long as the second one's,
\* where validation expects it to be longer.
LEMMA ValidMeansStored ==
    ASSUME NEW ch \in Seq(Block), NEW ds \in Seq(Data), Hashed(ch, ds),
           ValidChain(ch)
    PROVE  /\ \A i \in 1 .. Len(ch) : ch[i].data = ds[i]
           /\ Len(ch) <= 2
<1>1. /\ Len(ch) \in Nat /\ Len(ch) = Len(ds)
      /\ \A i \in 1 .. Len(ch) :
             /\ ch[i].data \in Data
             /\ ch[i].hash \in Hashes
             /\ ds[i] \in Data
  <2>1. Len(ch) \in Nat /\ Len(ch) = Len(ds)
    BY DEF Hashed
  <2>2. \A i \in 1 .. Len(ch) : ch[i] \in Block /\ ds[i] \in Data
    BY <2>1
  <2> QED
    BY <2>1, <2>2 DEF Block
<1>2. NoHash \in Hashes /\ Len(NoHash) = 0
  BY DEF NoHash, Hashes
<1>3. \A i \in 1 .. Len(ch) :
          ch[i].hash = Digest(ch[i].data, ExpectedPrevious(ch, i))
  BY DEF ValidChain, BlockMatches, HashMatches
<1>4. \A i \in 1 .. Len(ch) :
          /\ ExpectedPrevious(ch, i) \in Hashes
          /\ (IF i = 1 THEN NoHash ELSE ch[1].hash) \in Hashes
  BY <1>1, <1>2 DEF ExpectedPrevious
<1>5. \A i \in 1 .. Len(ch) :
          /\ ch[i].data = ds[i]
          /\ Len(ExpectedPrevious(ch, i))
                 = Len(IF i = 1 THEN NoHash ELSE ch[1].hash)
  <2> TAKE i \in 1 .. Len(ch)
  <2> DEFINE g == ExpectedPrevious(ch, i)
             h == IF i = 1 THEN NoHash ELSE ch[1].hash
  <2>1. Digest(ch[i].data, g) = Digest(ds[i], h)
    BY <1>3 DEF Hashed
  <2>2. g \in Hashes /\ h \in Hashes
    BY <1>4
  <2>3. ch[i].data \in Data /\ ds[i] \in Data
    BY <1>1
  <2> HIDE DEF g, h
  <2>4. ch[i].data = ds[i] /\ Len(g) = Len(h)
    BY <2>1, <2>2, <2>3, DigestInjective
  <2> QED
    BY <2>4 DEF g, h
<1>6. ASSUME Len(ch) >= 3 PROVE FALSE
  <2>1. 1 \in 1 .. Len(ch) /\ 2 \in 1 .. Len(ch) /\ 3 \in 1 .. Len(ch)
    BY <1>1, <1>6
  <2>2. Len(ch[2].hash) = Len(ch[1].hash)
    <3>1. Len(ExpectedPrevious(ch, 3)) = Len(ch[1].hash)
      BY <1>5, <2>1
    <3> QED
      BY <3>1 DEF ExpectedPrevious
  <2>3. ch[2].hash = Digest(ds[2], ch[1].hash)
    BY <2>1 DEF Hashed
  <2>4. Len(ch[2].hash) = Len(ch[1].hash) + 1
    BY <1>1, <2>1, <2>3, DigestInjective
  <2>5. Len(ch[1].hash) \in Nat
    BY <1>1, <2>1 DEF Hashes
  <2> QED
    BY <2>2, <2>4, <2>5
<1> QED
  BY <1>1, <1>5, <1>6

\* store_data adds one block, with the payload and its hash, and changes no
\* payload and no hash of the others.
LEMMA StoreKeeps ==
    ASSUME NEW ch \in Seq(Block), NEW d \in Data
    PROVE  /\ StoreData(ch, d) \in Seq(Block)
           /\ Len(StoreData(ch, d)) = Len(ch) + 1
           /\ StoreData(ch, d)[Len(ch) + 1].data = d
           /\ StoreData(ch, d)[Len(ch) + 1].hash = Digest(d, StorePrevious(ch))
           /\ \A i \in 1 .. Len(ch) :
                  /\ StoreData(ch, d)[i].data = ch[i].data
                  /\ StoreData(ch, d)[i].hash = ch[i].hash
<1> DEFINE b == NewBlock(ch, d)
           more == Append(ch, b)
<1>1. StorePrevious(ch) \in Hashes
  <2>1. CASE ch = << >>
    BY <2>1 DEF StorePrevious, NoHash, Hashes
  <2>2. CASE ch # << >>
    <3>1. ch[1] \in Block
      BY <2>2
    <3> QED
      BY <2>2, <3>1 DEF StorePrevious, Block
  <2> QED
    BY <2>1, <2>2
<1>2. b \in Block /\ b.data = d /\ b.hash = Digest(d, StorePrevious(ch))
  BY <1>1, DigestInjective DEF NewBlock, Block
<1> HIDE DEF b
<1>3. /\ more \in Seq(Block) /\ Len(ch) \in Nat
      /\ Len(more) = Len(ch) + 1
      /\ more[Len(ch) + 1] = b
      /\ \A i \in 1 .. Len(ch) : more[i] = ch[i]
  BY <1>2
<1>4. StoreData(ch, d) = Validated(more)
  BY DEF StoreData, b
<1> HIDE DEF more
<1>5. /\ Validated(more) \in Seq(Block) /\ Len(Validated(more)) = Len(more)
      /\ \A i \in 1 .. Len(more) : /\ Validated(more)[i].hash = more[i].hash
                                   /\ Validated(more)[i].data = more[i].data
  BY <1>3, ValidatedKeeps
<1>6. Len(ch) + 1 \in 1 .. Len(more) /\ 1 .. Len(ch) \subseteq 1 .. Len(more)
  BY <1>3
<1> QED
  BY <1>2, <1>3, <1>4, <1>5, <1>6

\* store_data hashes the new block over the payload stored in it.
LEMMA StoreHashes ==
    ASSUME NEW ch \in Seq(Block), NEW ds \in Seq(Data), Hashed(ch, ds),
           NEW d \in Data
    PROVE  Append(ds, d) \in Seq(Data) /\ Hashed(StoreData(ch, d), Append(ds, d))
<1> DEFINE more == StoreData(ch, d)
           all == Append(ds, d)
<1>1. /\ Len(more) = Len(ch) + 1
      /\ more[Len(ch) + 1].hash = Digest(d, StorePrevious(ch))
      /\ \A i \in 1 .. Len(ch) : more[i].hash = ch[i].hash
  BY StoreKeeps
<1> HIDE DEF more
<1>2. Len(ch) \in Nat /\ Len(ds) = Len(ch)
  BY DEF Hashed
<1>3. all \in Seq(Data) /\ Len(all) = Len(ds) + 1 /\ all[Len(ds) + 1] = d
      /\ \A i \in 1 .. Len(ds) : all[i] = ds[i]
  OBVIOUS
<1> HIDE DEF all
<1>4. /\ Len(all) = Len(ch) + 1 /\ all[Len(ch) + 1] = d
      /\ \A i \in 1 .. Len(ch) : all[i] = ds[i]
  BY <1>2, <1>3
<1>5. ASSUME NEW i \in 1 .. Len(more)
      PROVE  more[i].hash = Digest(all[i], IF i = 1 THEN NoHash ELSE more[1].hash)
  <2>1. CASE i \in 1 .. Len(ch)
    <3>1. 1 \in 1 .. Len(ch)
      BY <1>2, <2>1
    <3> QED
      BY <1>1, <1>2, <1>4, <2>1, <3>1 DEF Hashed
  <2>2. CASE i = Len(ch) + 1
    <3>1. CASE ch = << >>
      <4>1. i = 1
        BY <2>2, <3>1
      <4> QED
        BY <1>1, <1>2, <1>4, <2>2, <3>1, <4>1 DEF StorePrevious
    <3>2. CASE ch # << >>
      <4>1. 1 \in 1 .. Len(ch) /\ i # 1
        BY <1>2, <2>2, <3>2
      <4> QED
        BY <1>1, <1>2, <1>4, <2>2, <3>2, <4>1 DEF StorePrevious
    <3> QED
      BY <3>1, <3>2
  <2> QED
    BY <1>1, <1>2, <2>1, <2>2
<1> QED
  BY <1>1, <1>2, <1>3, <1>4, <1>5 DEF Hashed, more, all

\* What retrieve_data answers with is short: two blocks at most.
LEMMA RetrieveReplies ==
    ASSUME NEW ch \in Seq(Block), NEW ds \in Seq(Data), Hashed(ch, ds)
    PROVE  LET reply == RetrieveReply(ch) IN
           /\ reply = Reply(reply.kind, reply.blocks)
           /\ reply.kind \in {"INVALID", "NO_DATA", "BLOCKS"}
           /\ reply.blocks \in Seq(Block)
           /\ reply.kind = "BLOCKS" => ValidChain(ch) /\ reply.blocks = Validated(ch)
           /\ ReplyLen(reply) \in Nat /\ ReplyLen(reply) <= BlocksLen(2)
<1>1. PICK reply : reply = RetrieveReply(ch)
  OBVIOUS
<1>2. BlocksLen(1) \in Nat /\ BlocksLen(2) \in Nat /\ BlocksLen(2) >= 256
      /\ BlocksLen(1) <= BlocksLen(2)
  BY DataAssumption DEF BlocksLen, Least, HASH_LEN, RESPONSE_MAX
<1>3. CASE ~ValidChain(ch)
  <2>1. reply = Reply("INVALID", << >>)
    BY <1>1, <1>3 DEF RetrieveReply
  <2>2. /\ reply.kind = "INVALID" /\ reply.blocks = << >>
        /\ reply = Reply(reply.kind, reply.blocks)
    BY <2>1 DEF Reply
  <2>3. ReplyLen(reply) = 54
    BY <2>2 DEF ReplyLen
  <2> QED
    BY <1>1, <1>2, <2>2, <2>3
<1>4. CASE ValidChain(ch) /\ ch = << >>
  <2>1. reply = Reply("NO_DATA", << >>)
    BY <1>1, <1>4 DEF RetrieveReply
  <2>2. /\ reply.kind = "NO_DATA" /\ reply.blocks = << >>
        /\ reply = Reply(reply.kind, reply.blocks)
    BY <2>1 DEF Reply
  <2>3. ReplyLen(reply) = 7
    BY <2>2 DEF ReplyLen
  <2> QED
    BY <1>1, <1>2, <2>2, <2>3
<1>5. CASE ValidChain(ch) /\ ch # << >>
  <2>1. reply = Reply("BLOCKS", Validated(ch))
    BY <1>1, <1>5 DEF RetrieveReply
  <2>2. /\ reply.kind = "BLOCKS" /\ reply.blocks = Validated(ch)
        /\ reply = Reply(reply.kind, reply.blocks)
    BY <2>1 DEF Reply
  <2>3. Validated(ch) \in Seq(Block) /\ Len(Validated(ch)) = Len(ch)
    BY ValidatedKeeps
  <2>4. Len(ch) <= 2
    BY <1>5, ValidMeansStored
  <2>5. PICK n \in Nat : n = Len(ch) /\ n # 0
    BY <1>5
  <2>6. Len(ch) = 1 \/ Len(ch) = 2
    <3>1. n = 1 \/ n = 2
      BY ONLY <2>4, <2>5
    <3> QED
      BY <2>5, <3>1
  <2>7. ReplyLen(reply) = BlocksLen(Len(ch))
    BY <2>2, <2>3 DEF ReplyLen
  <2> QED
    BY <1>1, <1>2, <1>5, <2>2, <2>3, <2>6, <2>7
<1> QED
  BY <1>3, <1>4, <1>5

-----------------------------------------------------------------------------
\* The hashes of a chain are those of the payloads it holds.
Chained(ch) == ch \in Seq(Block) /\ Hashed(ch, Payloads(ch))

\* The payloads of a chain.
LEMMA PayloadsType ==
    ASSUME NEW ch \in Seq(Block)
    PROVE  /\ Payloads(ch) \in Seq(Data) /\ Len(Payloads(ch)) = Len(ch)
           /\ \A i \in 1 .. Len(ch) : Payloads(ch)[i] = ch[i].data
<1>1. \A i \in 1 .. Len(ch) : ch[i] \in Block
  OBVIOUS
<1>2. \A i \in 1 .. Len(ch) : ch[i].data \in Data
  BY <1>1 DEF Block
<1>3. Len(ch) \in Nat
  OBVIOUS
<1>4. Payloads(ch) \in [1 .. Len(ch) -> Data]
  BY <1>2 DEF Payloads
<1> QED
  BY <1>3, <1>4 DEF Payloads

\* Validation leaves the payloads alone.
LEMMA ValidatedPayloads ==
    ASSUME NEW ch \in Seq(Block)
    PROVE  Payloads(Validated(ch)) = Payloads(ch)
  BY ValidatedKeeps DEF Payloads

\* store_data appends its payload.
LEMMA StoredPayloads ==
    ASSUME NEW ch \in Seq(Block), NEW d \in Data
    PROVE  Payloads(StoreData(ch, d)) = Append(Payloads(ch), d)
<1> DEFINE p == Payloads(StoreData(ch, d))
           q == Append(Payloads(ch), d)
<1>1. /\ StoreData(ch, d) \in Seq(Block) /\ Len(ch) \in Nat
      /\ Len(StoreData(ch, d)) = Len(ch) + 1
      /\ StoreData(ch, d)[Len(ch) + 1].data = d
      /\ \A i \in 1 .. Len(ch) : StoreData(ch, d)[i].data = ch[i].data
  BY StoreKeeps
<1>2. /\ p \in Seq(Data) /\ Len(p) = Len(ch) + 1
      /\ p[Len(ch) + 1] = d
      /\ \A i \in 1 .. Len(ch) : p[i] = ch[i].data
  <2>1. /\ p \in Seq(Data) /\ Len(p) = Len(ch) + 1
        /\ \A i \in 1 .. Len(ch) + 1 : p[i] = StoreData(ch, d)[i].data
    BY <1>1, PayloadsType
  <2>2. Len(ch) + 1 \in 1 .. Len(ch) + 1 /\ 1 .. Len(ch) \subseteq 1 .. Len(ch) + 1
    BY <1>1
  <2> HIDE DEF p
  <2> QED
    BY <1>1, <2>1, <2>2
<1>3. /\ Payloads(ch) \in Seq(Data) /\ Len(Payloads(ch)) = Len(ch)
      /\ \A i \in 1 .. Len(ch) : Payloads(ch)[i] = ch[i].data
  BY PayloadsType
<1>4. /\ q \in Seq(Data) /\ Len(q) = Len(ch) + 1
      /\ q[Len(ch) + 1] = d
      /\ \A i \in 1 .. Len(ch) : q[i] = ch[i].data
  <2>1. PICK s \in Seq(Data) : s = Payloads(ch)
    BY <1>3
  <2>2. /\ Append(s, d) \in Seq(Data) /\ Len(Append(s, d)) = Len(s) + 1
        /\ Append(s, d)[Len(s) + 1] = d
        /\ \A i \in 1 .. Len(s) : Append(s, d)[i] = s[i]
    OBVIOUS
  <2> QED
    BY <1>3, <2>1, <2>2
<1> HIDE DEF p, q
<1>5. p = q
  BY <1>1, <1>2, <1>4
<1> QED
  BY <1>5 DEF p, q

\* Storing and validating keep the hashes those of the payloads.
LEMMA ChainedKept ==
    ASSUME NEW ch, Chained(ch)
    PROVE  Chained(Validated(ch)) /\ \A d \in Data : Chained(StoreData(ch, d))
<1>1. ch \in Seq(Block) /\ Payloads(ch) \in Seq(Data) /\ Hashed(ch, Payloads(ch))
  BY PayloadsType DEF Chained
<1>2. Chained(Validated(ch))
  <2>1. /\ Validated(ch) \in Seq(Block) /\ Len(Validated(ch)) = Len(ch)
        /\ \A i \in 1 .. Len(ch) : Validated(ch)[i].hash = ch[i].hash
        /\ Len(ch) \in Nat
    BY <1>1, ValidatedKeeps
  <2>2. Hashed(Validated(ch), Payloads(ch))
    BY <1>1, <2>1, HashesKept
  <2> QED
    BY <1>1, <2>1, <2>2, ValidatedPayloads DEF Chained
<1>3. ASSUME NEW d \in Data PROVE Chained(StoreData(ch, d))
  <2>1. StoreData(ch, d) \in Seq(Block)
    BY <1>1, StoreKeeps
  <2>2. Hashed(StoreData(ch, d), Append(Payloads(ch), d))
    BY <1>1, StoreHashes
  <2> QED
    BY <1>1, <2>1, <2>2, StoredPayloads DEF Chained
<1> QED
  BY <1>2, <1>3

\* A server starts with an empty chain.
LEMMA ChainedEmpty == Chained(<< >>)
  BY DEF Chained, Hashed, Payloads

=============================================================================
