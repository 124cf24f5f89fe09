------------------------------- MODULE Chain -------------------------------
(***************************************************************************)
(* The block chain that one storage server keeps in memory (server.c), as  *)
(* operators on the list of blocks that starts at blockchain_head.         *)
(*                                                                         *)
(* Hashes.  compute_hash digests the string data ++ previous_hash with     *)
(* SHA-256.  The model takes the digest to be collision free and           *)
(* represents it by what it commits to: the digest of data d under the     *)
(* previous hash h is the sequence h extended with d, and the empty string *)
(* (the previous hash of the first block) is the empty sequence.           *)
(***************************************************************************)
EXTENDS Naturals, Sequences

CONSTANTS
    Data,      \* the payloads a client may store
    DATA_LEN   \* the length in characters of the longest payload

(* server.h: MAX_LINE is 256, a block keeps at most MAX_LINE - 1 of them.  *)
ASSUME DataAssumption == DATA_LEN \in 1 .. 255

HASH_LEN == 64              \* hexadecimal SHA-256 digest, HASH_SIZE - 1
RESPONSE_MAX == 256 * 100   \* size of the buffer response in retrieve_data

Hashes == Seq(Data)
NoHash == << >>

Block == [data : Data, hash : Hashes, previous_hash : Hashes]

\* The payloads of a list of blocks.
Payloads(ch) == [i \in 1 .. Len(ch) |-> ch[i].data]

(***************************************************************************)
(* compute_hash: the digest, and the block with the previous hash written  *)
(* into it, which the C function does as its last statement.               *)
(***************************************************************************)
Digest(data, previous_hash) == Append(previous_hash, data)

WithPrevious(block, previous_hash) ==
    [block EXCEPT !.previous_hash = previous_hash]

(***************************************************************************)
(* validate_blockchain walks the list with expected_previous_hash, which   *)
(* is empty at the first block and the stored hash of the block before     *)
(* otherwise.  At every block it visits it calls compute_hash (which       *)
(* rewrites the block's previous_hash) before it makes its two checks, and *)
(* it stops at the first block that fails one.                             *)
(***************************************************************************)
ExpectedPrevious(ch, i) == IF i = 1 THEN NoHash ELSE ch[i - 1].hash

\* Mutant: the hash of a block is not compared.
Mut_HashMatches(ch, i) == TRUE

HashMatches(ch, i) ==
    ch[i].hash = Digest(ch[i].data, ExpectedPrevious(ch, i))

LinkMatches(ch, i) ==
    LET block == WithPrevious(ch[i], ExpectedPrevious(ch, i))
    IN  i # 1 => block.previous_hash = ExpectedPrevious(ch, i)

BlockMatches(ch, i) == HashMatches(ch, i) /\ LinkMatches(ch, i)

ValidChain(ch) == \A i \in 1 .. Len(ch) : BlockMatches(ch, i)

Visited(ch) ==
    {i \in 1 .. Len(ch) : \A j \in 1 .. (i - 1) : BlockMatches(ch, j)}

\* The list as validate_blockchain leaves it.
Validated(ch) ==
    [i \in 1 .. Len(ch) |->
        IF i \in Visited(ch)
        THEN WithPrevious(ch[i], ExpectedPrevious(ch, i))
        ELSE ch[i]]

(***************************************************************************)
(* store_data: the new block is hashed over the hash of blockchain_head,   *)
(* appended after the last block, and the list is validated.               *)
(***************************************************************************)
\* Mutant: the new block is linked to the last block.
Mut_StorePrevious(ch) == IF ch = << >> THEN NoHash ELSE ch[Len(ch)].hash

StorePrevious(ch) == IF ch = << >> THEN NoHash ELSE ch[1].hash

\* Mutant: the computed hash is not written to the block.
Mut_NewBlock(ch, payload) ==
    [data |-> payload, previous_hash |-> StorePrevious(ch)]

NewBlock(ch, payload) ==
    [data          |-> payload,
     hash          |-> Digest(payload, StorePrevious(ch)),
     previous_hash |-> StorePrevious(ch)]

\* Mutant: a payload that is in the chain already is not stored again.
Mut_StoreData(ch, payload) ==
    IF \E i \in 1 .. Len(ch) : ch[i].data = payload THEN Validated(ch)
    ELSE Validated(Append(ch, NewBlock(ch, payload)))


StoreData(ch, payload) == Validated(Append(ch, NewBlock(ch, payload)))

(***************************************************************************)
(* retrieve_data: the reply it builds, and the reply's length.             *)
(***************************************************************************)
Reply(kind, blocks) == [kind |-> kind, blocks |-> blocks]

\* Mutant: the loop over the blocks stops one block early.
Mut_RetrieveReply(ch) ==
    IF ~ValidChain(ch) THEN Reply("INVALID", << >>)
    ELSE IF ch = << >> THEN Reply("NO_DATA", << >>)
    ELSE Reply("BLOCKS", SubSeq(Validated(ch), 1, Len(ch) - 1))

RetrieveReply(ch) ==
    IF ~ValidChain(ch) THEN Reply("INVALID", << >>)
    ELSE IF ch = << >> THEN Reply("NO_DATA", << >>)
    ELSE Reply("BLOCKS", Validated(ch))

Least(m, n) == IF m <= n THEN m ELSE n

(* "Data: d\nHash: h\nPrevious Hash: p\n\n" has 31 characters besides d, h *)
(* and p; the first block prints no previous hash.                         *)
BlocksLen(n) ==
    Least(n * (31 + DATA_LEN + 2 * HASH_LEN) - HASH_LEN, RESPONSE_MAX - 1)

ReplyLen(reply) ==
    CASE reply.kind = "INVALID"     -> 54
      [] reply.kind = "NO_DATA"     -> 7
      [] reply.kind = "DATA_STORED" -> 11
      [] reply.kind = "BLOCKS"      -> BlocksLen(Len(reply.blocks))
      [] OTHER                      -> 38 \* router.c: "Reached size limit..."

=============================================================================
