------------------------------- MODULE Shard -------------------------------
(***************************************************************************)
(* One shard: the block chain of a storage server (server.c) under the two *)
(* requests that reach it, store_data and retrieve_data, and under faults  *)
(* that overwrite a field of a block in memory.  The faults are external:  *)
(* they are what the chain is validated for ("Tamper Detection" in the     *)
(* repository's README).                                                   *)
(***************************************************************************)
EXTENDS Chain

CONSTANT MaxBlocks   \* bound: blocks stored

ASSUME MaxBlocksAssumption == MaxBlocks \in Nat

VARIABLES
    chain,     \* the list that starts at blockchain_head
    response,  \* what the last request answered, NoReply if not a retrieve
    stored,    \* history: the payloads stored, in order
    relinked   \* history: the blocks after the first whose link a fault
               \* replaced by one to another block than the one before

vars == <<chain, response, stored, relinked>>

NoReply == Reply("NONE", << >>)

Replies == [kind : {"NONE", "INVALID", "NO_DATA", "BLOCKS"}, blocks : Seq(Block)]

TypeOK ==
    /\ chain \in Seq(Block)
    /\ response \in Replies
    /\ stored \in Seq(Data)
    /\ relinked \subseteq 2 .. Len(chain)

Init ==
    /\ chain = << >>
    /\ response = NoReply
    /\ stored = << >>
    /\ relinked = {}

Store(d) ==
    /\ Len(chain) < MaxBlocks
    /\ chain' = StoreData(chain, d)
    /\ stored' = Append(stored, d)
    /\ response' = NoReply
    /\ UNCHANGED relinked

Retrieve ==
    /\ chain' = Validated(chain)
    /\ response' = RetrieveReply(chain)
    /\ UNCHANGED <<stored, relinked>>

\* External: the payload of a stored block is overwritten.
CorruptData(i, d) ==
    /\ d # chain[i].data
    /\ chain' = [chain EXCEPT ![i].data = d]
    /\ response' = NoReply
    /\ UNCHANGED <<stored, relinked>>

\* External: the previous_hash of a stored block is overwritten.  The first
\* block has no block before it, and a later fault may put a link right.
CorruptLink(i, h) ==
    /\ h # chain[i].previous_hash
    /\ chain' = [chain EXCEPT ![i].previous_hash = h]
    /\ response' = NoReply
    /\ relinked' = IF i = 1 \/ h = ExpectedPrevious(chain, i)
                   THEN relinked \ {i}
                   ELSE relinked \cup {i}
    /\ UNCHANGED stored

Corrupt ==
    \E i \in 1 .. Len(chain) :
        \/ \E d \in Data : CorruptData(i, d)
        \/ \E j \in 1 .. Len(chain) : CorruptLink(i, chain[j].hash)

Next ==
    \/ \E d \in Data : Store(d)
    \/ Retrieve
    \/ Corrupt

Spec == Init /\ [][Next]_vars

\* The same shard in a memory that keeps what is written to it.
SpecNoFaults == Init /\ [][(\E d \in Data : Store(d)) \/ Retrieve]_vars

-----------------------------------------------------------------------------
(***************************************************************************)
(* What a retrieve returns is what was stored: if retrieve_data answers    *)
(* with blocks, then they are all the payloads stored so far, in order,    *)
(* and every block names its predecessor's hash, whatever payload or link  *)
(* was overwritten in memory between the requests.                         *)
(***************************************************************************)
RetrieveIsFaithful ==
    response.kind = "BLOCKS" =>
        /\ Len(response.blocks) = Len(stored)
        /\ \A i \in 1 .. Len(stored) :
               /\ response.blocks[i].data = stored[i]
               /\ response.blocks[i].previous_hash
                      = ExpectedPrevious(response.blocks, i)

(***************************************************************************)
(* store_data links every block to the first one, validate_blockchain      *)
(* expects a link to the block before: from its third block on, a shard    *)
(* never validates again and so refuses every retrieve.                    *)
(***************************************************************************)
UnreadableBeyondTwo == Len(chain) >= 3 => ~ValidChain(chain)

(***************************************************************************)
(* A reply of the shard fits the 2048 characters that                      *)
(* receive_encypted_data can take, although retrieve_data itself allows    *)
(* for 25599.                                                              *)
(***************************************************************************)
ReplyFits == response.kind # "NONE" => ReplyLen(response) <= 2048

-----------------------------------------------------------------------------
(***************************************************************************)
(* What the repository's README says of the chain.                         *)
(***************************************************************************)

\* README.md, validate_blockchain: "Detects and reports tampering": a chain
\* that nobody tampered with is valid, so that retrieve_data returns it.
UntamperedIsValid == ValidChain(chain)

\* README.md, "Tamper Detection", and server.c, "if not first block, validate
\* the previous hash": a block after the first that a fault linked to another
\* block than the one before is detected, so that no later retrieve returns
\* blocks.  (It is not: compute_hash puts the link right before the check.)
RelinkDetected == relinked # {} => response.kind # "BLOCKS"

=============================================================================
