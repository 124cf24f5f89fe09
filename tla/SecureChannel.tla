--------------------------- MODULE SecureChannel ---------------------------
(***************************************************************************)
(* The encrypted channel of one connection (send_encypted_data and         *)
(* receive_encypted_data of helper_func.c) on the stream of bytes that TCP *)
(* gives it, as the programs use it: one end sends a request, the other    *)
(* answers it.  A packet carries no length; whatever one recv returns is   *)
(* decrypted as one packet.                                                *)
(*                                                                         *)
(* External: TCP.  A send is cut into segments of at most MSS bytes, and   *)
(* recv returns what has arrived, up to RECV_MAX bytes.                    *)
(***************************************************************************)
EXTENDS Naturals, Sequences

CONSTANTS
    OVERHEAD,    \* bytes of nonce and tag
    RECV_MAX,    \* expected_payload_len
    MSS,         \* bytes of a segment
    Sizes,       \* the lengths of the packets that are sent, with OVERHEAD
    MaxPackets   \* bound: packets sent

\* No program sends an empty text (which its receiver would take for an error).
ASSUME ChannelAssumption ==
    /\ OVERHEAD \in Nat \ {0}
    /\ RECV_MAX \in Nat
    /\ OVERHEAD <= RECV_MAX
    /\ MSS \in Nat \ {0}
    /\ \A n \in Sizes : n \in Nat /\ OVERHEAD < n
    /\ MaxPackets \in Nat

Ends == {"init", "resp"}
Other(e) == IF e = "init" THEN "resp" ELSE "init"

VARIABLES
    pc,        \* where each end is
    unsent,    \* bytes sent to each end that have not left the sender
    arrived,   \* bytes that have arrived at each end
    last,      \* the packet that each end decrypted last
    sent,      \* packets sent so far
    errors,    \* receives that failed
    long       \* history: a packet exceeded a segment or a receive

vars == <<pc, unsent, arrived, last, sent, errors, long>>

Packet == [id : 1 .. MaxPackets, len : Sizes]
Nothing == [id |-> 0, len |-> 0]

\* The bytes of a packet, and the packet that a string of bytes decrypts to.
Bytes(packet) == [i \in 1 .. packet.len |-> <<packet, i>>]

\* Mutant: any string that starts like a packet decrypts.
Mut_Decrypts(bytes) == bytes[1][2] = 1

Decrypts(bytes) == Len(bytes) >= OVERHEAD /\ bytes = Bytes(bytes[1][1])

\* Mutant: the length of nonce and tag is counted twice.
Mut_Plaintext(bytes) == [bytes[1][1] EXCEPT !.len = @ + OVERHEAD]

Plaintext(bytes) == bytes[1][1]

Least(m, n) == IF m <= n THEN m ELSE n
First(bytes, n) == SubSeq(bytes, 1, Least(n, Len(bytes)))
After(bytes, n) == SubSeq(bytes, Least(n, Len(bytes)) + 1, Len(bytes))

Init ==
    /\ pc = [e \in Ends |-> IF e = "init" THEN "idle" ELSE "await"]
    /\ unsent = [e \in Ends |-> << >>]
    /\ arrived = [e \in Ends |-> << >>]
    /\ last = [e \in Ends |-> Nothing]
    /\ sent = 0
    /\ errors = 0
    /\ long = FALSE

TypeOK ==
    /\ pc \in [Ends -> {"idle", "await", "closed"}]
    /\ unsent \in [Ends -> Seq(Packet \X Nat)]
    /\ arrived \in [Ends -> Seq(Packet \X Nat)]
    /\ last \in [Ends -> Packet \cup {Nothing}]
    /\ sent \in 0 .. MaxPackets
    /\ errors \in Nat
    /\ long \in BOOLEAN

\* Mutant: the sender does not wait for the answer.
Mut_SendEncrypted(e, n) ==
    /\ pc[e] # "closed"
    /\ sent < MaxPackets
    /\ sent' = sent + 1
    /\ unsent' = [unsent EXCEPT ![Other(e)] = @ \o Bytes([id |-> sent', len |-> n])]
    /\ pc' = [pc EXCEPT ![e] = "await"]
    /\ long' = (long \/ n > Least(MSS, RECV_MAX))
    /\ UNCHANGED <<arrived, last, errors>>

\* send_encypted_data: end e sends a packet of n bytes and waits for the next.
SendEncrypted(e, n) ==
    /\ pc[e] = "idle"
    /\ sent < MaxPackets
    /\ sent' = sent + 1
    /\ unsent' = [unsent EXCEPT ![Other(e)] = @ \o Bytes([id |-> sent', len |-> n])]
    /\ pc' = [pc EXCEPT ![e] = "await"]
    /\ long' = (long \/ n > Least(MSS, RECV_MAX))
    /\ UNCHANGED <<arrived, last, errors>>

\* External: a segment arrives at end e.
Segment(e) ==
    /\ unsent[e] # << >>
    /\ arrived' = [arrived EXCEPT ![e] = @ \o First(unsent[e], MSS)]
    /\ unsent' = [unsent EXCEPT ![e] = After(@, MSS)]
    /\ UNCHANGED <<pc, last, sent, errors, long>>

(***************************************************************************)
(* receive_encypted_data, and what its callers do with an error: a server, *)
(* a client, and the router towards a client close the connection; the     *)
(* router towards a server takes it for an answer and goes on.             *)
(***************************************************************************)
ReceiveEncrypted(e) ==
    LET bytes == First(arrived[e], RECV_MAX) IN
    /\ pc[e] = "await"
    /\ arrived[e] # << >>
    /\ arrived' = [arrived EXCEPT ![e] = After(@, RECV_MAX)]
    /\ \/ /\ Decrypts(bytes)
          /\ last' = [last EXCEPT ![e] = Plaintext(bytes)]
          /\ pc' = [pc EXCEPT ![e] = "idle"]
          /\ UNCHANGED errors
       \/ /\ ~Decrypts(bytes)
          /\ errors' = errors + 1
          /\ \/ pc' = [d \in Ends |-> "closed"]
             \/ e = "init" /\ pc' = [pc EXCEPT ![e] = "idle"]
          /\ UNCHANGED last
    /\ UNCHANGED <<unsent, sent, long>>

Next ==
    \E e \in Ends :
        \/ \E n \in Sizes : SendEncrypted(e, n)
        \/ Segment(e)
        \/ ReceiveEncrypted(e)

Spec == Init /\ [][Next]_vars

-----------------------------------------------------------------------------
(***************************************************************************)
(* The channel is a link of packets that it may drop but never alters,     *)
(* repeats or swaps, whatever the lengths: a packet is on its way as long  *)
(* as its first byte is.                                                   *)
(***************************************************************************)
Starts(bytes) ==
    LET starts[n \in 0 .. Len(bytes)] ==   \* in the first n bytes
            IF n = 0 THEN << >>
            ELSE IF bytes[n][2] = 1 THEN Append(starts[n - 1], bytes[n][1])
            ELSE starts[n - 1]
    IN  starts[Len(bytes)]

Link == INSTANCE PacketLink
        WITH link <- [e \in Ends |-> Starts(arrived[e] \o unsent[e])]

ImplementsLink == Link!Spec

(***************************************************************************)
(* Packets that fit one segment and one receive need no framing: as long   *)
(* as all did, none was dropped, and an end whose turn it is has received  *)
(* the packet that was sent last: a request is answered with its own       *)
(* answer.                                                                 *)
(***************************************************************************)
InStep ==
    ~long =>
        /\ errors = 0
        /\ \A e \in Ends : pc[e] = "idle" => last[e].id = sent

=============================================================================
