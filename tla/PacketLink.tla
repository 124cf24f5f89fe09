----------------------------- MODULE PacketLink -----------------------------
(***************************************************************************)
(* What two ends of a connection may rely on: packets arrive whole, in the *)
(* order they were sent and at most once, but some may be dropped.         *)
(***************************************************************************)
EXTENDS Naturals, Sequences

CONSTANTS
    Ends,
    Packet,    \* the packets that may be sent
    Nothing    \* no packet

VARIABLES
    link,   \* per end: the packets on their way to it
    last    \* per end: the packet it received last

vars == <<link, last>>

Init ==
    /\ link = [e \in Ends |-> << >>]
    /\ last = [e \in Ends |-> Nothing]

Send(e, packet) ==
    /\ link' = [link EXCEPT ![e] = Append(@, packet)]
    /\ UNCHANGED last

Deliver(e) ==
    /\ link[e] # << >>
    /\ last' = [last EXCEPT ![e] = Head(link[e])]
    /\ link' = [link EXCEPT ![e] = Tail(@)]

Drop(e, n) ==
    /\ link' = [link EXCEPT ![e] = SubSeq(@, n + 1, Len(@))]
    /\ UNCHANGED last

Next ==
    \E e \in Ends :
        \/ \E packet \in Packet : Send(e, packet)
        \/ Deliver(e)
        \/ \E n \in 1 .. Len(link[e]) : Drop(e, n)

Spec == Init /\ [][Next]_vars

=============================================================================
