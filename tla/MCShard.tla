------------------------------ MODULE MCShard ------------------------------
(* Model checking of Shard. *)
EXTENDS Shard, TLC

MCSymmetry == Permutations(Data)

\* Bound: a chain of more than four blocks has met no fault.
MCFaultBound ==
    Len(chain) > 4 =>
        /\ relinked = {}
        /\ \A i \in 1 .. Len(chain) : chain[i].data = stored[i]

=============================================================================
