----------------------------- MODULE BoundedFifo -----------------------------
(***************************************************************************)
(* What the queues between the PDCP and RLC threads promise: every item    *)
(* put in is handed over once, in the order of putting, and no more than   *)
(* Size items are on their way.                                            *)
(***************************************************************************)
EXTENDS Naturals, Sequences

CONSTANTS Size, Item

VARIABLES buffer, handed

Init == buffer = <<>> /\ handed = <<>>

Put(item) == /\ Len(buffer) < Size
             /\ buffer' = Append(buffer, item)
             /\ UNCHANGED handed

Hand == /\ buffer # <<>>
        /\ handed' = Append(handed, Head(buffer))
        /\ buffer' = Tail(buffer)

Next == (\E item \in Item : Put(item)) \/ Hand

Spec == Init /\ [][Next]_<<buffer, handed>>
=============================================================================
