---------------------------- MODULE RlcAmService ----------------------------
(***************************************************************************)
(* What an RLC AM bearer promises to the two PDCP entities above it: an    *)
(* accepted SDU reaches the other side at most once, its delivery is       *)
(* confirmed at most once and only after it happened, and an SDU that was  *)
(* discarded, or was under way when the bearer was re-established, is      *)
(* neither delivered nor confirmed any more.  SDUs may overtake each other.*)
(***************************************************************************)
EXTENDS Naturals

CONSTANT Sdu

VARIABLES accepted,    \* SDUs taken over and not discarded since the last reset
          delivered,   \* how often each was handed to the receiving PDCP
          confirmed    \* how often its delivery was confirmed to the sender

vars == <<accepted, delivered, confirmed>>

Init == /\ accepted = {}
        /\ delivered = [d \in Sdu |-> 0]
        /\ confirmed = [d \in Sdu |-> 0]

Accept(d) == /\ d \notin accepted /\ delivered[d] = 0
             /\ accepted' = accepted \cup {d}
             /\ UNCHANGED <<delivered, confirmed>>

Discard(d) == /\ d \in accepted /\ delivered[d] = 0
              /\ accepted' = accepted \ {d}
              /\ UNCHANGED <<delivered, confirmed>>

Deliver(d) == /\ d \in accepted /\ delivered[d] = 0
              /\ delivered' = [delivered EXCEPT ![d] = 1]
              /\ UNCHANGED <<accepted, confirmed>>

\* One acknowledgement may confirm several SDUs.
Confirm(S) == /\ S # {}
              /\ \A d \in S : d \in accepted /\ delivered[d] = 1 /\ confirmed[d] = 0
              /\ confirmed' = [d \in Sdu |-> IF d \in S THEN 1 ELSE confirmed[d]]
              /\ UNCHANGED <<accepted, delivered>>

Reset == accepted' = {} /\ UNCHANGED <<delivered, confirmed>>

Next == \/ \E d \in Sdu : Accept(d) \/ Discard(d) \/ Deliver(d)
        \/ \E S \in SUBSET Sdu : Confirm(S)
        \/ Reset

Spec == Init /\ [][Next]_vars
=============================================================================
