----------------------------- MODULE UmService ------------------------------
(***************************************************************************)
(* What an RLC UM bearer promises to the PDCP entities above it: an SDU    *)
(* that is handed over is under way until it is either delivered or lost,  *)
(* and neither is ever taken back.  SDUs may overtake each other.          *)
(***************************************************************************)
CONSTANT Sdu

VARIABLE status

Status == {"new", "underway", "delivered", "lost"}

Init == status = [d \in Sdu |-> "new"]

\* One step of the bearer may accept an SDU, deliver one, and lose any number.
Follows(a, b) ==
  \/ a = b
  \/ a = "new" /\ b \in {"underway", "lost"}
  \/ a = "underway" /\ b \in {"delivered", "lost"}

Next ==
  LET before == status
      after  == status'
      arrived == {d \in Sdu : before[d] # "delivered" /\ after[d] = "delivered"}
  IN  /\ after \in [Sdu -> Status]
      /\ \A d \in Sdu : Follows(before[d], after[d])
      /\ \A d, e \in arrived : d = e

Spec == Init /\ [][Next]_status
=============================================================================
