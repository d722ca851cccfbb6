----------------------------- MODULE PdcpService -----------------------------
(***************************************************************************)
(* What a PDCP bearer promises to the layer above it (SDAP or RRC): the    *)
(* SDUs that come out are SDUs that went in, in the order they went in and *)
(* each at most once.                                                      *)
(***************************************************************************)
EXTENDS Naturals, Sequences

VARIABLES submitted,    \* SDUs 1 .. submitted were handed over, in this order
          delivered     \* the SDUs handed to the layer above at the other side

vars == <<submitted, delivered>>

Init == submitted = 0 /\ delivered = <<>>

Submit == submitted' = submitted + 1 /\ UNCHANGED delivered

\* One step may deliver several SDUs: every one behind the one before it.
Deliver ==
  LET before == delivered
      after  == delivered'
      last(i) == IF i = 1 THEN 0 ELSE after[i - 1]
  IN  /\ Len(after) > Len(before)
      /\ SubSeq(after, 1, Len(before)) = before
      /\ \A i \in (Len(before) + 1)..Len(after) :
           after[i] > last(i) /\ after[i] <= submitted
      /\ UNCHANGED submitted

Next == Submit \/ Deliver

Spec == Init /\ [][Next]_vars
=============================================================================
