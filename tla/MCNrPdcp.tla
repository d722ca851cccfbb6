------------------------------ MODULE MCNrPdcp -------------------------------
(***************************************************************************)
(* Five bearers in one run: a DRB over RLC UM and over RLC AM and an SRB,  *)
(* each with losses and every reset; a longer one with losses and no       *)
(* resets; and one that RLC AM loses nothing of and whose t_reordering is  *)
(* infinite.                                                               *)
(***************************************************************************)
EXTENDS NrPdcp

CONSTANT Few   \* bound: SDUs of a bearer with resets

VARIABLE bearer

DrbAm == INSTANCE NrPdcp WITH Type <- "DRB_AM"
Srb   == INSTANCE NrPdcp WITH Type <- "SRB", HasIntegrity <- TRUE
Long  == INSTANCE NrPdcp WITH Type <- "DRB_AM", MaxEpochs <- 0,
                              Suspends <- FALSE, Releases <- FALSE, Reconfigures <- FALSE
Whole == INSTANCE NrPdcp WITH Type <- "DRB_AM", Finite <- FALSE, Lossy <- FALSE, MaxEpochs <- 0,
                              Suspends <- FALSE, Releases <- FALSE, Reconfigures <- FALSE

Resets == {"DRB_UM", "DRB_AM", "SRB"}

MCInit == \/ bearer \in Resets \cup {"long"} /\ Init
          \/ bearer = "whole" /\ Whole!Init

MCNext == /\ UNCHANGED bearer
          /\ \/ bearer = "DRB_UM" /\ Next
             \/ bearer = "DRB_AM" /\ DrbAm!Next
             \/ bearer = "SRB" /\ Srb!Next
             \/ bearer = "long" /\ Long!Next
             \/ bearer = "whole" /\ Whole!Next
          /\ bearer \in Resets => submitted' <= Few

\* The timer thread of FairSpec; RLC AM delivers what it has accepted.
MCSpec == /\ MCInit /\ [][MCNext]_<<vars, bearer>>
          /\ WF_vars(FirstTick) /\ WF_vars(Expire)
          /\ WF_vars(bearer = "whole" /\ \E d \in Sdu : Whole!RlcDeliver(d))

\* With an infinite t_reordering over RLC AM (nr_pdcp_entity_recv_pdu, which
\* delivers nothing out of sequence) every SDU comes out in the end, after all
\* SDUs before it.
Arrives == []<>(bearer = "whole" => delivered = [d \in 1..submitted |-> d])
=============================================================================
