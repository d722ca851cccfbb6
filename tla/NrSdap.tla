------------------------------- MODULE NrSdap --------------------------------
(***************************************************************************)
(* The SDAP entity of one PDU session: the table that maps QoS flows to    *)
(* DRBs, the thread that sends (tun), RRC, which configures the table, and *)
(* the PDCP thread, from which a received SDU may change it (reflective    *)
(* mapping).  Only add_drb, release and reception hold the PDCP lock; the  *)
(* table has none of its own.                                              *)
(***************************************************************************)
EXTENDS Naturals, Sequences, FiniteSets

CONSTANTS Drb,          \* DRB identities, numbers from 1
          Qfi,          \* QoS flows
          Header,       \* the DRBs that RRC configures with an UL SDAP header
          Releases,     \* bound: DRBs released
          Changes,      \* bound: reconfigurations
          MaxSent       \* bound: PDUs submitted to PDCP

ASSUME SdapAssumption == Drb \subseteq Nat \ {0} /\ 1 \in Drb /\ Header \subseteq Drb

VARIABLES session,      \* is_gnb; DL data PDUs may carry RDI = 1; PDCP may hold
                        \* such PDUs back when their DRB is released.  Never changes.
          drbs,         \* DRBs that exist in PDCP
          entity,       \* the session has an SDAP entity
          default_drb,
          table,        \* qfi2drb_table: drb_id and has_sdap_tx of each flow
          moving,       \* a new rule that RRC or PDCP is about to store
          tun,          \* the PDU the tun thread is about to submit
          sent,         \* PDUs submitted to PDCP
          released,     \* how many DRBs have been released
          changed       \* how many reconfigurations there have been

vars == <<session, drbs, entity, default_drb, table, moving, tun, sent, released, changed>>

NoRule == 0
None == <<>>

Init == /\ session \in [is_gnb : BOOLEAN, reflective : BOOLEAN, held_back : BOOLEAN]
        /\ (session.held_back => session.reflective) /\ ~(session.is_gnb /\ session.reflective)
        /\ drbs = {} /\ entity = FALSE /\ default_drb = 0
        /\ table = [qfi \in Qfi |-> [drb_id |-> NoRule, has_sdap_tx |-> FALSE]]
        /\ moving = [t \in {"rrc", "pdcp"} |-> None] /\ tun = None /\ sent = <<>> /\ released = 0 /\ changed = 0

\* PDUs that nr_pdcp_data_req_drb finds the DRB of are sent, others refused.  What
\* one call of SDAP submits goes to one DRB.
Submitted(pdus) == IF \A i \in 1..Len(pdus) : pdus[i].drb \in drbs THEN pdus ELSE <<>>

Data(qfi, drb, header) == [kind |-> "data", qfi |-> qfi, drb |-> drb, header |-> header]

\* nr_sdap_construct_ctrl_pdu, nr_sdap_submit_ctrl_pdu
EndMarker(qfi, drb) == [kind |-> "end", qfi |-> qfi, drb |-> drb, header |-> TRUE]

DefaultMarker(rules, qfi) ==
  IF default_drb # 0 /\ rules[qfi].drb_id = NoRule THEN <<EndMarker(qfi, default_drb)>> ELSE <<>>

\* nr_sdap_qfi2drb_map: the DRB; the default DRB it falls back to becomes the rule
Mapped(qfi) == IF table[qfi].drb_id # NoRule THEN table[qfi].drb_id ELSE default_drb

WithDefault(qfi) == [table EXCEPT ![qfi].drb_id = Mapped(qfi)]

WithoutRules(qfis) == [f \in Qfi |-> IF f \in qfis THEN [table[f] EXCEPT !.drb_id = NoRule] ELSE table[f]]

\* PDCP lock
Locked == moving["pdcp"] # None

-----------------------------------------------------------------------------
(* Configuration by RRC                                                    *)

\* nr_sdap_ue_qfi2drb_config, for one flow, before the rule is stored
ConfigMarkers(qfi, drb) ==
  DefaultMarker(table, qfi)
  \o (IF table[qfi].drb_id # drb /\ table[qfi].has_sdap_tx THEN <<EndMarker(qfi, Mapped(qfi))>> ELSE <<>>)

Rule(drb) == [drb_id |-> drb, has_sdap_tx |-> drb \in Header]

\* add_drb for a DRB that does not exist yet, new_nr_sdap_entity
AddDrb(drb, isDefault, qfi) ==
  /\ drb \notin drbs /\ moving["rrc"] = None /\ ~Locked
  /\ drbs' = drbs \cup {drb} /\ entity' = TRUE
  /\ \/ /\ ~entity
        /\ default_drb' = IF isDefault THEN drb ELSE 0
        /\ table' = IF isDefault THEN [table EXCEPT ![qfi] = Rule(drb)] ELSE table
        /\ UNCHANGED sent
     \/ /\ entity /\ ~session.is_gnb /\ Len(sent) < MaxSent
        /\ sent' = sent \o Submitted(ConfigMarkers(qfi, drb))
        /\ table' = [table EXCEPT ![qfi] = Rule(drb)]
        /\ UNCHANGED default_drb
     \/ entity /\ session.is_gnb /\ UNCHANGED <<default_drb, table, sent>>
  /\ UNCHANGED <<moving, tun, released, changed>>

\* nr_reconfigure_sdap_entity without the lock: the end markers first
Reconfigure(drb, qfi) ==
  /\ drb \in drbs /\ entity /\ ~session.is_gnb /\ moving["rrc"] = None /\ Len(sent) < MaxSent
  /\ ConfigMarkers(qfi, drb) = <<>> \/ ~Locked
  /\ sent' = sent \o Submitted(ConfigMarkers(qfi, drb))
  /\ table' = IF table[qfi].drb_id # drb /\ table[qfi].has_sdap_tx THEN WithDefault(qfi) ELSE table
  /\ moving' = [moving EXCEPT !["rrc"] = <<qfi, drb>>]
  /\ changed < Changes /\ changed' = changed + 1
  /\ UNCHANGED <<drbs, entity, default_drb, tun, released>>

\* then the new rule, and the rules of mappedQoS_FlowsToRelease
StoreConfigured(release) ==
  /\ moving["rrc"] # None /\ moving' = [moving EXCEPT !["rrc"] = None]
  /\ LET qfi == moving["rrc"][1]
         new == [table EXCEPT ![qfi] = Rule(moving["rrc"][2])]
     IN  table' = [f \in Qfi |-> IF f \in release THEN [new[f] EXCEPT !.drb_id = NoRule] ELSE new[f]]
  /\ UNCHANGED <<drbs, entity, default_drb, tun, sent, released, changed>>

-----------------------------------------------------------------------------
(* Reception, in the PDCP thread                                           *)

\* Mutant: only a flow without a rule gets an end marker.
ReflectedMarkersMutant(rules, drb, qfi) == DefaultMarker(rules, qfi)

\* nr_sdap_rx_entity with RDI = 1: the end markers
ReflectedMarkers(rules, drb, qfi) ==
  DefaultMarker(rules, qfi)
  \o (IF drb # rules[qfi].drb_id
      THEN <<EndMarker(qfi, IF rules[qfi].drb_id # NoRule THEN rules[qfi].drb_id ELSE default_drb)>>
      ELSE <<>>)

ReceiveReflective(drb, qfi) ==
  /\ session.reflective /\ ~session.is_gnb /\ drb \in drbs /\ entity /\ ~Locked /\ Len(sent) < MaxSent
  /\ sent' = sent \o Submitted(ReflectedMarkers(table, drb, qfi))
  /\ table' = IF drb # table[qfi].drb_id THEN WithDefault(qfi) ELSE table
  /\ moving' = [moving EXCEPT !["pdcp"] = <<qfi, drb>>]
  /\ UNCHANGED <<drbs, entity, default_drb, tun, released, changed>>

\* and the new rule, whose has_sdap_tx stays what it was
StoreReflected ==
  /\ moving["pdcp"] # None /\ moving' = [moving EXCEPT !["pdcp"] = None]
  /\ table' = [table EXCEPT ![moving["pdcp"][1]].drb_id = moving["pdcp"][2]]
  /\ UNCHANGED <<drbs, entity, default_drb, tun, sent, released, changed>>

\* Mutant: the rules of a released DRB stay.
ReleaseDrbMutant(drb) ==
  /\ drb \in drbs /\ moving["rrc"] = None /\ ~Locked /\ released < Releases
  /\ drbs' = drbs \ {drb} /\ released' = released + 1
  /\ UNCHANGED <<entity, default_drb, table, moving, tun, sent, changed>>

\* nr_pdcp_release_drb: nr_sdap_release_drb removes the rules, then release_entity
\* delivers what PDCP has held back, and the DRB is gone.
ReleaseDrb(drb) ==
  /\ drb \in drbs /\ moving["rrc"] = None /\ ~Locked /\ released < Releases
  /\ LET rules == WithoutRules({qfi \in Qfi : table[qfi].drb_id = drb})
     IN  \/ table' = rules /\ UNCHANGED sent
         \/ /\ session.held_back /\ Len(sent) < MaxSent
            /\ \E qfi \in Qfi : /\ sent' = sent \o Submitted(ReflectedMarkers(rules, drb, qfi))
                               /\ table' = [rules EXCEPT ![qfi].drb_id = drb]
  /\ drbs' = drbs \ {drb} /\ released' = released + 1
  /\ UNCHANGED <<entity, default_drb, moving, tun, changed>>

-----------------------------------------------------------------------------
(* Transmission, in the tun thread                                         *)

\* nr_sdap_tx_entity up to the call of PDCP; without a rule and a default DRB the
\* hard-wired DRB 1 is used, without a header.
ReadRule(qfi) ==
  /\ entity /\ tun = None /\ Len(sent) < MaxSent
  /\ tun' = IF Mapped(qfi) # 0 THEN Data(qfi, Mapped(qfi), table[qfi].has_sdap_tx) ELSE Data(qfi, 1, FALSE)
  /\ table' = WithDefault(qfi)
  /\ UNCHANGED <<drbs, entity, default_drb, moving, sent, released, changed>>

\* nr_pdcp_data_req_drb
Submit ==
  /\ tun # None /\ tun' = None /\ ~Locked
  /\ sent' = sent \o Submitted(<<tun>>)
  /\ UNCHANGED <<drbs, entity, default_drb, table, moving, released, changed>>

Next ==
  /\ UNCHANGED session
  /\ \/ \E drb \in Drb, qfi \in Qfi :
          \/ \E isDefault \in BOOLEAN : AddDrb(drb, isDefault, qfi)
          \/ Reconfigure(drb, qfi)
          \/ ReceiveReflective(drb, qfi)
     \/ \E drb \in Drb : ReleaseDrb(drb)
     \/ \E release \in SUBSET Qfi : StoreConfigured(release)
     \/ \E qfi \in Qfi : ReadRule(qfi)
     \/ StoreReflected \/ Submit

Spec == Init /\ [][Next]_vars

-----------------------------------------------------------------------------
(* Properties                                                              *)

\* "remove all QoS flow to DRB mappings associated with the released DRB"
\* (nr_sdap_release_drb): no flow is mapped to a DRB that PDCP does not have.  It
\* is excepted that the default DRB stays the default after its release, and that
\* release_entity delivers SDUs held back after the rules were removed.
RulesLive ==
  ~session.held_back =>
    \A qfi \in Qfi : table[qfi].drb_id # NoRule => table[qfi].drb_id \in drbs \cup {default_drb}

\* The same without exceptions.
RulesExist == \A qfi \in Qfi : table[qfi].drb_id # NoRule => table[qfi].drb_id \in drbs

\* The DRB of the flow's last end marker in pdus, 0 if it has none
LastMarked(pdus, qfi) ==
  LET ends == {i \in 1..Len(pdus) : pdus[i].kind = "end" /\ pdus[i].qfi = qfi}
  IN  IF ends = {} THEN 0 ELSE pdus[CHOOSE i \in ends : \A j \in ends : j <= i].drb

\* A flow leaves a DRB, one that is there and whose rule says that it has SDAP
\* headers, for another one only after an end marker on the DRB it leaves; and
\* a gNB, which sends no end markers, never moves a flow.  This needs the two
\* threads that store rules, RRC's and PDCP's, not to meet.
MoveAnnounced ==
  [][(session.reflective => changed' = 0) =>
     \A qfi \in Qfi :
       LET old == table[qfi].drb_id
           new == table'[qfi].drb_id
       IN  (old \in drbs /\ new \notin {old, NoRule} /\ table[qfi].has_sdap_tx)
             => LastMarked(sent', qfi) = old]_vars

\* Data carries an SDAP header if and only if the DRB it is sent on is configured
\* with one ("it might be 0 if has_sdap_tx is not true in the pdcp entity").
HeaderMatches ==
  \A i \in 1..Len(sent) : sent[i].kind = "data" => (sent[i].header <=> sent[i].drb \in Header)

\* The PDUs that a step submits
New == (Len(sent) + 1)..Len(sent')

\* The two conditions for an end marker, no stored rule and a different stored
\* rule, exclude each other: a flow that moves gets one end marker.
OneEndMarker == [][Cardinality(New) <= 1]_vars

\* The end marker of a stored rule goes to a DRB "configured by RRC with the
\* presence of UL SDAP header".
EndMarkerWithHeader ==
  [][\A i \in New : (sent'[i].kind = "end" /\ table[sent'[i].qfi].drb_id # NoRule)
                      => sent'[i].drb \in Header]_vars

\* "check whether the SDAP entity already exists and update QFI to DRB mapping
\* rules in that case": a DRB added to the session takes over its flow.
AddedDrbMapped ==
  [][\A drb \in Drb, qfi \in Qfi : (entity /\ AddDrb(drb, FALSE, qfi)) =>
        \E f \in Qfi : table'[f].drb_id = drb]_vars
=============================================================================
