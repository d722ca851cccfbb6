---------------------------- MODULE NrSdapProofs -----------------------------
(***************************************************************************)
(* Proofs about SDAP for any set of DRBs and flows: rules lead to DRBs that *)
(* exist (RulesLive), and a flow leaves a DRB only after its end marker    *)
(* (MoveAnnounced).                                                        *)
(***************************************************************************)
EXTENDS NrSdap, WellFoundedInduction, TLAPS

Pdu == [kind : {"data", "end"}, qfi : Qfi, drb : Nat, header : BOOLEAN]

Moves == {None} \cup (Qfi \X drbs)

\* The types; a rule about to be stored leads to a DRB that is there, since no DRB
\* is released while RRC or PDCP is about to store one.
SdapType ==
  /\ session \in [is_gnb : BOOLEAN, reflective : BOOLEAN, held_back : BOOLEAN]
  /\ drbs \subseteq Drb /\ entity \in BOOLEAN /\ default_drb \in Nat
  /\ table \in [Qfi -> [drb_id : Nat, has_sdap_tx : BOOLEAN]]
  /\ moving \in [{"rrc", "pdcp"} -> Moves]
  /\ tun \in {None} \cup Pdu /\ sent \in Seq(Pdu) /\ changed \in Nat

\* Before the first DRB there is no rule; only a thread that may move flows is
\* about to; the tun thread submits data only.
SdapQuiet ==
  /\ ~entity => drbs = {} /\ default_drb = 0 /\ \A qfi \in Qfi : table[qfi].drb_id = NoRule
  /\ changed = 0 => moving["rrc"] = None
  /\ ~session.reflective => moving["pdcp"] = None
  /\ tun # None => tun.kind = "data"

\* The move that thread t is about to make has been announced: the flow's last
\* end marker went to the DRB that the flow is mapped to.
Announced(t) ==
  moving[t] # None =>
    LET qfi == moving[t][1]
    IN  (Mapped(qfi) \in drbs /\ Mapped(qfi) # moving[t][2] /\ table[qfi].has_sdap_tx)
          => LastMarked(sent, qfi) = Mapped(qfi)

\* RRC's and PDCP's announcements, as long as these two threads do not meet
AllAnnounced == (session.reflective => changed = 0) => Announced("rrc") /\ Announced("pdcp")

SdapInv == SdapType /\ SdapQuiet /\ RulesLive /\ AllAnnounced

\* What MoveAnnounced says of one step
Moved ==
  (session.reflective => changed' = 0) =>
    \A qfi \in Qfi :
      LET old == table[qfi].drb_id
          new == table'[qfi].drb_id
      IN  (old \in drbs /\ new \notin {old, NoRule} /\ table[qfi].has_sdap_tx)
            => LastMarked(sent', qfi) = old

-----------------------------------------------------------------------------
(* End markers                                                             *)

\* Every nonempty set of naturals has a least element.
LEMMA LeastNat ==
  ASSUME NEW T \in SUBSET Nat, T # {}
  PROVE  \E k \in T : \A j \in T : k <= j
<1>1. PICK k \in T : \A j \in T : ~(<<j, k>> \in OpToRel(<, Nat))
  BY ZenonT(60), WFMin, NatLessThanWellFounded
<1>2. \A j \in T : ~(j < k)
  BY ZenonT(60), <1>1 DEF OpToRel
<1> QED BY <1>2

\* A nonempty set of positions of a sequence has a greatest one.
LEMMA Greatest ==
  ASSUME NEW n \in Nat, NEW T \in SUBSET (1..n), T # {}
  PROVE  \E k \in T : \A j \in T : j <= k
<1> DEFINE U == {m \in Nat : n - m \in T}
<1>1. U \in SUBSET Nat OBVIOUS
<1>2. PICK x \in T : TRUE BY ZenonT(60)
<1>3. n - x \in U BY <1>2
<1> HIDE DEF U
<1>4. PICK m \in U : \A j \in U : m <= j BY <1>1, <1>3, LeastNat
<1>5. m \in Nat /\ n - m \in T BY <1>4 DEF U
<1>6. ASSUME NEW j \in T PROVE j <= n - m
  <2>1. n - j \in U BY DEF U
  <2> QED BY <2>1, <1>4, <1>5
<1> QED BY <1>5, <1>6

\* The positions of a flow's end markers
Ends(pdus, qfi) == {i \in 1..Len(pdus) : pdus[i].kind = "end" /\ pdus[i].qfi = qfi}

\* PDUs that are not end markers of the flow leave its last end marker as it is.
LEMMA MarkKept ==
  ASSUME NEW s \in Seq(Pdu), NEW m \in Seq(Pdu), NEW qfi,
         \A i \in 1..Len(m) : ~(m[i].kind = "end" /\ m[i].qfi = qfi)
  PROVE  LastMarked(s \o m, qfi) = LastMarked(s, qfi)
<1>1. Ends(s \o m, qfi) = Ends(s, qfi) BY SMTT(30) DEF Ends
<1>2. CASE Ends(s, qfi) = {}
  BY <1>1, <1>2 DEF LastMarked, Ends
<1>3. CASE Ends(s, qfi) # {}
  <2> DEFINE k == CHOOSE i \in Ends(s, qfi) : \A j \in Ends(s, qfi) : j <= i
  <2>1. Ends(s, qfi) \in SUBSET (1..Len(s)) /\ Len(s) \in Nat BY DEF Ends
  <2>2. k \in Ends(s, qfi) BY ZenonT(60), <1>3, <2>1, Greatest
  <2>3. LastMarked(s, qfi) = s[k].drb BY <1>3 DEF LastMarked, Ends
  <2>4. LastMarked(s \o m, qfi) = (s \o m)[k].drb BY ZenonT(60), <1>1, <1>3 DEF LastMarked, Ends
  <2>5. k \in 1..Len(s) BY <2>1, <2>2
  <2> HIDE DEF k
  <2>6. (s \o m)[k] = s[k] BY <2>5
  <2> QED BY <2>3, <2>4, <2>6
<1> QED BY <1>2, <1>3

\* End markers of the flow on DRB d make d the DRB of its last end marker.
LEMMA MarkMade ==
  ASSUME NEW s \in Seq(Pdu), NEW m \in Seq(Pdu), NEW qfi, NEW d, m # <<>>,
         \A i \in 1..Len(m) : m[i] = EndMarker(qfi, d)
  PROVE  LastMarked(s \o m, qfi) = d
<1> DEFINE E == Ends(s \o m, qfi)
           n == Len(s) + Len(m)
           k == CHOOSE i \in E : \A j \in E : j <= i
<1>1. Len(m) \in 1..Len(m) /\ n \in Nat /\ n > Len(s) /\ Len(s) \in Nat /\ Len(m) \in Nat OBVIOUS
<1>2. Len(s \o m) = n /\ (s \o m)[n] = m[Len(m)] BY <1>1
<1>3. n \in E BY <1>1, <1>2 DEF Ends, EndMarker
<1>4. \A j \in E : j \in Nat /\ j <= n BY <1>1, <1>2 DEF Ends
<1>5. LastMarked(s \o m, qfi) = (s \o m)[k].drb BY ZenonT(60), <1>3 DEF LastMarked, Ends
<1>6. k \in E /\ \A j \in E : j <= k
  <2> HIDE DEF E
  <2> QED BY <1>3, <1>4
<1> HIDE DEF k, E
<1>7. k = n BY <1>1, <1>3, <1>4, <1>6
<1> QED BY <1>1, <1>2, <1>5, <1>7 DEF EndMarker

\* What submitting end markers of one flow on DRB d does to the last end markers.
LEMMA MarksSubmitted ==
  ASSUME NEW s \in Seq(Pdu), NEW m \in Seq(Pdu), NEW qfi, NEW d,
         \A i \in 1..Len(m) : m[i] = EndMarker(qfi, d)
  PROVE  /\ s \o Submitted(m) \in Seq(Pdu)
         /\ m # <<>> /\ d \in drbs => LastMarked(s \o Submitted(m), qfi) = d
         /\ \A f : f # qfi => LastMarked(s \o Submitted(m), f) = LastMarked(s, f)
<1>1. Submitted(m) \in {m, <<>>} BY DEF Submitted
<1>2. Submitted(m) \in Seq(Pdu) /\ s \o Submitted(m) \in Seq(Pdu)
  <2>1. CASE Submitted(m) = m BY <2>1
  <2>2. CASE Submitted(m) = <<>> BY <2>2
  <2> QED BY <1>1, <2>1, <2>2
<1>3. ASSUME m # <<>>, d \in drbs PROVE LastMarked(s \o Submitted(m), qfi) = d
  <2>1. Submitted(m) = m BY <1>3 DEF Submitted, EndMarker
  <2> QED BY <2>1, <1>3, MarkMade
<1>4. ASSUME NEW f, f # qfi PROVE LastMarked(s \o Submitted(m), f) = LastMarked(s, f)
  <2>1. Submitted(m) \in Seq(Pdu) BY <1>2
  <2>2. \A i \in 1..Len(Submitted(m)) : Submitted(m)[i].qfi # f
    BY <1>1, <1>4 DEF EndMarker
  <2> HIDE DEF Submitted
  <2> QED BY <2>1, <2>2, MarkKept
<1> QED BY <1>2, <1>3, <1>4

\* One or two copies of a PDU
LEMMA Copies ==
  ASSUME NEW e \in Pdu, NEW a \in {<<e>>, <<>>}, NEW b \in {<<e>>, <<>>}
  PROVE  /\ a \o b \in Seq(Pdu)
         /\ \A i \in 1..Len(a \o b) : (a \o b)[i] = e
         /\ b = <<e>> => a \o b # <<>>
<1>1. <<e>> \in Seq(Pdu) /\ <<>> \in Seq(Pdu) OBVIOUS
<1>2. a \in Seq(Pdu) /\ b \in Seq(Pdu) BY ZenonT(60), <1>1
<1>3. (\A i \in 1..Len(a) : a[i] = e) /\ (\A i \in 1..Len(b) : b[i] = e) OBVIOUS
<1>4. b = <<e>> => Len(b) = 1 OBVIOUS
<1>5. \A i \in 1..Len(a \o b) : (a \o b)[i] = e BY <1>2, <1>3
<1>6. b = <<e>> => Len(a \o b) # 0 BY <1>2, <1>4
<1> QED BY <1>2, <1>5, <1>6

\* What RRC's configuration sends are end markers on the DRB the flow is mapped to,
\* at least one if the flow moves and its rule has the header.
LEMMA ConfigMarks ==
  ASSUME SdapType, NEW qfi \in Qfi, NEW drb
  PROVE  /\ Mapped(qfi) \in Nat
         /\ ConfigMarkers(qfi, drb) \in Seq(Pdu)
         /\ \A i \in 1..Len(ConfigMarkers(qfi, drb)) :
               ConfigMarkers(qfi, drb)[i] = EndMarker(qfi, Mapped(qfi))
         /\ table[qfi].drb_id # drb /\ table[qfi].has_sdap_tx => ConfigMarkers(qfi, drb) # <<>>
<1> DEFINE e == EndMarker(qfi, Mapped(qfi))
           a == DefaultMarker(table, qfi)
           b == IF table[qfi].drb_id # drb /\ table[qfi].has_sdap_tx THEN <<e>> ELSE <<>>
<1>1. Mapped(qfi) \in Nat BY DEF SdapType, Mapped
<1>2. e \in Pdu BY <1>1 DEF EndMarker, Pdu
<1>3. a \in {<<e>>, <<>>} BY DEF DefaultMarker, Mapped
<1>4. b \in {<<e>>, <<>>} OBVIOUS
<1>5. ConfigMarkers(qfi, drb) = a \o b BY DEF ConfigMarkers
<1>6. table[qfi].drb_id # drb /\ table[qfi].has_sdap_tx => b = <<e>> OBVIOUS
<1> HIDE DEF a, b, e
<1>7. /\ a \o b \in Seq(Pdu)
      /\ \A i \in 1..Len(a \o b) : (a \o b)[i] = e
      /\ b = <<e>> => a \o b # <<>>
  BY ZenonT(60), <1>2, <1>3, <1>4, Copies
<1> QED BY <1>1, <1>5, <1>6, <1>7 DEF e

\* The same for what a reflective move sends, where rules is the table.
LEMMA ReflectedMarks ==
  ASSUME SdapType, NEW rules \in [Qfi -> [drb_id : Nat, has_sdap_tx : BOOLEAN]],
         NEW qfi \in Qfi, NEW drb,
         NEW d, d = IF rules[qfi].drb_id # NoRule THEN rules[qfi].drb_id ELSE default_drb
  PROVE  /\ ReflectedMarkers(rules, drb, qfi) \in Seq(Pdu)
         /\ \A i \in 1..Len(ReflectedMarkers(rules, drb, qfi)) :
               ReflectedMarkers(rules, drb, qfi)[i] = EndMarker(qfi, d)
         /\ drb # rules[qfi].drb_id => ReflectedMarkers(rules, drb, qfi) # <<>>
<1> DEFINE e == EndMarker(qfi, d)
           a == DefaultMarker(rules, qfi)
           b == IF drb # rules[qfi].drb_id THEN <<e>> ELSE <<>>
           m == ReflectedMarkers(rules, drb, qfi)
<1>1. d \in Nat BY DEF SdapType
<1>2. e \in Pdu BY <1>1 DEF EndMarker, Pdu
<1>3. a \in {<<e>>, <<>>} BY DEF DefaultMarker
<1>4. b \in {<<e>>, <<>>} OBVIOUS
<1>5. m = a \o b BY DEF ReflectedMarkers
<1>6. drb # rules[qfi].drb_id => b = <<e>> OBVIOUS
<1> HIDE DEF a, b, e, m
<1>7. /\ a \o b \in Seq(Pdu)
      /\ \A i \in 1..Len(a \o b) : (a \o b)[i] = e
      /\ b = <<e>> => a \o b # <<>>
  BY ZenonT(60), <1>2, <1>3, <1>4, Copies
<1> QED BY <1>5, <1>6, <1>7 DEF e, m

-----------------------------------------------------------------------------
(* Each step keeps the invariant and moves no flow unannounced             *)

\* AddDrb stores a rule for a DRB that it creates, after the end markers.
LEMMA AddDrbStep ==
  ASSUME SdapInv, UNCHANGED session,
         NEW drb \in Drb, NEW isDefault \in BOOLEAN, NEW qfi \in Qfi, AddDrb(drb, isDefault, qfi)
  PROVE  SdapInv' /\ Moved
<1> USE SdapAssumption
<1>1. SdapType /\ SdapQuiet /\ RulesLive BY DEF SdapInv
<1>2. moving' = moving /\ moving["rrc"] = None /\ moving["pdcp"] = None BY DEF AddDrb, Locked
<1>3. AllAnnounced' BY <1>2 DEF AllAnnounced, Announced
<1>4. Rule(drb) \in [drb_id : Nat, has_sdap_tx : BOOLEAN] /\ Rule(drb).drb_id = drb BY DEF Rule
<1>5. /\ moving' \in [{"rrc", "pdcp"} -> Moves']
      /\ drbs' = drbs \cup {drb} /\ entity' = TRUE /\ changed' = changed /\ tun' = tun
  BY <1>1, <1>2 DEF AddDrb, SdapType, Moves
<1>6. SdapQuiet' BY <1>1, <1>2, <1>5 DEF SdapQuiet
<1>7. CASE ~entity
  <2>1. /\ default_drb' = IF isDefault THEN drb ELSE 0
        /\ table' = IF isDefault THEN [table EXCEPT ![qfi] = Rule(drb)] ELSE table
        /\ sent' = sent
    BY <1>7 DEF AddDrb
  <2>2. SdapType' BY <1>1, <1>4, <1>5, <2>1 DEF SdapType
  <2>3. RulesLive' BY <1>1, <1>4, <1>5, <1>7, <2>1 DEF SdapType, SdapQuiet, RulesLive
  <2>4. Moved BY <1>1, <1>7 DEF Moved, SdapQuiet, SdapType, NoRule
  <2> QED BY <1>3, <1>6, <2>2, <2>3, <2>4 DEF SdapInv
<1>8. CASE entity /\ ~session.is_gnb
  <2>1. /\ default_drb' = default_drb
        /\ table' = [table EXCEPT ![qfi] = Rule(drb)]
        /\ sent' = sent \o Submitted(ConfigMarkers(qfi, drb))
    BY <1>8 DEF AddDrb
  <2> DEFINE m == ConfigMarkers(qfi, drb)
  <2>2. /\ m \in Seq(Pdu)
        /\ \A i \in 1..Len(m) : m[i] = EndMarker(qfi, Mapped(qfi))
        /\ table[qfi].drb_id # drb /\ table[qfi].has_sdap_tx => m # <<>>
    BY <1>1, ConfigMarks
  <2> HIDE DEF m
  <2>3. /\ sent \o Submitted(m) \in Seq(Pdu)
        /\ m # <<>> /\ Mapped(qfi) \in drbs => LastMarked(sent \o Submitted(m), qfi) = Mapped(qfi)
    <3>1. sent \in Seq(Pdu) /\ m \in Seq(Pdu) BY <1>1, <2>2 DEF SdapType
    <3>2. \A i \in 1..Len(m) : m[i] = EndMarker(qfi, Mapped(qfi)) BY <2>2
    <3>3. sent \o Submitted(m) \in Seq(Pdu) BY <3>1, <3>2, MarksSubmitted
    <3>4. m # <<>> /\ Mapped(qfi) \in drbs => LastMarked(sent \o Submitted(m), qfi) = Mapped(qfi)
      BY <3>1, <3>2, MarksSubmitted
    <3> QED BY <3>3, <3>4
  <2>4. SdapType' BY <1>1, <1>4, <1>5, <2>1, <2>3 DEF SdapType, m
  <2>5. RulesLive' BY <1>1, <1>4, <1>5, <2>1 DEF SdapType, RulesLive
  <2>6. ASSUME NEW f \in Qfi, table[f].drb_id \in drbs, table'[f].drb_id # table[f].drb_id, table[f].has_sdap_tx
        PROVE  LastMarked(sent', f) = table[f].drb_id
    <3>1. f = qfi /\ table[qfi].drb_id # drb BY <1>1, <1>4, <2>1, <2>6 DEF SdapType
    <3>2. Mapped(qfi) = table[qfi].drb_id BY <1>1, <2>6, <3>1 DEF Mapped, SdapType, NoRule
    <3> QED BY <2>1, <2>2, <2>3, <2>6, <3>1, <3>2 DEF m
  <2>7. Moved BY <2>6 DEF Moved
  <2> QED BY <1>3, <1>6, <2>4, <2>5, <2>7 DEF SdapInv
<1>9. CASE entity /\ session.is_gnb
  <2>1. default_drb' = default_drb /\ table' = table /\ sent' = sent BY <1>9 DEF AddDrb
  <2>2. SdapType' BY <1>1, <1>5, <2>1 DEF SdapType
  <2>3. RulesLive' BY <1>1, <1>5, <2>1 DEF RulesLive
  <2>4. Moved BY <2>1 DEF Moved
  <2> QED BY <1>3, <1>6, <2>2, <2>3, <2>4 DEF SdapInv
<1> QED BY <1>1, <1>7, <1>8, <1>9 DEF SdapType

\* Reconfigure sends the end markers of the move it is about to make.
LEMMA ReconfigureStep ==
  ASSUME SdapInv, UNCHANGED session, NEW drb \in Drb, NEW qfi \in Qfi, Reconfigure(drb, qfi)
  PROVE  SdapInv' /\ Moved
<1> USE SdapAssumption
<1> DEFINE m == ConfigMarkers(qfi, drb)
<1>1. SdapType /\ SdapQuiet /\ RulesLive /\ AllAnnounced BY DEF SdapInv
<1>2. /\ drb \in drbs /\ entity /\ ~session.is_gnb /\ moving["rrc"] = None
      /\ sent' = sent \o Submitted(m)
      /\ table' = IF table[qfi].drb_id # drb /\ table[qfi].has_sdap_tx THEN WithDefault(qfi) ELSE table
      /\ moving' = [moving EXCEPT !["rrc"] = <<qfi, drb>>]
      /\ changed' = changed + 1
      /\ UNCHANGED <<drbs, entity, default_drb, tun, released>>
  BY DEF Reconfigure
<1>3. /\ m \in Seq(Pdu) /\ Mapped(qfi) \in Nat
      /\ \A i \in 1..Len(m) : m[i] = EndMarker(qfi, Mapped(qfi))
      /\ table[qfi].drb_id # drb /\ table[qfi].has_sdap_tx => m # <<>>
  BY <1>1, ConfigMarks
<1> HIDE DEF m
<1>4. /\ sent \o Submitted(m) \in Seq(Pdu)
      /\ m # <<>> /\ Mapped(qfi) \in drbs => LastMarked(sent \o Submitted(m), qfi) = Mapped(qfi)
  <2>1. sent \in Seq(Pdu) /\ m \in Seq(Pdu) BY <1>1, <1>3 DEF SdapType
  <2>2. \A i \in 1..Len(m) : m[i] = EndMarker(qfi, Mapped(qfi)) BY <1>3
  <2>3. sent \o Submitted(m) \in Seq(Pdu) BY <2>1, <2>2, MarksSubmitted
  <2>4. m # <<>> /\ Mapped(qfi) \in drbs => LastMarked(sent \o Submitted(m), qfi) = Mapped(qfi)
    BY <2>1, <2>2, MarksSubmitted
  <2> QED BY <2>3, <2>4
<1>5. SdapType'
  <2>1. table' \in [Qfi -> [drb_id : Nat, has_sdap_tx : BOOLEAN]]
    BY SMTT(30), <1>1, <1>2, <1>3 DEF SdapType, WithDefault
  <2>2. moving' \in [{"rrc", "pdcp"} -> Moves'] BY <1>1, <1>2 DEF SdapType, Moves
  <2> QED BY <1>1, <1>2, <1>4, <2>1, <2>2 DEF SdapType
<1>6. SdapQuiet' BY <1>1, <1>2 DEF SdapQuiet, SdapType
<1>7. RulesLive' BY SMTT(30), <1>1, <1>2 DEF RulesLive, SdapType, WithDefault, Mapped
<1>8. table'[qfi].has_sdap_tx = table[qfi].has_sdap_tx /\ Mapped(qfi)' = Mapped(qfi)
  BY <1>1, <1>2 DEF SdapType, WithDefault, Mapped
<1>9. ASSUME session.reflective => changed' = 0 PROVE Announced("rrc")' /\ Announced("pdcp")'
  <2>1. ~session.reflective BY <1>1, <1>2, <1>9 DEF SdapType
  <2>2. moving'["pdcp"] = None /\ moving'["rrc"] = <<qfi, drb>> BY <1>1, <1>2, <2>1 DEF SdapType, SdapQuiet
  <2>3. Announced("pdcp")' BY <2>2 DEF Announced
  <2>4. ASSUME Mapped(qfi) \in drbs, Mapped(qfi) # drb, table[qfi].has_sdap_tx
        PROVE  LastMarked(sent', qfi) = Mapped(qfi)
    <3>1. table[qfi].drb_id # drb BY <2>4, <1>1 DEF Mapped, NoRule
    <3> QED BY <1>2, <1>3, <1>4, <2>4, <3>1
  <2>5. Announced("rrc")' BY <1>2, <1>8, <2>2, <2>4 DEF Announced
  <2> QED BY <2>3, <2>5
<1>10. AllAnnounced' BY <1>9 DEF AllAnnounced
<1>11. Moved
  <2>1. \A f \in Qfi : table[f].drb_id \in drbs => table'[f].drb_id = table[f].drb_id
    BY <1>1, <1>2 DEF SdapType, WithDefault, Mapped, NoRule
  <2> QED BY <2>1 DEF Moved
<1> QED BY <1>5, <1>6, <1>7, <1>10, <1>11 DEF SdapInv

\* StoreConfigured makes the move that Reconfigure has announced.
LEMMA StoreConfiguredStep ==
  ASSUME SdapInv, UNCHANGED session, NEW release \in SUBSET Qfi, StoreConfigured(release)
  PROVE  SdapInv' /\ Moved
<1> USE SdapAssumption
<1>1. SdapType /\ SdapQuiet /\ RulesLive /\ AllAnnounced BY DEF SdapInv
<1>2. PICK qfi \in Qfi, drb \in drbs : moving["rrc"] = <<qfi, drb>>
  BY <1>1 DEF StoreConfigured, SdapType, Moves
<1> DEFINE new == [table EXCEPT ![qfi] = Rule(drb)]
<1>3. /\ moving' = [moving EXCEPT !["rrc"] = None]
      /\ table' = [f \in Qfi |-> IF f \in release THEN [new[f] EXCEPT !.drb_id = NoRule] ELSE new[f]]
      /\ UNCHANGED <<drbs, entity, default_drb, tun, sent, released, changed>>
  BY <1>2 DEF StoreConfigured
<1>4. Rule(drb) \in [drb_id : Nat, has_sdap_tx : BOOLEAN] /\ Rule(drb).drb_id = drb
  BY <1>1 DEF Rule, SdapType
<1>5. new \in [Qfi -> [drb_id : Nat, has_sdap_tx : BOOLEAN]] BY <1>1, <1>4 DEF SdapType
<1>6. \A f \in Qfi : new[f].drb_id = IF f = qfi THEN drb ELSE table[f].drb_id
  BY <1>1, <1>4 DEF SdapType
<1> HIDE DEF new
<1>7. /\ table' \in [Qfi -> [drb_id : Nat, has_sdap_tx : BOOLEAN]]
      /\ \A f \in Qfi : table'[f].drb_id \in {NoRule, new[f].drb_id}
  BY <1>3, <1>5 DEF NoRule
<1>8. moving' \in [{"rrc", "pdcp"} -> Moves'] /\ moving'["rrc"] = None /\ moving'["pdcp"] = moving["pdcp"]
  BY <1>1, <1>3 DEF SdapType, Moves
<1>9. SdapType' BY <1>1, <1>3, <1>7, <1>8 DEF SdapType
<1>10. RulesLive' BY <1>1, <1>3, <1>6, <1>7 DEF RulesLive
<1>11. changed # 0 BY <1>1, <1>2 DEF SdapQuiet, None
<1>12. entity
  <2>1. drbs # {} BY <1>2
  <2> QED BY <1>1, <2>1 DEF SdapQuiet
<1>13. SdapQuiet' BY SMTT(30), <1>1, <1>3, <1>8, <1>11, <1>12 DEF SdapQuiet
<1>14. AllAnnounced'
  <2>1. SUFFICES ASSUME ~session.reflective PROVE Announced("rrc")' /\ Announced("pdcp")'
    BY <1>3, <1>11 DEF AllAnnounced
  <2> QED BY <1>1, <1>8, <2>1 DEF SdapQuiet, Announced
<1>15. Moved
  <2>1. SUFFICES ASSUME ~session.reflective, NEW f \in Qfi, table[f].drb_id \in drbs,
                        table'[f].drb_id \notin {table[f].drb_id, NoRule}, table[f].has_sdap_tx
                 PROVE  LastMarked(sent', f) = table[f].drb_id
    BY <1>3, <1>11 DEF Moved
  <2>2. f = qfi /\ table[f].drb_id # drb BY <1>6, <1>7, <2>1
  <2>3. Mapped(qfi) = table[qfi].drb_id BY <1>1, <2>1, <2>2 DEF Mapped, NoRule, SdapType
  <2>4. Announced("rrc") BY <1>1, <2>1 DEF AllAnnounced
  <2>5. moving["rrc"] # None /\ moving["rrc"][1] = qfi /\ moving["rrc"][2] = drb BY <1>2 DEF None
  <2> QED BY <1>3, <2>1, <2>2, <2>3, <2>4, <2>5 DEF Announced
<1> QED BY <1>9, <1>10, <1>13, <1>14, <1>15 DEF SdapInv

\* A received SDU announces the move that PDCP's thread is about to make.
LEMMA ReceiveReflectiveStep ==
  ASSUME SdapInv, UNCHANGED session, NEW drb \in Drb, NEW qfi \in Qfi, ReceiveReflective(drb, qfi)
  PROVE  SdapInv' /\ Moved
<1> USE SdapAssumption
<1> DEFINE m == ReflectedMarkers(table, drb, qfi)
<1>1. SdapType /\ SdapQuiet /\ RulesLive /\ AllAnnounced BY DEF SdapInv
<1>2. /\ drb \in drbs /\ entity /\ session.reflective /\ moving["pdcp"] = None
      /\ sent' = sent \o Submitted(m)
      /\ table' = IF drb # table[qfi].drb_id THEN WithDefault(qfi) ELSE table
      /\ moving' = [moving EXCEPT !["pdcp"] = <<qfi, drb>>]
      /\ UNCHANGED <<drbs, entity, default_drb, tun, released, changed>>
  BY DEF ReceiveReflective, Locked
<1>3. /\ m \in Seq(Pdu)
      /\ \A i \in 1..Len(m) : m[i] = EndMarker(qfi, Mapped(qfi))
      /\ drb # table[qfi].drb_id => m # <<>>
  <2>1. table \in [Qfi -> [drb_id : Nat, has_sdap_tx : BOOLEAN]] BY <1>1 DEF SdapType
  <2>2. Mapped(qfi) = IF table[qfi].drb_id # NoRule THEN table[qfi].drb_id ELSE default_drb BY DEF Mapped
  <2> HIDE DEF Mapped
  <2> QED BY <1>1, <2>1, <2>2, ReflectedMarks
<1> HIDE DEF m
<1>4. /\ sent \o Submitted(m) \in Seq(Pdu)
      /\ m # <<>> /\ Mapped(qfi) \in drbs => LastMarked(sent \o Submitted(m), qfi) = Mapped(qfi)
  <2>1. sent \in Seq(Pdu) /\ m \in Seq(Pdu) BY SMTT(30), <1>1, <1>3 DEF SdapType
  <2>2. \A i \in 1..Len(m) : m[i] = EndMarker(qfi, Mapped(qfi)) BY <1>3
  <2>3. sent \o Submitted(m) \in Seq(Pdu) BY <2>1, <2>2, MarksSubmitted
  <2>4. m # <<>> /\ Mapped(qfi) \in drbs => LastMarked(sent \o Submitted(m), qfi) = Mapped(qfi)
    BY <2>1, <2>2, MarksSubmitted
  <2> QED BY <2>3, <2>4
<1>5. SdapType'
  <2>1. table' \in [Qfi -> [drb_id : Nat, has_sdap_tx : BOOLEAN]]
    BY ZenonT(60), <1>1, <1>2 DEF SdapType, WithDefault, Mapped
  <2>2. moving' \in [{"rrc", "pdcp"} -> Moves'] BY <1>1, <1>2 DEF SdapType, Moves
  <2> QED BY <1>1, <1>2, <1>4, <2>1, <2>2 DEF SdapType
<1>6. moving'["rrc"] = moving["rrc"] /\ moving'["pdcp"] = <<qfi, drb>> BY <1>1, <1>2 DEF SdapType
<1>7. SdapQuiet' BY <1>1, <1>2, <1>6 DEF SdapQuiet
<1>8. RulesLive' BY <1>1, <1>2 DEF RulesLive, SdapType, WithDefault, Mapped
<1>9. table'[qfi].has_sdap_tx = table[qfi].has_sdap_tx /\ Mapped(qfi)' = Mapped(qfi)
  BY <1>1, <1>2 DEF SdapType, WithDefault, Mapped
<1>10. ASSUME changed = 0 PROVE Announced("rrc")' /\ Announced("pdcp")'
  <2>1. Announced("rrc")' BY <1>1, <1>6, <1>10 DEF Announced, SdapQuiet
  <2>2. ASSUME Mapped(qfi) \in drbs, Mapped(qfi) # drb
        PROVE  LastMarked(sent', qfi) = Mapped(qfi)
    <3>1. drb # table[qfi].drb_id BY SMTT(30), <1>1, <1>2, <2>2 DEF Mapped, NoRule, SdapType
    <3> QED BY <1>2, <1>3, <1>4, <2>2, <3>1
  <2>3. Announced("pdcp")' BY SMTT(30), <1>2, <1>6, <1>9, <2>2 DEF Announced
  <2> QED BY <2>1, <2>3
<1>11. AllAnnounced' BY <1>2, <1>10 DEF AllAnnounced
<1>12. Moved
  <2>1. \A f \in Qfi : table[f].drb_id \in drbs => table'[f].drb_id = table[f].drb_id
    BY <1>1, <1>2 DEF SdapType, WithDefault, Mapped, NoRule
  <2> QED BY <2>1 DEF Moved
<1> QED BY <1>5, <1>7, <1>8, <1>11, <1>12 DEF SdapInv

\* StoreReflected makes the move that ReceiveReflective has announced.
LEMMA StoreReflectedStep ==
  ASSUME SdapInv, UNCHANGED session, StoreReflected
  PROVE  SdapInv' /\ Moved
<1> USE SdapAssumption
<1>1. SdapType /\ SdapQuiet /\ RulesLive /\ AllAnnounced BY DEF SdapInv
<1>2. PICK qfi \in Qfi, drb \in drbs : moving["pdcp"] = <<qfi, drb>>
  BY <1>1 DEF StoreReflected, SdapType, Moves
<1>3. /\ moving' = [moving EXCEPT !["pdcp"] = None]
      /\ table' = [table EXCEPT ![qfi].drb_id = drb]
      /\ UNCHANGED <<drbs, entity, default_drb, tun, sent, released, changed>>
  BY <1>2 DEF StoreReflected
<1>4. /\ table' \in [Qfi -> [drb_id : Nat, has_sdap_tx : BOOLEAN]]
      /\ \A f \in Qfi : table'[f].drb_id = IF f = qfi THEN drb ELSE table[f].drb_id
  BY ZenonT(60), <1>1, <1>3 DEF SdapType
<1>5. moving' \in [{"rrc", "pdcp"} -> Moves'] /\ moving'["pdcp"] = None /\ moving'["rrc"] = moving["rrc"]
  BY <1>1, <1>3 DEF SdapType, Moves
<1>6. SdapType' BY <1>1, <1>3, <1>4, <1>5 DEF SdapType
<1>7. RulesLive' BY <1>1, <1>3, <1>4 DEF RulesLive
<1>8. session.reflective BY <1>1, <1>2 DEF SdapQuiet, None
<1>9. entity
  <2>1. drbs # {} BY <1>2
  <2> QED BY <1>1, <2>1 DEF SdapQuiet
<1>10. SdapQuiet' BY <1>1, <1>3, <1>5, <1>9 DEF SdapQuiet
<1>11. AllAnnounced'
  <2>1. SUFFICES ASSUME changed = 0 PROVE Announced("rrc")' /\ Announced("pdcp")'
    BY <1>3, <1>8 DEF AllAnnounced
  <2> QED BY <1>1, <1>5, <2>1 DEF SdapQuiet, Announced
<1>12. Moved
  <2>1. SUFFICES ASSUME changed = 0, NEW f \in Qfi, table[f].drb_id \in drbs,
                        table'[f].drb_id \notin {table[f].drb_id, NoRule}, table[f].has_sdap_tx
                 PROVE  LastMarked(sent', f) = table[f].drb_id
    BY <1>3, <1>8 DEF Moved
  <2>2. f = qfi /\ table[f].drb_id # drb BY <1>4, <2>1
  <2>3. Mapped(qfi) = table[qfi].drb_id BY <1>1, <2>1, <2>2 DEF Mapped, NoRule, SdapType
  <2>4. Announced("pdcp") BY <1>1, <2>1 DEF AllAnnounced
  <2>5. moving["pdcp"] # None /\ moving["pdcp"][1] = qfi /\ moving["pdcp"][2] = drb BY <1>2 DEF None
  <2> QED BY <1>3, <2>1, <2>2, <2>3, <2>4, <2>5 DEF Announced
<1> QED BY <1>6, <1>7, <1>10, <1>11, <1>12 DEF SdapInv

\* ReleaseDrb removes the rules that lead to the DRB; PDCP may bring one back, when
\* it delivers what it has held back.
LEMMA ReleaseDrbStep ==
  ASSUME SdapInv, UNCHANGED session, NEW drb \in Drb, ReleaseDrb(drb)
  PROVE  SdapInv' /\ Moved
<1> USE SdapAssumption
<1> DEFINE rules == WithoutRules({qfi \in Qfi : table[qfi].drb_id = drb})
           Rules == [Qfi -> [drb_id : Nat, has_sdap_tx : BOOLEAN]]
<1>1. SdapType /\ SdapQuiet /\ RulesLive BY DEF SdapInv
<1>2. /\ drb \in drbs /\ moving["rrc"] = None /\ moving["pdcp"] = None
      /\ drbs' = drbs \ {drb}
      /\ UNCHANGED <<entity, default_drb, moving, tun, changed>>
  BY DEF ReleaseDrb, Locked
<1>3. rules \in Rules BY SMTT(30), <1>1 DEF SdapType, WithoutRules, NoRule
<1>4. \A f \in Qfi : rules[f].drb_id = IF table[f].drb_id = drb THEN NoRule ELSE table[f].drb_id
  BY <1>1 DEF SdapType, WithoutRules
<1>5. \/ table' = rules /\ sent' = sent
      \/ /\ session.held_back
         /\ \E qfi \in Qfi : /\ sent' = sent \o Submitted(ReflectedMarkers(rules, drb, qfi))
                            /\ table' = [rules EXCEPT ![qfi].drb_id = drb]
  BY ZenonT(60) DEF ReleaseDrb
<1> HIDE DEF rules
<1>6. moving' \in [{"rrc", "pdcp"} -> Moves'] BY <1>1, <1>2 DEF SdapType, Moves
<1>7. AllAnnounced' BY <1>2 DEF AllAnnounced, Announced
<1>8. entity
  <2>1. drbs # {} BY <1>2
  <2> QED BY <1>1, <2>1 DEF SdapQuiet
<1>9. SdapQuiet' BY <1>1, <1>2, <1>8 DEF SdapQuiet
<1>10. CASE table' = rules /\ sent' = sent
  <2>1. SdapType' BY SMTT(30), <1>1, <1>2, <1>3, <1>6, <1>10 DEF SdapType
  <2>2. RulesLive' BY <1>1, <1>2, <1>4, <1>10 DEF RulesLive
  <2>3. Moved BY <1>4, <1>10 DEF Moved
  <2> QED BY <1>7, <1>9, <2>1, <2>2, <2>3 DEF SdapInv
<1>11. ASSUME session.held_back, NEW qfi \in Qfi,
              sent' = sent \o Submitted(ReflectedMarkers(rules, drb, qfi)),
              table' = [rules EXCEPT ![qfi].drb_id = drb]
       PROVE  SdapInv' /\ Moved
  <2> DEFINE m == ReflectedMarkers(rules, drb, qfi)
             d == IF rules[qfi].drb_id # NoRule THEN rules[qfi].drb_id ELSE default_drb
  <2>1. /\ m \in Seq(Pdu)
        /\ \A i \in 1..Len(m) : m[i] = EndMarker(qfi, d)
        /\ drb # rules[qfi].drb_id => m # <<>>
    BY <1>1, <1>3, ReflectedMarks
  <2> HIDE DEF m
  <2>2. sent \in Seq(Pdu) BY <1>1 DEF SdapType
  <2>3. sent \o Submitted(m) \in Seq(Pdu) BY <2>1, <2>2, MarksSubmitted
  <2>4. m # <<>> /\ d \in drbs => LastMarked(sent \o Submitted(m), qfi) = d
    <3> HIDE DEF d
    <3> QED BY <2>1, <2>2, MarksSubmitted
  <2>5. table' \in Rules /\ \A f \in Qfi : f # qfi => table'[f].drb_id = rules[f].drb_id
    BY <1>3, <1>11
  <2>6. SdapType' BY <1>1, <1>2, <1>6, <1>11, <2>3, <2>5 DEF SdapType, m
  <2>7. RulesLive' BY <1>11 DEF RulesLive
  <2>8. ASSUME NEW f \in Qfi, table[f].drb_id \in drbs,
               table'[f].drb_id \notin {table[f].drb_id, NoRule}, table[f].has_sdap_tx
        PROVE  LastMarked(sent', f) = table[f].drb_id
    <3>1. f = qfi BY <1>4, <2>5, <2>8
    <3>2. table[qfi].drb_id # drb BY <1>3, <1>11, <2>8, <3>1
    <3>3. rules[qfi].drb_id = table[qfi].drb_id /\ table[qfi].drb_id # NoRule
      BY SMTT(30), <1>1, <1>4, <2>8, <3>1, <3>2 DEF NoRule, SdapType
    <3> QED BY SMTT(30), <1>11, <2>1, <2>4, <2>8, <3>1, <3>2, <3>3 DEF m
  <2>9. Moved BY <2>8 DEF Moved
  <2> QED BY <1>7, <1>9, <2>6, <2>7, <2>9 DEF SdapInv
<1> QED BY <1>5, <1>10, <1>11

\* The tun thread stores the default DRB for a flow without a rule, which moves no
\* flow and leaves every flow mapped to where it was.
LEMMA ReadRuleStep ==
  ASSUME SdapInv, UNCHANGED session, NEW qfi \in Qfi, ReadRule(qfi)
  PROVE  SdapInv' /\ Moved
<1> USE SdapAssumption
<1>1. SdapType /\ SdapQuiet /\ RulesLive /\ AllAnnounced BY DEF SdapInv
<1>2. /\ entity
      /\ tun' = IF Mapped(qfi) # 0 THEN Data(qfi, Mapped(qfi), table[qfi].has_sdap_tx) ELSE Data(qfi, 1, FALSE)
      /\ table' = WithDefault(qfi)
      /\ UNCHANGED <<drbs, entity, default_drb, moving, sent, released, changed>>
  BY DEF ReadRule
<1>3. Mapped(qfi) \in Nat BY <1>1 DEF SdapType, Mapped
<1>4. tun' \in Pdu /\ tun'.kind = "data" BY <1>1, <1>2, <1>3 DEF SdapType, Data, Pdu
<1>5. /\ table' \in [Qfi -> [drb_id : Nat, has_sdap_tx : BOOLEAN]]
      /\ \A f \in Qfi : table'[f].has_sdap_tx = table[f].has_sdap_tx /\ Mapped(f)' = Mapped(f)
      /\ \A f \in Qfi : table[f].drb_id # NoRule => table'[f].drb_id = table[f].drb_id
  BY SMTT(30), <1>1, <1>2, <1>3 DEF SdapType, WithDefault, Mapped
<1>6. SdapType' BY ZenonT(60), <1>1, <1>2, <1>4, <1>5 DEF SdapType, Moves
<1>7. SdapQuiet' BY ZenonT(60), <1>1, <1>2, <1>4 DEF SdapQuiet
<1>8. RulesLive' BY SMTT(30), <1>1, <1>2 DEF RulesLive, SdapType, WithDefault, Mapped
<1>9. ASSUME NEW t \in {"rrc", "pdcp"}, Announced(t) PROVE Announced(t)'
  <2>1. moving[t] # None => moving[t][1] \in Qfi BY <1>1 DEF SdapType, Moves
  <2> HIDE DEF Mapped
  <2> QED BY <1>2, <1>5, <1>9, <2>1 DEF Announced
<1>10. AllAnnounced' BY <1>1, <1>2, <1>9 DEF AllAnnounced
<1>11. Moved BY SMTT(30), <1>1, <1>5 DEF Moved, SdapType, NoRule
<1> QED BY <1>6, <1>7, <1>8, <1>10, <1>11 DEF SdapInv

\* The tun thread's data comes between no end marker and its move.
LEMMA SubmitStep ==
  ASSUME SdapInv, UNCHANGED session, Submit
  PROVE  SdapInv' /\ Moved
<1>1. SdapType /\ SdapQuiet /\ RulesLive /\ AllAnnounced BY DEF SdapInv
<1>2. /\ tun # None /\ tun' = None
      /\ sent' = sent \o Submitted(<<tun>>)
      /\ UNCHANGED <<drbs, entity, default_drb, table, moving, released, changed>>
  BY DEF Submit
<1>3. tun \in Pdu /\ tun.kind = "data" BY <1>1, <1>2 DEF SdapType, SdapQuiet
<1> DEFINE m == Submitted(<<tun>>)
<1>4. m \in {<<tun>>, <<>>} BY DEF Submitted
<1>5. m \in Seq(Pdu) /\ \A i \in 1..Len(m) : m[i].kind # "end"
  <2>1. CASE m = <<tun>>
    <3> HIDE DEF m
    <3> QED BY <1>3, <2>1
  <2>2. CASE m = <<>>
    <3> HIDE DEF m
    <3> QED BY <2>2
  <2> QED BY <1>4, <2>1, <2>2
<1> HIDE DEF m
<1>6. sent \in Seq(Pdu) BY <1>1 DEF SdapType
<1>7. \A f : LastMarked(sent', f) = LastMarked(sent, f) BY ZenonT(60), <1>2, <1>5, <1>6, MarkKept DEF m
<1>8. SdapType' BY SMTT(30), <1>1, <1>2, <1>5 DEF SdapType, Moves, m
<1>9. SdapQuiet' BY <1>1, <1>2 DEF SdapQuiet
<1>10. RulesLive' BY SMTT(30), <1>1, <1>2 DEF RulesLive
<1>11. AllAnnounced' BY <1>1, <1>2, <1>7 DEF AllAnnounced, Announced, Mapped
<1>12. Moved BY <1>2 DEF Moved
<1> QED BY <1>8, <1>9, <1>10, <1>11, <1>12 DEF SdapInv

-----------------------------------------------------------------------------
(* Theorems                                                                *)

\* At the start there is no DRB, no rule and no end marker.
LEMMA SdapInit == Init => SdapInv
<1> SUFFICES ASSUME Init PROVE SdapInv OBVIOUS
<1>1. SdapType
  <2>1. sent \in Seq(Pdu)
    <3>1. <<>> \in Seq(Pdu) OBVIOUS
    <3> QED BY <3>1 DEF Init
  <2>2. moving \in [{"rrc", "pdcp"} -> Moves] BY DEF Init, Moves
  <2>3. table \in [Qfi -> [drb_id : Nat, has_sdap_tx : BOOLEAN]] BY DEF Init, NoRule
  <2> QED BY ZenonT(60), <2>1, <2>2, <2>3 DEF Init, SdapType
<1>2. SdapQuiet BY DEF Init, SdapQuiet, None
<1>3. RulesLive BY DEF Init, RulesLive
<1>4. AllAnnounced BY DEF Init, AllAnnounced, Announced
<1> QED BY <1>1, <1>2, <1>3, <1>4 DEF SdapInv

\* Every step keeps the invariant and moves no flow unannounced.
LEMMA SdapStep == SdapInv /\ [Next]_vars => SdapInv' /\ Moved
<1> SUFFICES ASSUME SdapInv, [Next]_vars PROVE SdapInv' /\ Moved OBVIOUS
<1>1. CASE UNCHANGED vars
  <2>1. SdapInv'
    <3>1. /\ session' = session /\ drbs' = drbs /\ entity' = entity /\ default_drb' = default_drb
          /\ table' = table /\ moving' = moving /\ tun' = tun /\ sent' = sent /\ changed' = changed
      BY ZenonT(30), <1>1 DEF vars
    <3>2. SdapType' BY ZenonT(60), <3>1 DEF SdapInv, SdapType, Moves
    <3>3. SdapQuiet' BY ZenonT(60), <3>1 DEF SdapInv, SdapQuiet
    <3>4. RulesLive' BY ZenonT(60), <3>1 DEF SdapInv, RulesLive
    <3>5. AllAnnounced'
      <4>1. \A qfi : Mapped(qfi)' = Mapped(qfi)
        BY ZenonT(30), <3>1 DEF Mapped
      <4>2. ASSUME NEW t, Announced(t) PROVE Announced(t)'
        <5>1. LastMarked(sent, moving[t][1])' = LastMarked(sent, moving[t][1])
          BY ZenonT(30), <3>1
        <5> QED BY ZenonT(30), <3>1, <4>1, <4>2, <5>1 DEF Announced
      <4> QED BY ZenonT(30), <3>1, <4>2 DEF SdapInv, AllAnnounced
    <3> QED BY ZenonT(30), <3>2, <3>3, <3>4, <3>5 DEF SdapInv
  <2>2. Moved BY <1>1 DEF Moved, vars
  <2> QED BY <2>1, <2>2
<1>2. CASE Next
  BY <1>2, AddDrbStep, ReconfigureStep, ReceiveReflectiveStep, ReleaseDrbStep, StoreConfiguredStep,
     ReadRuleStep, StoreReflectedStep, SubmitStep DEF Next
<1> QED BY <1>1, <1>2

\* No flow is ever mapped to a DRB that PDCP does not have, the default DRB and what
\* PDCP delivers at a release excepted: for any DRBs, flows and reconfigurations,
\* with the PDCP lock as the only thing that orders the three threads.
THEOREM SdapRulesLive == Spec => []RulesLive
<1>1. SdapInv => RulesLive BY DEF SdapInv
<1> QED BY <1>1, SdapInit, SdapStep, PTL DEF Spec

\* A flow leaves a DRB with SDAP headers only after its last end marker went to that
\* DRB, though the tun thread submits between the end marker and the new rule.
THEOREM SdapMoveAnnounced == Spec => MoveAnnounced
<1>1. SdapInv /\ [Next]_vars => [Moved]_vars BY SdapStep
<1>2. Spec => [][Moved]_vars BY <1>1, SdapInit, SdapStep, PTL DEF Spec
<1> QED BY <1>2 DEF Moved, MoveAnnounced
=============================================================================
