----------------------- MODULE NrRlcAmReceiverProofs ------------------------
(***************************************************************************)
(* Proofs about the receiving side, for every modulus, set of SDUs, buffer *)
(* size and number of re-establishments.                                   *)
(***************************************************************************)
EXTENDS NrRlcAmReceiver, NrRlcSnTheorems

\* The loop "while (sdu_delivered(entity, sn)) sn = (sn + 1) % sn_modulus"
\* comes to rest on an SN that is not delivered, no further than any SN h
\* ahead that is not delivered, and all it passes is delivered.  Distances
\* are measured from an arbitrary base that the loop does not go round to.
LEMMA FirstUndeliveredIs ==
  ASSUME NEW base \in Sn, NEW sn \in Sn, NEW done \in SUBSET Sn,
         NEW h \in Sn, h \notin done, Modulus(base, sn) <= Modulus(base, h)
  PROVE  LET f == FirstUndelivered(sn, done)
         IN  /\ f \in Sn /\ f \notin done
             /\ Modulus(base, sn) <= Modulus(base, f)
             /\ Modulus(base, f) <= Modulus(base, h)
             /\ \A y \in Sn :
                  Modulus(base, sn) <= Modulus(base, y)
                  /\ Modulus(base, y) < Modulus(base, f) => y \in done
BY ZenonT(60), FirstAbsent DEF FirstUndelivered

-----------------------------------------------------------------------------
(* The window                                                              *)

\* The markers, measured from where SN 0 was, do not move back in a step.
MarkersAhead ==
  /\ rx_count' >= rx_count
  /\ rx_count' + Off(rx_highest_status)' >= rx_count + Off(rx_highest_status)
  /\ rx_count' + Off(rx_next_highest)' >= rx_count + Off(rx_next_highest)

\* The inductive invariant.  Each conjunct needs the others: that the expiry
\* of t_reassembly leaves rx_highest_status within rx_next_highest
\* (WindowOrder) needs the trigger to be within it (TriggerInWindow), which
\* reception_actions keeps because rx_next never passes rx_highest_status.
RxInv == TypeOK /\ WindowOrder /\ TriggerInWindow

\* What is delivered once segment s is in the list, before rx_next moves
Done(s) == IF SduFull(rx_list \cup {s}, s.sn) THEN rx_delivered \cup {s.sn}
                                              ELSE rx_delivered

\* rx_next moves over delivered SDUs only, and what it passes is dropped.
Passes(s) ==
  /\ Off(rx_next') <= WindowSize
  /\ rx_count' = rx_count + Off(rx_next')
  /\ \A y \in Sn : Off(y) < Off(rx_next') => y \in Done(s)
  /\ rx_delivered' = {y \in Done(s) : Off(rx_next') <= Off(y)}
  /\ rx_list' = {p \in rx_list \cup {s} : Off(rx_next') <= Off(p.sn)}

\* A new entity satisfies the invariant (new_nr_rlc_entity_am).
LEMMA InitRxInv == Init => RxInv
<1> SUFFICES ASSUME Init PROVE RxInv
  OBVIOUS
<1>1. 0 \in Sn /\ Modulus(0, 0) = 0
  BY Window DEF Sn, Modulus
<1>2. TypeOK
  <2>1. {t_reassembly, status_triggered, t_status_prohibit, garbled} \subseteq BOOLEAN
    BY ZenonT(60) DEF Init, RxInit
  <2>2. delivered \in [Sdu -> Nat]
    BY DEF Init, RxInit
  <2> QED BY <1>1, <2>1, <2>2 DEF Init, RxInit, TypeOK
<1>3. WindowOrder
  BY <1>1, Window DEF Init, RxInit, WindowOrder, Off
<1>4. TriggerInWindow
  BY DEF Init, RxInit, TriggerInWindow
<1> QED BY <1>2, <1>3, <1>4 DEF RxInv

\* reception_actions keeps the invariant and moves no marker back, for every
\* segment that passed the window test of nr_rlc_entity_am_recv_pdu.
LEMMA ReceptionKeepsWindow ==
  ASSUME RxInv, NEW s, s.sn \in Sn, SnInRecvWindow(rx_next, s.sn),
         ReceptionActions(s)
  PROVE  /\ {rx_next', rx_next_highest', rx_highest_status',
              rx_next_status_trigger'} \subseteq Sn
         /\ t_reassembly' \in BOOLEAN /\ rx_count' \in Nat
         /\ rx_delivered' \subseteq Sn
         /\ rx_list' \subseteq rx_list \cup {s}
         /\ WindowOrder' /\ TriggerInWindow' /\ MarkersAhead
         /\ Passes(s)
<1> DEFINE x       == s.sn
           list    == rx_list \cup {s}
           full    == SduFull(list, x)
           done    == IF full THEN rx_delivered \cup {x} ELSE rx_delivered
           highest == IF SnCompare(rx_next, x, rx_next_highest) >= 0
                        THEN SnAdd(x, 1) ELSE rx_next_highest
           hs      == IF full /\ x = rx_highest_status
                        THEN FirstUndelivered(x, done) ELSE rx_highest_status
           next    == IF full /\ x = rx_next THEN FirstUndelivered(x, done)
                                             ELSE rx_next
           passed  == {sn \in Sn : Off(sn) < Off(next)}
           list2   == {p \in list : p.sn \notin passed}
           done2   == done \ passed
           running == t_reassembly /\ ~ReassemblyOver(next, list2, done2)
           start   == ~running /\ ReassemblyGap(next, next, highest, list2, done2)
           trigger == rx_next_status_trigger
<1>1. /\ rx_next \in Sn /\ rx_next_highest \in Sn /\ rx_highest_status \in Sn
      /\ rx_delivered \subseteq Sn /\ rx_count \in Nat
      /\ \A p \in list : p.sn \in Sn
      /\ Off(rx_highest_status) <= Off(rx_next_highest)
      /\ Off(rx_next_highest) <= WindowSize
      /\ \A p \in rx_list : Off(p.sn) < Off(rx_next_highest)
      /\ rx_delivered \subseteq {p.sn : p \in rx_list}
      /\ rx_next \notin rx_delivered /\ rx_highest_status \notin rx_delivered
  BY DEF RxInv, TypeOK, WindowOrder
<1>2. \A y \in Sn : Off(y) \in Sn
  BY <1>1, ModulusType DEF Off
<1>3. /\ highest \in Sn
      /\ Off(x) < Off(highest)
      /\ Off(rx_next_highest) <= Off(highest) /\ Off(highest) <= WindowSize
  <2>1. Off(x) < WindowSize
    BY DEF SnInRecvWindow, Off
  <2>2. SnAdd(x, 1) \in Sn /\ Off(SnAdd(x, 1)) = Off(x) + 1
    <3>1. 1 \in Sn /\ 1 \in 0 .. SnModulus
      BY Window DEF Sn
    <3>2. Off(x) + 1 < SnModulus
      BY SMTT(30), <1>2, <2>1, Window DEF Sn
    <3> QED BY <1>1, <3>1, <3>2, SnAddType, ModulusAdvance DEF Off
  <2> QED BY <1>1, <1>2, <2>1, <2>2, Window DEF SnCompare, Off, Sn
<1>4. /\ done \in SUBSET Sn /\ done \subseteq {p.sn : p \in list}
      /\ \A y \in done : Off(y) < Off(highest)
      /\ highest \notin done
  <2>1. done \in SUBSET Sn /\ done \subseteq {p.sn : p \in list}
    BY <1>1
  <2>2. \A p \in list : Off(p.sn) < Off(highest)
    BY SMTT(30), <1>1, <1>2, <1>3, Window DEF Sn
  <2> QED BY SMTT(30), <1>2, <1>3, <2>1, <2>2, Window DEF Sn
<1> HIDE DEF highest, done, full
<1>5. /\ hs \in Sn /\ hs \notin done
      /\ Off(rx_highest_status) <= Off(hs) /\ Off(hs) <= Off(highest)
      /\ \A y \in Sn : Off(rx_highest_status) <= Off(y) /\ Off(y) < Off(hs)
                       => y \in done
  <2>1. CASE full /\ x = rx_highest_status
    <3>1. Off(x) <= Off(highest)
      BY SMTT(30), <1>2, <1>3, Window DEF Sn
    <3> QED BY SMTT(30), <1>1, <1>3, <1>4, <2>1, <3>1, FirstUndeliveredIs DEF Off
  <2>2. CASE ~(full /\ x = rx_highest_status)
    <3>1. hs = rx_highest_status
      BY <2>2
    <3>2. hs \notin done
      BY SMTT(30), <1>1, <2>2, <3>1 DEF done
    <3> QED BY SMTT(30), <1>1, <1>2, <1>3, <3>1, <3>2, Window DEF Sn
  <2> QED BY SMTT(30), <2>1, <2>2
<1>6. /\ next \in Sn /\ next \notin done
      /\ Off(next) <= Off(highest)
      /\ \A y \in Sn : Off(y) < Off(next) => y \in done
  <2>0. Off(rx_next) = 0
    BY SMTT(30), <1>1, ModulusZero DEF Off
  <2>1. CASE full /\ x = rx_next
    <3>1. Off(x) <= Off(highest)
      BY <1>2, <1>3, Window DEF Sn
    <3>2. \A y \in Sn : Off(x) <= Off(y)
      BY SMTT(30), <1>2, <2>0, <2>1, Window DEF Sn
    <3> QED BY SMTT(30), <1>1, <1>3, <1>4, <2>1, <3>1, <3>2, FirstUndeliveredIs DEF Off
  <2>2. CASE ~(full /\ x = rx_next)
    <3>1. next = rx_next
      BY <2>2
    <3>2. next \notin done
      BY SMTT(30), <1>1, <2>2, <3>1 DEF done
    <3> QED BY SMTT(30), <1>1, <1>2, <1>3, <2>0, <3>1, <3>2, Window DEF Sn
  <2> QED BY <2>1, <2>2
<1>7. Off(next) <= Off(hs)
  BY SMTT(30), <1>2, <1>5, <1>6, Window DEF Sn
<1> HIDE DEF hs, next
<1>8. \A y \in Sn : Off(next) <= Off(y) => Modulus(next, y) = Off(y) - Off(next)
  BY SMTT(30), <1>1, <1>6, ModulusShift DEF Off
<1>9. /\ rx_next_highest' = highest /\ rx_highest_status' = hs /\ rx_next' = next
      /\ rx_count' = rx_count + Off(next)
      /\ rx_list' = list2 /\ rx_delivered' = done2
      /\ t_reassembly' = (running \/ start)
      /\ rx_next_status_trigger' = IF start THEN highest ELSE trigger
  BY ZenonT(60) DEF ReceptionActions, UpdateReassembly, hs, next, highest, done, full, Off
<1>10. WindowOrder'
  <2>1. /\ Modulus(next, hs) <= Modulus(next, highest)
        /\ Modulus(next, highest) <= WindowSize
    BY SMTT(30), <1>2, <1>3, <1>5, <1>6, <1>7, <1>8, Window DEF Sn
  <2>2. \A p \in rx_list' : Modulus(next, p.sn) < Modulus(next, highest)
    <3> SUFFICES ASSUME NEW p \in list, p.sn \notin passed
                 PROVE  Modulus(next, p.sn) < Modulus(next, highest)
      BY <1>9
    <3>1. p.sn \in Sn /\ Off(next) <= Off(p.sn)
      BY SMTT(30), <1>1, <1>2, <1>6, Window DEF Sn
    <3>2. Off(p.sn) < Off(highest)
      BY SMTT(30), <1>1, <1>2, <1>3, Window DEF Sn
    <3> QED BY SMTT(30), <1>2, <1>3, <1>6, <1>8, <3>1, <3>2, Window DEF Sn
  <2>3. rx_delivered' \subseteq {p.sn : p \in rx_list'}
    BY SMTT(30), <1>4, <1>9
  <2>4. next \notin rx_delivered' /\ hs \notin rx_delivered'
    BY SMTT(30), <1>5, <1>6, <1>9
  <2> QED BY SMTT(30), <1>9, <2>1, <2>2, <2>3, <2>4 DEF WindowOrder, Off
<1>11. MarkersAhead
  BY SMTT(30), <1>1, <1>2, <1>3, <1>5, <1>6, <1>7, <1>8, <1>9, Window
     DEF MarkersAhead, Off, Sn
<1>12. trigger \in Sn
  BY DEF RxInv, TypeOK
<1>13. TriggerInWindow'
  <2> DEFINE off2(y) == Modulus(next, y)
  <2>1. /\ off2(hs) <= off2(highest) /\ off2(highest) <= WindowSize
        /\ \A y \in Sn : off2(y) \in Sn
    <3>1. \A y \in Sn : off2(y) \in Sn
      BY SMTT(30), <1>6, ModulusType
    <3> QED BY SMTT(30), <1>2, <1>3, <1>5, <1>6, <1>7, <1>8, <3>1, Window DEF Sn
  <2>2. CASE start
    <3>1. off2(SnAdd(next, 1)) = 1
      BY SMTT(30), <1>6, ModulusSnAdd, Window DEF Sn
    <3>2. 1 <= off2(highest)
      BY SMTT(30), <1>3, <2>1, <2>2, <3>1, Window DEF ReassemblyGap, SnCompare, Sn
    <3>3. \A y \in Sn : ~(off2(highest) <= off2(y) /\ off2(y) < off2(hs))
      BY SMTT(30), <1>3, <1>5, <2>1, Window DEF Sn
    <3>4. off2(highest) \in 1 .. off2(highest)
      BY SMTT(30), <1>3, <2>1, <3>2, Window DEF Sn
    <3> QED BY SMTT(30), <1>9, <2>2, <3>3, <3>4 DEF TriggerInWindow, Off
  <2>3. CASE ~start /\ running
    <3>1. /\ Off(trigger) \in 1 .. Off(rx_next_highest)
          /\ \A y \in Sn : Off(trigger) <= Off(y) /\ Off(y) < Off(rx_highest_status)
                           => y \in rx_delivered
      BY SMTT(30), <2>3 DEF RxInv, TriggerInWindow
    <3>2. Off(next) <= Off(trigger)
      <4> SUFFICES ASSUME Off(trigger) < Off(next) PROVE FALSE
        BY SMTT(30), <1>2, <1>6, <1>12, Window DEF Sn
      <4>1. off2(trigger) = Off(trigger) - Off(next) + SnModulus
        BY SMTT(30), <1>1, <1>2, <1>6, <1>12, ModulusShift, Window DEF Off, Sn
      <4>2. off2(trigger) > WindowSize
        BY SMTT(30), <1>1, <1>2, <1>3, <1>6, <1>12, <3>1, <4>1, Window DEF Sn
      <4>3. off2(SnAdd(next, WindowSize)) = WindowSize
        BY SMTT(30), <1>6, ModulusSnAdd, Window DEF Sn
      <4>4. ReassemblyOver(next, list2, done2)
        BY SMTT(30), <1>12, <2>1, <4>2, <4>3, Window DEF ReassemblyOver, SnInRecvWindow, Sn
      <4> QED BY SMTT(30), <2>3, <4>4
    <3>3. off2(trigger) \in 1 .. off2(highest)
      <4>1. trigger # next
        BY <2>3 DEF ReassemblyOver
      <4>2. off2(trigger) # 0
        BY SMTT(30), <1>6, <1>12, <4>1, ModulusZero
      <4> QED BY SMTT(30), <1>1, <1>2, <1>3, <1>6, <1>8, <1>12, <2>1, <3>1, <3>2, <4>2, Window
              DEF Sn
    <3>4. ASSUME NEW y \in Sn, off2(trigger) <= off2(y), off2(y) < off2(hs)
          PROVE  y \in done2
      <4>1. Off(next) <= Off(y)
        <5> SUFFICES ASSUME Off(y) < Off(next) PROVE FALSE
          BY SMTT(30), <1>2, <1>6, Window DEF Sn
        <5>1. off2(y) = Off(y) - Off(next) + SnModulus
          BY SMTT(30), <1>1, <1>2, <1>6, ModulusShift, Window DEF Off, Sn
        <5> QED BY SMTT(30), <1>2, <1>3, <1>5, <1>6, <2>1, <3>4, <5>1, Window DEF Sn
      <4>2. Off(trigger) <= Off(y) /\ Off(y) < Off(hs)
        BY SMTT(30), <1>2, <1>5, <1>6, <1>7, <1>8, <1>12, <3>2, <3>4, <4>1, Window DEF Sn
      <4>3. y \in done
        <5>1. CASE Off(y) < Off(rx_highest_status)
          BY SMTT(30), <3>1, <4>2, <5>1 DEF done
        <5>2. CASE Off(rx_highest_status) <= Off(y)
          BY SMTT(30), <1>5, <4>2, <5>2
        <5> QED BY SMTT(30), <1>1, <1>2, <5>1, <5>2, Window DEF Sn
      <4>4. y \notin passed
        BY SMTT(30), <1>2, <1>6, <4>1, Window DEF Sn
      <4> QED BY SMTT(30), <4>3, <4>4
    <3> QED BY SMTT(30), <1>9, <2>3, <3>3, <3>4 DEF TriggerInWindow, Off
  <2>4. CASE ~start /\ ~running
    BY ZenonT(60), <1>9, <2>4 DEF TriggerInWindow
  <2> QED BY SMTT(30), <2>2, <2>3, <2>4
<1> QED
  <2>1. rx_count' \in Nat
    BY SMTT(30), <1>1, <1>2, <1>6, <1>9, Window DEF Sn
  <2>2. t_reassembly' \in BOOLEAN
    BY <1>9
  <2>3. Passes(s)
    <3>1. done = Done(s)
      BY DEF done, full, Done
    <3>2. \A y \in Sn : y \in passed <=> ~(Off(next) <= Off(y))
      BY <1>2, <1>6, Window DEF Sn
    <3>3. Off(next) <= WindowSize
      BY <1>2, <1>3, <1>6, Window DEF Sn
    <3>4. done2 = {y \in Done(s) : Off(next) <= Off(y)}
      BY <1>4, <3>1, <3>2
    <3>5. list2 = {p \in rx_list \cup {s} : Off(next) <= Off(p.sn)}
      BY <1>1, <3>2
    <3> QED BY SMTT(30), <1>6, <1>9, <3>1, <3>3, <3>4, <3>5 DEF Passes
  <2> QED BY SMTT(30), <1>3, <1>4, <1>5, <1>6, <1>9, <1>10, <1>11, <1>12, <1>13, <2>1, <2>2,
             <2>3

\* check_t_reassembly keeps the invariant: rx_highest_status moves ahead, to an
\* SDU that is not delivered and not beyond rx_next_highest.
LEMMA ExpiryKeepsWindow ==
  ASSUME RxInv, TReassemblyExpires
  PROVE  /\ {rx_highest_status', rx_next_status_trigger'} \subseteq Sn
         /\ t_reassembly' \in BOOLEAN
         /\ WindowOrder' /\ TriggerInWindow' /\ MarkersAhead
<1> DEFINE trigger == rx_next_status_trigger
           hs      == FirstUndelivered(trigger, rx_delivered)
           again   == ReassemblyGap(rx_next, hs, rx_next_highest, rx_list, rx_delivered)
<1>1. /\ rx_next \in Sn /\ rx_next_highest \in Sn /\ rx_highest_status \in Sn
      /\ trigger \in Sn /\ rx_delivered \in SUBSET Sn /\ rx_count \in Nat
      /\ \A p \in rx_list : p.sn \in Sn
  BY DEF RxInv, TypeOK
<1>2. /\ Off(rx_highest_status) <= Off(rx_next_highest)
      /\ Off(rx_next_highest) <= WindowSize
      /\ \A p \in rx_list : Off(p.sn) < Off(rx_next_highest)
      /\ rx_delivered \subseteq {p.sn : p \in rx_list}
      /\ rx_next \notin rx_delivered /\ rx_highest_status \notin rx_delivered
  BY SMTT(30) DEF RxInv, WindowOrder
<1>3. /\ Off(trigger) \in 1 .. Off(rx_next_highest)
      /\ \A y \in Sn : Off(trigger) <= Off(y) /\ Off(y) < Off(rx_highest_status)
                       => y \in rx_delivered
  BY DEF RxInv, TriggerInWindow, TReassemblyExpires
<1>4. \A y \in Sn : Off(y) \in Sn
  BY SMTT(30), <1>1, ModulusType DEF Off
<1>5. rx_next_highest \notin rx_delivered
  BY SMTT(30), <1>1, <1>2, <1>4, Window DEF Sn
<1>6. /\ hs \in Sn /\ hs \notin rx_delivered
      /\ Off(trigger) <= Off(hs) /\ Off(hs) <= Off(rx_next_highest)
      /\ \A y \in Sn : Off(trigger) <= Off(y) /\ Off(y) < Off(hs)
                       => y \in rx_delivered
  <2>1. Off(trigger) <= Off(rx_next_highest)
    BY SMTT(30), <1>1, <1>3, <1>4, Window DEF Sn
  <2> QED BY SMTT(30), <1>1, <1>5, <2>1, FirstUndeliveredIs DEF Off
<1> HIDE DEF hs
<1>7. Off(rx_highest_status) <= Off(hs)
  BY SMTT(30), <1>1, <1>3, <1>4, <1>6, Window DEF Sn
<1>8. /\ rx_highest_status' = hs /\ t_reassembly' = again
      /\ rx_next_status_trigger' = IF again THEN rx_next_highest ELSE trigger
      /\ UNCHANGED <<rx_next, rx_next_highest, rx_list, rx_delivered, rx_count>>
  BY SMTT(30) DEF TReassemblyExpires, hs, rx_history
<1>9. WindowOrder'
  BY SMTT(30), <1>2, <1>6, <1>8 DEF WindowOrder, Off
<1>10. ASSUME again PROVE Off(rx_next_highest) \in 1 .. Off(rx_next_highest)
  <2>1. 1 \in Sn /\ 1 \in 0 .. SnModulus
    BY SMTT(30), Window DEF Sn
  <2>2. Off(hs) + 1 < SnModulus
    BY SMTT(30), <1>1, <1>2, <1>4, <1>6, Window DEF Sn
  <2>3. Off(SnAdd(hs, 1)) = Off(hs) + 1
    BY SMTT(30), <1>1, <1>6, <2>1, <2>2, ModulusAdvance DEF Off
  <2>4. 1 <= Off(rx_next_highest)
    BY SMTT(30), <1>1, <1>4, <1>6, <1>10, <2>3, Window DEF ReassemblyGap, SnCompare, Off, Sn
  <2> QED BY SMTT(30), <1>1, <1>4, <2>4, Window DEF Sn
<1>11. TriggerInWindow'
  <2>1. \A y \in Sn : ~(Off(rx_next_highest) <= Off(y) /\ Off(y) < Off(hs))
    BY SMTT(30), <1>1, <1>4, <1>6, Window DEF Sn
  <2>2. CASE again
    BY SMTT(30), <1>8, <1>10, <2>1, <2>2 DEF TriggerInWindow, Off
  <2>3. CASE ~again
    BY SMTT(30), <1>8, <2>3 DEF TriggerInWindow
  <2> QED BY SMTT(30), <2>2, <2>3
<1>12. MarkersAhead
  BY SMTT(30), <1>1, <1>4, <1>6, <1>7, <1>8, Window DEF MarkersAhead, Off, Sn
<1>13. t_reassembly' \in BOOLEAN
  BY <1>8 DEF ReassemblyGap
<1> QED BY SMTT(30), <1>1, <1>6, <1>8, <1>9, <1>11, <1>12, <1>13

\* A step that touches neither the buffer nor the markers keeps the invariant.
LEMMA KeepWindow ==
  ASSUME RxInv, UNCHANGED <<rx_state, rx_history, rx_base, clears>>,
         status_triggered' \in BOOLEAN, t_status_prohibit' \in BOOLEAN
  PROVE  RxInv' /\ MarkersAhead
<1>1. UNCHANGED <<rx_next, rx_next_highest, rx_highest_status,
                  rx_next_status_trigger, t_reassembly, rx_list, rx_delivered,
                  rx_count, delivered, garbled>>
  BY SMTT(30) DEF rx_state, rx_history
<1>2. TypeOK'
  BY SMTT(30), <1>1 DEF RxInv, TypeOK
<1>3. WindowOrder' /\ TriggerInWindow'
  BY SMTT(30), <1>1 DEF RxInv, WindowOrder, TriggerInWindow, Off
<1>4. MarkersAhead
  <2>1. /\ rx_count \in Int /\ Off(rx_highest_status) \in Int
        /\ Off(rx_next_highest) \in Int
    BY SMTT(30), ModulusType, Window DEF RxInv, TypeOK, Off, Sn
  <2> QED BY SMTT(30), <1>1, <2>1 DEF MarkersAhead, Off
<1> QED BY SMTT(30), <1>2, <1>3, <1>4 DEF RxInv

\* Every segment the peer can send has the types of a received one.
LEMMA SegmentType ==
  ASSUME NEW d \in Sdu, NEW so \in 0 .. (SduSize[d] - 1),
         NEW size \in 1 .. (SduSize[d] - so), rx_base \in Nat
  PROVE  LET s == SegmentOf(d, so, size)
         IN  /\ s.sn \in Sn /\ s.so \in Nat /\ s.size \in Nat \ {0}
             /\ s.is_last \in BOOLEAN
<1>1. d \in Int /\ SduSize[d] \in Nat
  BY SMTT(30), ReceiverAssumption, SduSizeAssumption
<1>2. (d - rx_base) % SnModulus \in Sn
  BY SMTT(30), <1>1, Window DEF Sn
<1> QED BY SMTT(30), <1>1, <1>2 DEF SegmentOf

\* One step of the receiver keeps the invariant, and moves no marker back
\* unless it is a re-establishment.
LEMMA NextRxInv ==
  ASSUME RxInv, [Next]_vars
  PROVE  RxInv' /\ (clears' = clears => MarkersAhead)
<1>1. CASE Receive
  <2>1. PICK d \in Sdu, p \in BOOLEAN :
          /\ \E so \in 0 .. (SduSize[d] - 1) : \E size \in 1 .. (SduSize[d] - so) :
               RecvPdu(SegmentOf(d, so, size), p)
          /\ UNCHANGED <<rx_base, clears>>
    BY SMTT(30), <1>1 DEF Receive
  <2>2. PICK so \in 0 .. (SduSize[d] - 1) :
          \E size \in 1 .. (SduSize[d] - so) : RecvPdu(SegmentOf(d, so, size), p)
    BY SMTT(30), <2>1
  <2>2a. PICK size \in 1 .. (SduSize[d] - so) : RecvPdu(SegmentOf(d, so, size), p)
    BY SMTT(30), <2>2
  <2> DEFINE s == SegmentOf(d, so, size)
  <2>3. /\ s.sn \in Sn /\ s.so \in Nat /\ s.size \in Nat \ {0}
        /\ s.is_last \in BOOLEAN
    BY SMTT(30), SegmentType DEF RxInv, TypeOK
  <2> HIDE DEF s
  <2>4. RecvPdu(s, p)
    BY SMTT(30), <2>2a DEF s
  <2>5. status_triggered' \in BOOLEAN /\ t_status_prohibit' \in BOOLEAN
    BY SMTT(30), <2>4 DEF RecvPdu, RxInv, TypeOK
  <2>6. CASE Discarded(s)
    <3>1. UNCHANGED <<rx_state, rx_history, rx_base, clears>>
      BY SMTT(30), <2>1, <2>4, <2>6 DEF RecvPdu
    <3> QED BY SMTT(30), <2>5, <3>1, KeepWindow
  <2>7. CASE ~Discarded(s)
    <3>1. ReceptionActions(s) /\ SnInRecvWindow(rx_next, s.sn)
      BY SMTT(30), <2>4, <2>7 DEF RecvPdu, Discarded
    <3>2. /\ {rx_next', rx_next_highest', rx_highest_status',
              rx_next_status_trigger'} \subseteq Sn
          /\ t_reassembly' \in BOOLEAN /\ rx_count' \in Nat
          /\ rx_delivered' \subseteq Sn
          /\ rx_list' \subseteq rx_list \cup {s}
          /\ WindowOrder' /\ TriggerInWindow' /\ MarkersAhead
      BY SMTT(30), <2>3, <3>1, ReceptionKeepsWindow
    <3>3. delivered' \in [Sdu -> Nat] /\ garbled' \in BOOLEAN
      <4> DEFINE segs == SegmentsOf(rx_list \cup {s}, s.sn)
      <4>1. delivered \in [Sdu -> Nat] /\ garbled \in BOOLEAN
        BY SMTT(30) DEF RxInv, TypeOK
      <4>2. DeliverSdu(segs) \/ NoDelivery
        BY ZenonT(60), <3>1 DEF ReceptionActions
      <4> HIDE DEF segs
      <4>3. CASE DeliverSdu(segs)
        <5>1. delivered' \in [Sdu -> Nat]
          BY SMTT(30), <4>1, <4>3 DEF DeliverSdu
        <5> QED BY SMTT(30), <4>1, <4>3, <5>1 DEF DeliverSdu
      <4> QED BY SMTT(30), <4>1, <4>2, <4>3 DEF NoDelivery
    <3>4. TypeOK'
      BY ZenonT(60), <2>1, <2>3, <2>5, <3>2, <3>3 DEF RxInv, TypeOK
    <3> QED BY SMTT(30), <3>2, <3>4 DEF RxInv
  <2> QED BY SMTT(30), <2>6, <2>7
<1>2. CASE ReceiveBad
  <2>1. PICK p \in BOOLEAN : RecvBadPdu(p) /\ UNCHANGED <<rx_base, clears>>
    BY SMTT(30), <1>2 DEF ReceiveBad
  <2>2. status_triggered' \in BOOLEAN /\ t_status_prohibit' \in BOOLEAN
    BY SMTT(30), <2>1 DEF RecvBadPdu, RxInv, TypeOK
  <2> QED BY <2>1, <2>2, KeepWindow DEF RecvBadPdu
<1>3. CASE Timer
  <2>1. CASE TReassemblyExpires /\ UNCHANGED <<rx_base, clears>>
    <3>1. /\ {rx_highest_status', rx_next_status_trigger'} \subseteq Sn
          /\ t_reassembly' \in BOOLEAN
          /\ WindowOrder' /\ TriggerInWindow' /\ MarkersAhead
      BY SMTT(30), <2>1, ExpiryKeepsWindow
    <3>2. TypeOK'
      BY ZenonT(60), <2>1, <3>1 DEF TReassemblyExpires, RxInv, TypeOK, rx_history
    <3> QED BY SMTT(30), <3>1, <3>2 DEF RxInv
  <2>2. CASE TStatusProhibitExpires /\ UNCHANGED <<rx_base, clears>>
    <3>1. status_triggered' \in BOOLEAN /\ t_status_prohibit' \in BOOLEAN
      BY ZenonT(60), <2>2 DEF TStatusProhibitExpires, RxInv, TypeOK
    <3> QED BY SMTT(30), <2>2, <3>1, KeepWindow DEF TStatusProhibitExpires
  <2> QED BY SMTT(30), <1>3, <2>1, <2>2 DEF Timer
<1>4. CASE Report
  <2>1. /\ UNCHANGED <<rx_state, rx_history, rx_base, clears>>
        /\ status_triggered' \in BOOLEAN /\ t_status_prohibit' \in BOOLEAN
    BY ZenonT(60), <1>4 DEF Report, GenerateStatus
  <2> QED BY <2>1, KeepWindow
<1>5. CASE Reestablish
  <2>1. 0 \in Sn /\ Modulus(0, 0) = 0
    BY SMTT(30), Window DEF Sn, Modulus
  <2>2. rx_base' \in Nat /\ clears' \in Nat /\ clears' # clears
    BY SMTT(30), <1>5, Window DEF Reestablish, RxInv, TypeOK
  <2>3. TypeOK'
    <3>1. delivered' \in [Sdu -> Nat]
      BY ZenonT(60), <1>5 DEF Reestablish, RxClear, NoDelivery, RxInv, TypeOK
    <3>2. {t_reassembly', status_triggered', t_status_prohibit', garbled'} \subseteq BOOLEAN
      BY ZenonT(60), <1>5 DEF Reestablish, RxClear, NoDelivery, RxInv, TypeOK
    <3> QED BY SMTT(30), <1>5, <2>1, <2>2, <3>1, <3>2 DEF Reestablish, RxClear, TypeOK
  <2>4. WindowOrder'
    BY SMTT(30), <1>5, <2>1, Window DEF Reestablish, RxClear, WindowOrder, Off
  <2>5. TriggerInWindow'
    BY SMTT(30), <1>5 DEF Reestablish, RxClear, TriggerInWindow
  <2> QED BY <2>2, <2>3, <2>4, <2>5 DEF RxInv
<1>6. CASE UNCHANGED vars
  BY ZenonT(60), <1>6, KeepWindow DEF vars, rx_vars, RxInv, TypeOK
<1> QED BY SMTT(30), <1>1, <1>2, <1>3, <1>4, <1>5, <1>6 DEF Next

-----------------------------------------------------------------------------
(* What is delivered                                                       *)

\* A segment of the list is a part of the SDU its SN stands for.
Held(s) ==
  /\ s.data \in Sdu /\ Dist(s.data) = Off(s.sn)
  /\ s.so + s.size <= SduSize[s.data]
  /\ s.is_last = (s.so + s.size = SduSize[s.data])

\* SDU d was passed by rx_next, or is marked as delivered ahead of it.
Gone(d) == Dist(d) < 0 \/ \E sn \in rx_delivered : Off(sn) = Dist(d)

\* The rest of the inductive invariant: rx_next counts SDUs, the list holds what
\* its SNs say, an SN is marked when all of its SDU is there, and the SDUs that
\* are gone, and no others, were handed over, each once and whole.
Accounted ==
  /\ rx_next = rx_count % SnModulus
  /\ \A s \in rx_list : Held(s)
  /\ \A sn \in rx_delivered : SduFull(rx_list, sn)
  /\ \A d \in Sdu : d >= rx_base => delivered[d] = (IF Gone(d) THEN 1 ELSE 0)
  /\ garbled = FALSE

\* The segments of a full SDU are all of its bytes (sdu_full), and what
\* reassemble_and_deliver makes of them is the SDU.
LEMMA FullIsWhole ==
  ASSUME NEW list, NEW x, NEW d \in Sdu, SduFull(list, x),
         \A p \in SegmentsOf(list, x) :
           /\ p.data = d /\ p.so \in Nat /\ p.size \in Nat \ {0}
           /\ p.so + p.size <= SduSize[d]
           /\ p.is_last = (p.so + p.size = SduSize[d])
  PROVE  /\ Received(list, x) = 0 .. (SduSize[d] - 1)
         /\ Reassembled(SegmentsOf(list, x)) = WholeSdu(d)
<1> DEFINE segs == SegmentsOf(list, x)
<1>1. SduSize[d] \in Nat \ {0}
  BY SMTT(30), SduSizeAssumption
<1>2. PICK l \in segs : l.is_last /\ (0 .. (l.so - 1)) \subseteq Received(list, x)
  BY ZenonT(60) DEF SduFull
<1>3. l.so \in Nat /\ l.size \in Nat /\ l.so + l.size = SduSize[d]
  BY ZenonT(60), <1>2
<1>4. \A b : b \in Received(list, x) <=> \E p \in segs : b \in Bytes(p)
  BY SMTT(30) DEF Received
<1> HIDE DEF segs
<1>5. \A b \in 0 .. (SduSize[d] - 1) : b \in Received(list, x)
  BY SMTT(30), <1>1, <1>2, <1>3, <1>4 DEF Bytes
<1>6. \A p \in segs : \A b \in Bytes(p) : b \in 0 .. (SduSize[d] - 1)
  BY <1>1 DEF Bytes, segs
<1>7. Received(list, x) = 0 .. (SduSize[d] - 1)
  BY ZenonT(60), <1>4, <1>5, <1>6
<1>8. \A p \in segs : p.data = d
  BY DEF segs
<1>9. Reassembled(segs) = WholeSdu(d)
  <2>1. ASSUME NEW e \in Reassembled(segs) PROVE e \in WholeSdu(d)
    <3>1. PICK p \in segs : e \in {<<p.data, b>> : b \in Bytes(p)}
      BY SMTT(30), <2>1 DEF Reassembled
    <3>2. PICK b \in Bytes(p) : e = <<p.data, b>>
      BY SMTT(30), <3>1
    <3> QED BY SMTT(30), <3>2, <1>6, <1>8 DEF WholeSdu
  <2>2. ASSUME NEW e \in WholeSdu(d) PROVE e \in Reassembled(segs)
    <3>1. PICK b \in 0 .. (SduSize[d] - 1) : e = <<d, b>>
      BY SMTT(30), <2>2 DEF WholeSdu
    <3>2. PICK p \in segs : b \in Bytes(p)
      BY ZenonT(60), <1>4, <1>5
    <3>3. e \in {<<p.data, c>> : c \in Bytes(p)}
      BY ZenonT(60), <3>1, <3>2, <1>8
    <3> QED BY ZenonT(60), <3>3 DEF Reassembled
  <2> QED BY ZenonT(60), <2>1, <2>2
<1> QED BY ZenonT(60), <1>7, <1>9 DEF segs

\* No two SDUs have the same bytes.
LEMMA WholeDiffers ==
  ASSUME NEW d \in Sdu, NEW e \in Sdu, WholeSdu(d) = WholeSdu(e)
  PROVE  d = e
<1>1. 0 \in 0 .. (SduSize[d] - 1)
  BY SMTT(30), SduSizeAssumption
<1>2. <<d, 0>> \in WholeSdu(e)
  BY SMTT(30), <1>1 DEF WholeSdu
<1> QED BY SMTT(30), <1>2 DEF WholeSdu

\* A segment of the peer's window that passes the window test belongs to an SDU
\* of the receive window: one that is up to a window behind rx_next fails it.
LEMMA InWindow ==
  ASSUME rx_next = rx_count % SnModulus, rx_count \in Nat, rx_base \in Nat,
         NEW d \in Sdu, InFlight(d),
         NEW sn, sn = (d - rx_base) % SnModulus, SnInRecvWindow(rx_next, sn)
  PROVE  sn \in Sn /\ Off(sn) = Dist(d) /\ Dist(d) \in 0 .. (WindowSize - 1)
<1>1. PICK c \in Nat : c = d - rx_base
  BY SMTT(30), ReceiverAssumption DEF InFlight
<1>2. rx_count <= c + WindowSize /\ c < rx_count + WindowSize
  BY SMTT(30), <1>1, ReceiverAssumption, Window DEF InFlight
<1>3. rx_count <= c + SnModulus /\ c < rx_count + SnModulus /\ rx_count # c + SnModulus
  BY SMTT(30), <1>1, <1>2, Window
<1>4. sn \in Sn /\ Off(sn) = IF rx_count <= c THEN c - rx_count
                                              ELSE c - rx_count + SnModulus
  BY SMTT(30), <1>1, <1>3, SnDistance DEF Off
<1>5. Off(sn) < WindowSize
  BY SMTT(30) DEF SnInRecvWindow, Off
<1>6. rx_count <= c /\ Dist(d) = c - rx_count
  BY SMTT(30), <1>1, <1>2, <1>4, <1>5, ReceiverAssumption, Window DEF Dist
<1> QED BY SMTT(30), <1>1, <1>4, <1>5, <1>6, Window

\* What is in the list stays full when a segment is added.
LEMMA FullStays ==
  ASSUME NEW list, NEW more, NEW x, SduFull(list, x),
         SegmentsOf(list, x) \subseteq SegmentsOf(more, x)
  PROVE  SduFull(more, x)
<1>1. Received(list, x) \subseteq Received(more, x)
  BY DEF Received
<1> QED BY <1>1 DEF SduFull

\* reception_actions hands over the SDU that the segment completes, and only that
\* one; rx_next then passes nothing that was not handed over.
LEMMA ReceptionAccounts ==
  ASSUME RxInv, Accounted, NEW d \in Sdu, InFlight(d),
         NEW s, s.data = d, s.sn = (d - rx_base) % SnModulus,
         s.so \in Nat, s.size \in Nat \ {0}, s.so + s.size <= SduSize[d],
         s.is_last = (s.so + s.size = SduSize[d]),
         ~Discarded(s), ReceptionActions(s), UNCHANGED rx_base
  PROVE  Accounted' /\ s.sn \notin rx_delivered /\ s \notin rx_list /\ Passes(s)
<1> DEFINE x    == s.sn
           list == rx_list \cup {s}
           full == SduFull(list, x)
           segs == SegmentsOf(list, x)
           j    == Off(rx_next')
<1>1. /\ rx_next \in Sn /\ rx_count \in Nat /\ rx_base \in Nat
      /\ rx_delivered \subseteq Sn /\ delivered \in [Sdu -> Nat]
      /\ \A p \in rx_list : p.sn \in Sn /\ p.so \in Nat /\ p.size \in Nat \ {0}
  BY ZenonT(60) DEF RxInv, TypeOK
<1>2. SnInRecvWindow(rx_next, x) /\ ~SegmentAlreadyReceived(s)
  BY SMTT(30) DEF Discarded
<1>3. x \in Sn /\ Off(x) = Dist(d) /\ Dist(d) \in 0 .. (WindowSize - 1)
  BY ZenonT(60), <1>1, <1>2, InWindow DEF Accounted
<1>4. rx_next' \in Sn /\ rx_delivered' \subseteq Sn /\ Passes(s)
  BY ZenonT(60), <1>2, <1>3, ReceptionKeepsWindow
<1>5. \A y \in Sn : Off(y) \in Sn
  BY SMTT(30), <1>1, ModulusType DEF Off
<1>6. j \in Nat /\ j <= WindowSize /\ rx_count' = rx_count + j
  BY <1>4, <1>5, Window DEF Passes, Sn
<1>7. \A p \in list : /\ Held(p) /\ p.sn \in Sn
                      /\ p.so \in Nat /\ p.size \in Nat \ {0}
  BY ZenonT(60), <1>1, <1>3 DEF Accounted, Held
<1>8. \A e \in Sdu : e \in Int /\ Dist(e) \in Int
  BY SMTT(30), <1>1, ReceiverAssumption DEF Dist
<1>9. \A p \in list : p.sn = x => p.data = d
  <2> SUFFICES ASSUME NEW p \in list, p.sn = x PROVE p.data = d
    OBVIOUS
  <2>1. p.data \in Sdu /\ Dist(p.data) = Dist(d)
    BY ZenonT(60), <1>3, <1>7 DEF Held
  <2> QED BY SMTT(30), <1>1, <1>8, <2>1 DEF Dist
<1>10. ASSUME NEW l, l \subseteq list, SduFull(l, x)
       PROVE  /\ Received(l, x) = 0 .. (SduSize[d] - 1)
              /\ Reassembled(SegmentsOf(l, x)) = WholeSdu(d)
  <2>1. \A p \in SegmentsOf(l, x) :
           /\ p.data = d /\ p.so \in Nat /\ p.size \in Nat \ {0}
           /\ p.so + p.size <= SduSize[d]
           /\ p.is_last = (p.so + p.size = SduSize[d])
    BY <1>7, <1>9, <1>10 DEF SegmentsOf, Held
  <2> QED BY SMTT(30), <1>10, <2>1, FullIsWhole
<1>11. x \notin rx_delivered
  <2> SUFFICES ASSUME x \in rx_delivered PROVE FALSE
    BY SMTT(30)
  <2>1. Received(rx_list, x) = 0 .. (SduSize[d] - 1)
    BY <1>10 DEF Accounted
  <2>2. Bytes(s) \subseteq 0 .. (SduSize[d] - 1)
    BY SMTT(30), SduSizeAssumption DEF Bytes
  <2> QED BY ZenonT(60), <1>2, <2>1, <2>2 DEF SegmentAlreadyReceived
<1>12. /\ \A e \in Sdu : delivered'[e] = IF full /\ e = d THEN delivered[e] + 1
                                                         ELSE delivered[e]
       /\ garbled' = FALSE
  <2>1. IF full THEN DeliverSdu(segs) ELSE NoDelivery
    BY ZenonT(60) DEF ReceptionActions
  <2>2. garbled = FALSE
    BY SMTT(30) DEF Accounted
  <2>3. CASE full
    <3>1. Reassembled(segs) = WholeSdu(d)
      BY SMTT(30), <1>10, <2>3
    <3>2. DeliverSdu(segs)
      BY SMTT(30), <2>1, <2>3
    <3> HIDE DEF segs, full
    <3>3. \A e \in Sdu : Reassembled(segs) = WholeSdu(e) <=> e = d
      BY SMTT(30), <3>1, WholeDiffers
    <3> QED BY ZenonT(60), <2>2, <2>3, <3>2, <3>3 DEF DeliverSdu
  <2>4. CASE ~full
    BY SMTT(30), <2>1, <2>2, <2>4 DEF NoDelivery
  <2> QED BY ZenonT(60), <2>3, <2>4
<1>13. rx_next' = rx_count' % SnModulus
  <2>1. PICK c \in Nat : c = rx_count + j
    BY SMTT(30), <1>1, <1>6
  <2>2. /\ c % SnModulus \in Sn
        /\ Modulus(rx_count % SnModulus, c % SnModulus) = c - rx_count
    BY SMTT(30), <1>1, <1>6, <2>1, SnDistance, Window
  <2>3. Off(c % SnModulus) = j
    BY SMTT(30), <1>1, <1>6, <2>1, <2>2 DEF Accounted, Off
  <2> QED BY SMTT(30), <1>1, <1>4, <1>6, <2>1, <2>2, <2>3, ModulusInjective DEF Off
<1>14. \A y \in Sn : j <= Off(y) => Modulus(rx_next', y) = Off(y) - j
  BY SMTT(30), <1>1, <1>4, ModulusShift DEF Off
<1>15. \A e : Dist(e)' = e - rx_base - (rx_count + j)
  BY SMTT(30), <1>6 DEF Dist
<1>16. \A p \in rx_list' : Held(p)'
  <2> SUFFICES ASSUME NEW p \in list, j <= Off(p.sn) PROVE Held(p)'
    BY SMTT(30), <1>4 DEF Passes
  <2>1. Held(p) /\ p.sn \in Sn
    BY SMTT(30), <1>7
  <2>2. Modulus(rx_next', p.sn) = Off(p.sn) - j
    BY SMTT(30), <1>14, <2>1
  <2>3. Dist(p.data)' = Dist(p.data) - j
    BY SMTT(30), <1>1, <1>6, <1>8, <1>15, <2>1 DEF Dist, Held
  <2> QED BY SMTT(30), <2>1, <2>2, <2>3 DEF Held, Off
<1>17. \A sn \in rx_delivered' : SduFull(rx_list', sn)
  <2> SUFFICES ASSUME NEW sn \in rx_delivered' PROVE SduFull(rx_list', sn)
    BY SMTT(30)
  <2>1. sn \in Done(s) /\ j <= Off(sn)
    BY SMTT(30), <1>4 DEF Passes
  <2>2. SegmentsOf(rx_list', sn) = SegmentsOf(list, sn)
    BY SMTT(30), <1>4, <2>1 DEF Passes, SegmentsOf
  <2>3. SduFull(list, sn)
    <3>1. CASE sn \in rx_delivered
      <4>1. SduFull(rx_list, sn)
        BY SMTT(30), <3>1 DEF Accounted
      <4>2. SegmentsOf(rx_list, sn) \subseteq SegmentsOf(list, sn)
        BY SMTT(30) DEF SegmentsOf
      <4> QED BY ZenonT(60), <4>1, <4>2, FullStays
    <3> QED BY SMTT(30), <2>1, <3>1 DEF Done
  <2> QED BY SMTT(30), <2>2, <2>3, FullStays
<1>18. \A sn \in Done(s) : sn \in Sn /\ (sn \in rx_delivered \/ (full /\ sn = x))
  BY SMTT(30), <1>1, <1>3 DEF Done
<1>19. \A sn \in rx_delivered : sn \in Done(s)
  BY DEF Done
<1>20. full => x \in Done(s)
  BY SMTT(30) DEF Done
<1>21. ASSUME NEW e \in Sdu, e >= rx_base
       PROVE  delivered'[e] = (IF Gone(e)' THEN 1 ELSE 0)
  <2>1. delivered[e] = IF Gone(e) THEN 1 ELSE 0
    BY SMTT(30), <1>21 DEF Accounted
  <2>2. Dist(e) = Dist(d) <=> e = d
    BY SMTT(30), <1>1, <1>8 DEF Dist
  <2>3. ~Gone(d)
    BY SMTT(30), <1>1, <1>3, <1>11, ModulusInjective DEF Gone, Off
  <2>4. Gone(e)' <=> (Gone(e) \/ (full /\ e = d))
    <3>1. Gone(e)' <=> \/ Dist(e) < j
                       \/ \E sn \in rx_delivered' : Off(sn) = Dist(e)
      <4>1. Dist(e)' = Dist(e) - j /\ Dist(e) \in Int
        BY SMTT(30), <1>1, <1>6, <1>8, <1>15 DEF Dist
      <4>2. \A sn \in rx_delivered' : Off(sn)' = Off(sn) - j /\ Off(sn) \in Int
        BY SMTT(30), <1>4, <1>5, <1>14, Window DEF Passes, Off, Sn
      <4> QED BY SMTT(30), <1>6, <4>1, <4>2 DEF Gone
    <3>2. CASE Dist(e) < 0
      BY SMTT(30), <1>6, <1>8, <3>1, <3>2 DEF Gone
    <3>3. CASE Dist(e) >= 0 /\ Dist(e) < j
      <4>1. PICK k \in Sn : k = Dist(e) /\ k \in 0 .. SnModulus
        BY SMTT(30), <1>6, <1>8, <3>3, Window DEF Sn
      <4>2. PICK y \in Sn : Off(y) = Dist(e)
        <5>1. SnAdd(rx_next, k) \in Sn
          BY SMTT(30), <1>1, <4>1, SnAddType
        <5>2. Off(SnAdd(rx_next, k)) = k
          BY SMTT(30), <1>1, ModulusSnAdd DEF Off
        <5> QED BY ZenonT(60), <4>1, <5>1, <5>2
      <4>3. y \in Done(s)
        BY SMTT(30), <1>4, <3>3, <4>2 DEF Passes
      <4> QED BY ZenonT(60), <1>3, <1>18, <2>2, <3>1, <3>3, <4>2, <4>3 DEF Gone
    <3>4. CASE Dist(e) >= j
      <4>1. \A sn \in Sn : Off(sn) = Dist(e) =>
              (sn \in rx_delivered' <=> sn \in Done(s))
        BY SMTT(30), <1>4, <3>4 DEF Passes
      <4>2. (\E sn \in rx_delivered' : Off(sn) = Dist(e))
              <=> (\E sn \in Done(s) : Off(sn) = Dist(e))
        BY SMTT(30), <1>4, <1>18, <4>1
      <4>3. (\E sn \in Done(s) : Off(sn) = Dist(e))
              <=> (\E sn \in rx_delivered : Off(sn) = Dist(e)) \/ (full /\ e = d)
        BY ZenonT(60), <1>3, <1>18, <1>19, <1>20, <2>2
      <4>4. ~(Dist(e) < j) /\ ~(Dist(e) < 0)
        BY SMTT(30), <1>6, <1>8, <3>4
      <4> QED BY ZenonT(60), <3>1, <4>2, <4>3, <4>4 DEF Gone
    <3> QED BY SMTT(30), <1>6, <1>8, <3>2, <3>3, <3>4
  <2> QED BY SMTT(30), <1>12, <2>1, <2>3, <2>4
<1>22. s \notin rx_list
  BY SMTT(30), <1>2 DEF SegmentAlreadyReceived, Received, SegmentsOf
<1>23. Accounted'
  BY SMTT(30), <1>12, <1>13, <1>16, <1>17, <1>21 DEF Accounted
<1> QED BY Zenon, <1>4, <1>11, <1>22, <1>23

\* A new entity has delivered nothing.
LEMMA InitAccounted == Init => Accounted
<1> SUFFICES ASSUME Init PROVE Accounted
  OBVIOUS
<1>1. /\ rx_next = 0 /\ rx_count = 0 /\ rx_base = 0 /\ garbled = FALSE
      /\ rx_list = {} /\ rx_delivered = {} /\ delivered = [d \in Sdu |-> 0]
  BY DEF Init, RxInit
<1>2. 0 = 0 % SnModulus
  BY Window
<1>3. \A d \in Sdu : ~Gone(d)
  BY SMTT(30), <1>1, ReceiverAssumption DEF Gone, Dist
<1> QED BY SMTT(30), <1>1, <1>2, <1>3 DEF Accounted

\* A step that leaves list, marks and rx_next alone delivers nothing.
LEMMA KeepAccounted ==
  ASSUME Accounted, UNCHANGED <<rx_next, rx_list, rx_delivered, rx_history, rx_base>>
  PROVE  Accounted'
<1>1. UNCHANGED <<rx_next, rx_list, rx_delivered, rx_count, delivered, garbled, rx_base>>
  BY SMTT(30) DEF rx_history
<1>2. \A d \in Sdu : Gone(d)' = Gone(d)
  BY ZenonT(60), <1>1 DEF Gone, Dist, Off
<1>3. \A s \in rx_list : Held(s)' = Held(s)
  BY SMTT(30), <1>1 DEF Held, Dist, Off
<1>4. \A d \in Sdu : d >= rx_base' => delivered'[d] = (IF Gone(d)' THEN 1 ELSE 0)
  BY SMTT(30), <1>1, <1>2 DEF Accounted
<1> QED BY SMTT(30), <1>1, <1>3, <1>4 DEF Accounted

\* One step of the receiver keeps the account of what was delivered.
LEMMA NextAccounted ==
  ASSUME RxInv, Accounted, [Next]_vars
  PROVE  Accounted'
<1>1. CASE Receive
  <2>1. PICK d \in Sdu, p \in BOOLEAN :
          /\ InFlight(d)
          /\ \E so \in 0 .. (SduSize[d] - 1) : \E size \in 1 .. (SduSize[d] - so) :
               RecvPdu(SegmentOf(d, so, size), p)
          /\ UNCHANGED <<rx_base, clears>>
    BY SMTT(30), <1>1 DEF Receive
  <2>2. PICK so \in 0 .. (SduSize[d] - 1) :
          \E size \in 1 .. (SduSize[d] - so) : RecvPdu(SegmentOf(d, so, size), p)
    BY SMTT(30), <2>1
  <2>3. PICK size \in 1 .. (SduSize[d] - so) : RecvPdu(SegmentOf(d, so, size), p)
    BY SMTT(30), <2>2
  <2> DEFINE s == SegmentOf(d, so, size)
  <2>4. /\ s.data = d /\ s.sn = (d - rx_base) % SnModulus
        /\ s.so \in Nat /\ s.size \in Nat \ {0} /\ s.so + s.size <= SduSize[d]
        /\ s.is_last = (s.so + s.size = SduSize[d])
    BY SMTT(30), SduSizeAssumption DEF SegmentOf
  <2> HIDE DEF s
  <2>5. RecvPdu(s, p)
    BY ZenonT(60), <2>3 DEF s
  <2>6. CASE Discarded(s)
    BY SMTT(30), <2>1, <2>5, <2>6, KeepAccounted DEF RecvPdu, rx_state
  <2>7. CASE ~Discarded(s)
    BY SMTT(30), <2>1, <2>4, <2>5, <2>7, ReceptionAccounts DEF RecvPdu
  <2> QED BY SMTT(30), <2>6, <2>7
<1>2. CASE ReceiveBad
  BY SMTT(30), <1>2, KeepAccounted DEF ReceiveBad, RecvBadPdu, rx_state
<1>3. CASE Timer
  BY SMTT(30), <1>3, KeepAccounted DEF Timer, TReassemblyExpires, TStatusProhibitExpires, rx_state
<1>4. CASE Report
  BY SMTT(30), <1>4, KeepAccounted DEF Report, GenerateStatus, rx_state
<1>5. CASE Reestablish
  <2>1. /\ rx_next' = 0 /\ rx_count' = 0 /\ rx_list' = {} /\ rx_delivered' = {}
        /\ rx_base' = rx_base + rx_count + WindowSize
        /\ UNCHANGED <<delivered, garbled>>
    BY <1>5 DEF Reestablish, RxClear, NoDelivery
  <2>2. 0 = 0 % SnModulus
    BY SMTT(30), Window
  <2>3. rx_base \in Nat /\ rx_count \in Nat /\ rx_next \in Sn /\ rx_next_highest \in Sn
    BY DEF RxInv, TypeOK
  <2>4. ASSUME NEW d \in Sdu, d >= rx_base'
        PROVE  delivered'[d] = (IF Gone(d)' THEN 1 ELSE 0)
    <3>1. d \in Nat /\ d >= rx_base /\ Dist(d) >= WindowSize
      BY SMTT(30), <2>1, <2>3, <2>4, ReceiverAssumption, Window DEF Dist
    <3>2. \A sn \in rx_delivered : Off(sn) < WindowSize
      <4>1. \A p \in rx_list : /\ p.sn \in Sn /\ Off(p.sn) < Off(rx_next_highest)
                               /\ Off(rx_next_highest) <= WindowSize
        BY DEF RxInv, TypeOK, WindowOrder
      <4>2. \A y \in Sn : Off(y) \in Sn
        BY SMTT(30), <2>3, ModulusType DEF Off
      <4>3. \A p \in rx_list : Off(p.sn) < WindowSize
        BY SMTT(30), <2>3, <4>1, <4>2, Window DEF Sn
      <4> QED BY SMTT(30), <4>3 DEF RxInv, WindowOrder
    <3>3. ~Gone(d)
      BY SMTT(30), <2>3, <3>1, <3>2, Window DEF Gone, Dist
    <3>4. ~Gone(d)'
      BY SMTT(30), <2>1, <2>3, <2>4, <3>1, Window DEF Gone, Dist
    <3> QED BY SMTT(30), <2>1, <3>1, <3>3, <3>4 DEF Accounted
  <2> QED BY ZenonT(60), <2>1, <2>2, <2>4 DEF Accounted
<1>6. CASE UNCHANGED vars
  BY SMTT(30), <1>6, KeepAccounted DEF vars, rx_vars, rx_state
<1> QED BY SMTT(30), <1>1, <1>2, <1>3, <1>4, <1>5, <1>6 DEF Next

\* The account says that nothing is skipped.
LEMMA AccountedIs ==
  ASSUME RxInv, Accounted
  PROVE  NothingSkipped
<1> SUFFICES ASSUME NEW d \in Sdu, d >= rx_base
             PROVE  /\ Dist(d) < 0 => delivered[d] = 1
                    /\ Dist(d) \in 0 .. (WindowSize - 1) =>
                         (delivered[d] = 1 <=> SnAdd(rx_next, Dist(d)) \in rx_delivered)
  BY DEF NothingSkipped
<1>1. delivered[d] = IF Gone(d) THEN 1 ELSE 0
  BY DEF Accounted
<1>2. Dist(d) < 0 => delivered[d] = 1
  BY SMTT(30), <1>1 DEF Gone
<1>3. ASSUME Dist(d) \in 0 .. (WindowSize - 1)
      PROVE  delivered[d] = 1 <=> SnAdd(rx_next, Dist(d)) \in rx_delivered
  <2>1. PICK k \in Sn : k = Dist(d) /\ k \in 0 .. SnModulus /\ ~(k < 0)
    BY SMTT(30), <1>3, Window DEF Sn
  <2>2. rx_next \in Sn /\ rx_delivered \subseteq Sn
    BY DEF RxInv, TypeOK
  <2>3. SnAdd(rx_next, k) \in Sn
    BY SMTT(30), <2>1, <2>2, SnAddType
  <2>4. Off(SnAdd(rx_next, k)) = k
    BY SMTT(30), <2>2, ModulusSnAdd DEF Off
  <2>5. \A sn \in rx_delivered : Off(sn) = k => sn = SnAdd(rx_next, k)
    BY SMTT(30), <2>2, <2>3, <2>4, ModulusInjective DEF Off
  <2>6. Gone(d) <=> SnAdd(rx_next, k) \in rx_delivered
    BY SMTT(30), <2>1, <2>4, <2>5 DEF Gone
  <2> QED BY SMTT(30), <1>1, <2>1, <2>6
<1> QED BY SMTT(30), <1>2, <1>3

-----------------------------------------------------------------------------
(* Status reports                                                          *)

\* The segments with the SN of an SDU are parts of that SDU.
LEMMA PartsOf ==
  ASSUME RxInv, Accounted, NEW d \in Sdu, NEW sn \in Sn, Off(sn) = Dist(d)
  PROVE  /\ \A p \in SegmentsOf(rx_list, sn) :
              /\ p.data = d /\ p.so \in Nat /\ p.size \in Nat \ {0}
              /\ p.so + p.size <= SduSize[d]
              /\ p.is_last = (p.so + p.size = SduSize[d])
         /\ Received(rx_list, sn) \subseteq 0 .. (SduSize[d] - 1)
<1>1. rx_base \in Nat /\ rx_count \in Nat /\ SduSize[d] \in Nat \ {0}
  BY SMTT(30), SduSizeAssumption DEF RxInv, TypeOK
<1>2. ASSUME NEW p \in SegmentsOf(rx_list, sn)
      PROVE  /\ p.data = d /\ p.so \in Nat /\ p.size \in Nat \ {0}
             /\ p.so + p.size <= SduSize[d]
             /\ p.is_last = (p.so + p.size = SduSize[d])
  <2>1. p \in rx_list /\ p.sn = sn
    BY SMTT(30) DEF SegmentsOf
  <2>2. p.so \in Nat /\ p.size \in Nat \ {0} /\ Held(p)
    BY SMTT(30), <2>1 DEF RxInv, TypeOK, Accounted
  <2>3. p.data = d
    <3>1. p.data \in Sdu /\ Dist(p.data) = Dist(d)
      BY SMTT(30), <2>1, <2>2 DEF Held
    <3>2. \A e \in Sdu : e \in Int
      BY ReceiverAssumption
    <3>3. p.data \in Int /\ d \in Int
      BY SMTT(30), <3>1, <3>2
    <3>4. p.data - rx_base - rx_count = d - rx_base - rx_count
      BY SMTT(30), <3>1 DEF Dist
    <3> QED BY SMTT(30), <1>1, <3>3, <3>4
  <2> QED BY SMTT(30), <2>2, <2>3 DEF Held
<1>3. ASSUME NEW b \in Received(rx_list, sn) PROVE b \in 0 .. (SduSize[d] - 1)
  <2>1. PICK p \in SegmentsOf(rx_list, sn) : b \in Bytes(p)
    BY SMTT(30) DEF Received
  <2> QED BY SMTT(30), <1>1, <1>2, <2>1 DEF Bytes
<1> QED BY SMTT(30), <1>2, <1>3

\* The last byte that was received of an SDU
LEMMA TopIs ==
  ASSUME RxInv, Accounted, NEW sn \in Sn, Received(rx_list, sn) # {}
  PROVE  LET top == Max(Received(rx_list, sn))
         IN  top \in Received(rx_list, sn) /\ top \in Nat
             /\ \A b \in Received(rx_list, sn) : b \in Nat /\ b <= top
<1> DEFINE have == Received(rx_list, sn)
<1>1. PICK p \in SegmentsOf(rx_list, sn) : TRUE
  BY SMTT(30) DEF Received
<1>2. p.data \in Sdu /\ Off(sn) = Dist(p.data)
  BY SMTT(30), <1>1 DEF SegmentsOf, Accounted, Held
<1>3. PICK n \in Nat : have \subseteq 0 .. n
  <2>1. SduSize[p.data] - 1 \in Nat
    BY <1>2, SduSizeAssumption
  <2> QED BY SMTT(30), <1>2, <2>1, PartsOf
<1> DEFINE U == {m \in Nat : n - m \in have}
<1>4. PICK x \in have : TRUE
  OBVIOUS
<1> HIDE DEF have
<1>5. n - x \in U /\ U \in SUBSET Nat
  BY <1>3, <1>4
<1> HIDE DEF U
<1>6. PICK m \in U : \A j \in U : m <= j
  BY <1>5, LeastNat
<1>7. n - m \in have /\ m \in Nat
  BY <1>6 DEF U
<1>8. \A b \in have : b \in Nat /\ b <= n - m
  <2> SUFFICES ASSUME NEW b \in have PROVE b \in Nat /\ b <= n - m
    OBVIOUS
  <2>1. b \in Nat /\ n - b \in Nat
    BY <1>3
  <2>2. n - b \in U
    BY <2>1 DEF U
  <2> QED BY SMTT(30), <1>6, <1>7, <2>1, <2>2
<1>9. \E k \in have : \A b \in have : k >= b
  BY <1>7, <1>8
<1>10. Max(have) \in have /\ \A b \in have : Max(have) >= b
  BY SMTT(30), <1>9 DEF Max
<1> QED BY <1>8, <1>10 DEF have

\* Every byte that was not received lies in a gap that next_missing finds.
LEMMA GapOfByte ==
  ASSUME RxInv, Accounted, NEW d \in Sdu, NEW sn \in Sn, Off(sn) = Dist(d),
         NEW b \in 0 .. (SduSize[d] - 1), b \notin Received(rx_list, sn)
  PROVE  \E n \in Gaps(sn) : /\ n.sn = sn /\ n.so_start <= b
                             /\ (n.so_end = ToEnd \/ b <= n.so_end)
<1> DEFINE have == Received(rx_list, sn)
           top  == IF have = {} THEN -1 ELSE Max(have)
           tail == \E s \in SegmentsOf(rx_list, sn) : s.is_last
           gap(g) == /\ g[1] <= g[2] /\ (g[1] .. g[2]) \cap have = {}
                     /\ (g[1] = 0 \/ g[1] - 1 \in have)
                     /\ g[2] + 1 \in have
<1>1. SduSize[d] \in Nat \ {0} /\ b \in Nat
  BY SMTT(30), SduSizeAssumption
<1>2. /\ top \in Int /\ \A c \in have : c \in Nat /\ c <= top
      /\ (have # {} => top \in have)
  BY SMTT(30), TopIs
<1>3. \A g \in (0 .. top) \X (0 .. top) : gap(g) => Nack(sn, g[1], g[2]) \in Gaps(sn)
  BY ZenonT(60) DEF Gaps
<1>4. ~tail => Nack(sn, top + 1, ToEnd) \in Gaps(sn)
  BY SMTT(30) DEF Gaps, TailGap
<1>5. CASE b > top
  <2>1. ~tail
    <3> SUFFICES ASSUME NEW s \in SegmentsOf(rx_list, sn), s.is_last PROVE FALSE
      BY SMTT(30)
    <3>1. s.so \in Nat /\ s.size \in Nat \ {0} /\ s.so + s.size = SduSize[d]
      BY ZenonT(60), PartsOf
    <3>2. SduSize[d] - 1 \in Bytes(s)
      BY SMTT(30), <1>1, <3>1 DEF Bytes
    <3>3. SduSize[d] - 1 \in have
      BY SMTT(30), <3>2 DEF Received
    <3> QED BY SMTT(30), <1>1, <1>2, <1>5, <3>3
  <2>2. Nack(sn, top + 1, ToEnd) \in Gaps(sn)
    BY SMTT(30), <1>4, <2>1
  <2> HIDE DEF top
  <2>3. top + 1 <= b
    BY SMTT(30), <1>1, <1>2, <1>5
  <2> QED BY ZenonT(60), <2>2, <2>3 DEF Nack
<1>6. CASE b <= top
  <2> HIDE DEF have, top, tail
  <2>1. b < top /\ top \in have
    <3>1. have # {}
      BY SMTT(30), <1>1, <1>6 DEF top
    <3>2. top \in have
      BY SMTT(30), <1>2, <3>1
    <3> QED BY SMTT(30), <1>1, <1>2, <1>6, <3>2 DEF have
  <2> DEFINE L == {k \in 0 .. b : (k .. b) \cap have = {}}
             H == {k \in have : k > b}
  <2>2. L \in SUBSET Nat /\ b \in L
    BY SMTT(30), <1>1 DEF have
  <2>3. H \in SUBSET Nat /\ top \in H
    BY ZenonT(60), <1>2, <2>1
  <2>4. PICK f \in L : \A k \in L : f <= k
    BY ZenonT(60), <2>2, LeastNat
  <2>5. PICK h \in H : \A k \in H : h <= k
    BY ZenonT(60), <2>3, LeastNat
  <2>6. /\ f \in 0 .. b /\ (f .. b) \cap have = {}
        /\ h \in have /\ h > b /\ h \in Nat /\ h <= top
    BY SMTT(30), <1>2, <2>4, <2>5
  <2>7. f = 0 \/ f - 1 \in have
    <3> SUFFICES ASSUME f # 0, f - 1 \notin have PROVE FALSE
      BY SMTT(30)
    <3>1. f - 1 \in 0 .. b
      BY SMTT(30), <1>1, <2>6
    <3>2. ((f - 1) .. b) \cap have = {}
      BY SMTT(30), <1>1, <2>6
    <3> QED BY SMTT(30), <2>4, <2>6, <3>1, <3>2
  <2>8. (f .. (h - 1)) \cap have = {}
    <3> SUFFICES ASSUME NEW c \in f .. (h - 1), c \in have PROVE FALSE
      BY SMTT(30)
    <3>1. CASE c <= b
      BY SMTT(30), <1>1, <2>6, <3>1
    <3>2. CASE c > b
      BY SMTT(30), <2>5, <2>6, <3>2
    <3> QED BY SMTT(30), <1>1, <2>6, <3>1, <3>2
  <2> DEFINE g == <<f, h - 1>>
  <2>9. g \in (0 .. top) \X (0 .. top) /\ g[1] = f /\ g[2] = h - 1
    BY SMTT(30), <1>1, <1>2, <2>1, <2>6
  <2>10. f <= h - 1 /\ h - 1 + 1 = h /\ b <= h - 1 /\ f <= b
    BY SMTT(30), <1>1, <2>6
  <2>11. gap(g)
    BY SMTT(30), <2>6, <2>7, <2>8, <2>9, <2>10
  <2>12. Nack(sn, f, h - 1) \in Gaps(sn)
    BY ZenonT(60), <1>3, <2>9, <2>11
  <2> QED BY SMTT(30), <2>10, <2>12 DEF Nack
<1> QED BY SMTT(30), <1>1, <1>2, <1>5, <1>6

\* The entries of a report: NACKs of SDUs below rx_highest_status.
LEMMA MissingIs ==
  ASSUME RxInv, Accounted, NEW a \in Missing
  PROVE  /\ a.sn \in Sn /\ Off(a.sn) < Off(rx_highest_status)
         /\ a.so_start \in Int
         /\ a = Nack(a.sn, a.so_start, a.so_end)
<1>1. PICK sn \in Sn : Off(sn) < Off(rx_highest_status) /\ a \in Gaps(sn)
  BY SMTT(30) DEF Missing, Off
<1> DEFINE have == Received(rx_list, sn)
           top  == IF have = {} THEN -1 ELSE Max(have)
<1>2. top \in Int
  BY SMTT(30), TopIs
<1> HIDE DEF top
<1>3. \/ \E g \in (0 .. top) \X (0 .. top) : a = Nack(sn, g[1], g[2])
      \/ a = Nack(sn, top + 1, ToEnd)
  BY ZenonT(60), <1>1 DEF Gaps, TailGap, top
<1>4. \E from \in Int : \E to : a = Nack(sn, from, to)
  BY SMTT(30), <1>2, <1>3
<1> QED BY SMTT(30), <1>1, <1>4 DEF Nack

\* A report that is not empty ends with an entry a: it holds all entries that
\* are not after a, and its last one starts where a does.
LEMMA FittingIs ==
  ASSUME RxInv, Accounted, NEW k \in Fitting, k # {}
  PROVE  /\ LastOf(k) \in k /\ k \subseteq Missing
         /\ \A b \in Missing \ k :
              \/ Off(LastOf(k).sn) < Off(b.sn)
              \/ LastOf(k).sn = b.sn /\ LastOf(k).so_start < b.so_start
<1>1. PICK a \in Missing : k = {b \in Missing : ~NackBefore(rx_next, a, b)}
  BY SMTT(30) DEF Fitting
<1>2. rx_next \in Sn /\ \A y \in Sn : Off(y) \in Int
  BY SMTT(30), ModulusType, Window DEF RxInv, TypeOK, Off, Sn
<1>3. \A b \in Missing : b.sn \in Sn /\ Off(b.sn) \in Int /\ b.so_start \in Int
  BY SMTT(30), <1>2, MissingIs
<1>4. \A b, c : NackBefore(rx_next, b, c) <=>
                  \/ Off(b.sn) - Off(c.sn) < 0
                  \/ b.sn = c.sn /\ b.so_start < c.so_start
  BY SMTT(30) DEF NackBefore, SnCompare, Off
<1>5. a \in k /\ k \subseteq Missing
  BY SMTT(30), <1>1, <1>3, <1>4
<1> DEFINE z == LastOf(k)
<1>6. z \in k /\ \A b \in k : ~NackBefore(rx_next, z, b)
  BY SMTT(30), <1>1, <1>5 DEF LastOf
<1> HIDE DEF z
<1>7. ~NackBefore(rx_next, a, z) /\ ~NackBefore(rx_next, z, a) /\ z \in Missing
  BY SMTT(30), <1>1, <1>5, <1>6
<1>8. Off(z.sn) = Off(a.sn)
  BY SMTT(30), <1>3, <1>4, <1>7
<1>9. z.sn = a.sn
  BY SMTT(30), <1>2, <1>3, <1>7, <1>8, ModulusInjective DEF Off
<1>10. z.so_start = a.so_start
  BY SMTT(30), <1>3, <1>4, <1>7, <1>9
<1>11. ASSUME NEW b \in Missing \ k
       PROVE  Off(z.sn) < Off(b.sn) \/ (z.sn = b.sn /\ z.so_start < b.so_start)
  BY SMTT(30), <1>1, <1>3, <1>4, <1>8, <1>9, <1>10
<1> QED BY SMTT(30), <1>5, <1>6, <1>11 DEF z

\* No report acknowledges a byte that was not received.
LEMMA HonestReport ==
  ASSUME RxInv, Accounted
  PROVE  StatusHonest
<1> SUFFICES ASSUME NEW k \in Fitting, NEW d \in Sdu,
                    Dist(d) \in 0 .. (Off(StatusOf(k).ack_sn) - 1),
                    NEW b \in 0 .. (SduSize[d] - 1),
                    b \notin Received(rx_list, SnAdd(rx_next, Dist(d)))
             PROVE  \E n \in StatusOf(k).nacks :
                      /\ n.sn = SnAdd(rx_next, Dist(d)) /\ n.so_start <= b
                      /\ (n.so_end = ToEnd \/ b <= n.so_end)
  BY ZenonT(60) DEF StatusHonest
<1> DEFINE last == LastOf(k)
           sn   == SnAdd(rx_next, Dist(d))
<1>1. /\ rx_next \in Sn /\ rx_next_highest \in Sn /\ rx_highest_status \in Sn
      /\ Off(rx_highest_status) <= Off(rx_next_highest)
      /\ Off(rx_next_highest) <= WindowSize
  BY ZenonT(60) DEF RxInv, TypeOK, WindowOrder
<1>2. \A y \in Sn : Off(y) \in Sn
  BY SMTT(30), <1>1, ModulusType DEF Off
<1>3. k # {}
  <2> SUFFICES ASSUME k = {} PROVE FALSE
    OBVIOUS
  <2>1. StatusOf(k).ack_sn = rx_next
    BY SMTT(30) DEF StatusOf
  <2>2. Off(rx_next) = 0
    BY SMTT(30), <1>1, ModulusZero DEF Off
  <2> QED BY SMTT(30), <2>1, <2>2
<1>4. /\ last \in k /\ k \subseteq Missing
      /\ \A c \in Missing \ k :
           \/ Off(last.sn) < Off(c.sn)
           \/ last.sn = c.sn /\ last.so_start < c.so_start
  BY ZenonT(60), <1>3, FittingIs
<1>5. /\ last.sn \in Sn /\ Off(last.sn) < Off(rx_highest_status)
      /\ last.so_start \in Int /\ last = Nack(last.sn, last.so_start, last.so_end)
  BY ZenonT(60), <1>4, MissingIs
<1>6. /\ StatusOf(k).ack_sn = SnAdd(last.sn, 1)
      /\ StatusOf(k).nacks = IF k = Missing THEN k
                             ELSE (k \ {last}) \cup {[last EXCEPT !.so_end = ToEnd]}
  BY SMTT(30), <1>3 DEF StatusOf
<1> HIDE DEF last
<1>7. Off(last.sn) \in Nat /\ Off(last.sn) < WindowSize
  BY SMTT(30), <1>1, <1>2, <1>5, Window DEF Sn
<1>8. Off(SnAdd(last.sn, 1)) = Off(last.sn) + 1
  <2>1. 1 \in Sn /\ Off(last.sn) + 1 < SnModulus
    BY SMTT(30), <1>7, Window DEF Sn
  <2> QED BY SMTT(30), <1>1, <1>5, <2>1, ModulusAdvance DEF Off
<1>9. Dist(d) \in Int /\ 0 <= Dist(d) /\ Dist(d) <= Off(last.sn)
  BY SMTT(30), <1>6, <1>7, <1>8
<1>10. sn \in Sn /\ Off(sn) = Dist(d)
  <2>1. PICK i \in Sn : i = Dist(d) /\ i \in 0 .. SnModulus
    BY SMTT(30), <1>7, <1>9, Window DEF Sn
  <2>2. SnAdd(rx_next, i) \in Sn
    BY SMTT(30), <1>1, <2>1, SnAddType
  <2>3. Off(SnAdd(rx_next, i)) = i
    BY SMTT(30), <1>1, ModulusSnAdd DEF Off
  <2> QED BY SMTT(30), <2>1, <2>2, <2>3
<1> HIDE DEF sn
<1>11. b \notin Received(rx_list, sn)
  BY SMTT(30) DEF sn
<1>12. PICK n \in Gaps(sn) : /\ n.sn = sn /\ n.so_start <= b
                             /\ (n.so_end = ToEnd \/ b <= n.so_end)
  BY ZenonT(60), <1>10, <1>11, GapOfByte
<1>13. n \in Missing
  <2>1. rx_list # {}
    BY ZenonT(60), <1>4 DEF Missing
  <2>2. Off(sn) < Off(rx_highest_status)
    BY SMTT(30), <1>1, <1>2, <1>5, <1>7, <1>9, <1>10, Window DEF Sn
  <2> QED BY SMTT(30), <1>10, <2>1, <2>2 DEF Missing, Off
<1>14. n.so_start \in Int /\ b \in Int
  BY SMTT(30), <1>13, MissingIs
<1> DEFINE ext == [last EXCEPT !.so_end = ToEnd]
<1>15. ext.sn = last.sn /\ ext.so_start = last.so_start /\ ext.so_end = ToEnd
  BY SMTT(30), <1>5 DEF Nack
<1> HIDE DEF ext
<1>16. StatusOf(k).nacks = IF k = Missing THEN k ELSE (k \ {last}) \cup {ext}
  BY SMTT(30), <1>6 DEF ext
<1>17. CASE n \in k
  <2>1. CASE k = Missing \/ n # last
    BY ZenonT(60), <1>12, <1>16, <1>17, <2>1 DEF sn
  <2>2. CASE k # Missing /\ n = last
    BY ZenonT(60), <1>12, <1>15, <1>16, <2>2 DEF sn
  <2> QED BY ZenonT(60), <2>1, <2>2
<1>18. CASE n \notin k
  <2>1. last.sn = n.sn /\ last.so_start < n.so_start
    BY SMTT(30), <1>4, <1>7, <1>9, <1>10, <1>12, <1>13, <1>18
  <2>2. last.so_start <= b
    BY SMTT(30), <1>5, <1>12, <1>14, <2>1
  <2>3. ext \in StatusOf(k).nacks
    BY ZenonT(60), <1>13, <1>16, <1>18
  <2> QED BY ZenonT(60), <1>12, <1>15, <2>1, <2>2, <2>3 DEF sn
<1> QED BY ZenonT(60), <1>17, <1>18

-----------------------------------------------------------------------------
(* The size of the buffer                                                  *)

\* The sizes of the list have a sum, and rx_size is that of what is not
\* delivered.
Sized == RxSizeExact /\ IsFiniteSet(Units([p \in rx_list |-> p.size]))

\* One segment more
LEMMA SizeAdd ==
  ASSUME NEW S, IsFiniteSet(Units([p \in S |-> p.size])),
         NEW s, s \notin S, s.size \in Nat
  PROVE  /\ IsFiniteSet(Units([p \in S \cup {s} |-> p.size]))
         /\ SizeOf(S \cup {s}) = SizeOf(S) + s.size
<1> DEFINE f == [p \in S \cup {s} |-> p.size]
           g == [p \in S |-> p.size]
           h == [p \in {s} |-> p.size]
<1>1. DOMAIN h = {s} /\ h[s] \in Nat /\ h[s] = s.size
  BY SMTT(30)
<1>2. Combines(f, g, h) /\ IsFiniteSet(Units(g))
  BY DEF Combines
<1> HIDE DEF f, g, h
<1>3. IsFiniteSet(Units(h)) /\ Total(h) = h[s]
  BY Zenon, <1>1, TotalOne
<1>4. IsFiniteSet(Units(f)) /\ Total(f) = Total(g) + Total(h)
  BY SMTT(30), <1>2, <1>3, TotalJoin
<1> QED BY Zenon, <1>1, <1>3, <1>4 DEF SizeOf, f, g

\* Some segments fewer
LEMMA SizeSplit ==
  ASSUME NEW S, IsFiniteSet(Units([p \in S |-> p.size])), NEW T \in SUBSET S
  PROVE  /\ IsFiniteSet(Units([p \in T |-> p.size]))
         /\ SizeOf(S) = SizeOf(T) + SizeOf(S \ T)
         /\ SizeOf(T) \in Nat /\ SizeOf(S \ T) \in Nat
<1> DEFINE f == [p \in S |-> p.size]
           g == [p \in T |-> p.size]
           h == [p \in S \ T |-> p.size]
<1>1. Combines(f, g, h) /\ IsFiniteSet(Units(f))
  BY SMTT(30) DEF Combines
<1> HIDE DEF f, g, h
<1>2. /\ IsFiniteSet(Units(g)) /\ Total(f) = Total(g) + Total(h)
      /\ Total(g) \in Nat /\ Total(h) \in Nat
  BY SMTT(30), <1>1, TotalSplit
<1> QED BY Zenon, <1>2 DEF SizeOf, f, g, h

\* reception_actions counts the segment in, and the SDU it completes out; what
\* rx_next passes was counted out when it was delivered.
LEMMA ReceptionSized ==
  ASSUME RxInv, Accounted, Sized, NEW d \in Sdu, InFlight(d),
         NEW s, s.data = d, s.sn = (d - rx_base) % SnModulus,
         s.so \in Nat, s.size \in Nat \ {0}, s.so + s.size <= SduSize[d],
         s.is_last = (s.so + s.size = SduSize[d]),
         ~Discarded(s), ReceptionActions(s), UNCHANGED rx_base
  PROVE  Sized'
<1> DEFINE x    == s.sn
           list == rx_list \cup {s}
           full == SduFull(list, x)
           segs == SegmentsOf(list, x)
           held == {p \in rx_list : p.sn \notin rx_delivered}
           left == {p \in list : p.sn \notin Done(s)}
<1>1. x \notin rx_delivered /\ s \notin rx_list /\ Passes(s)
  BY ZenonT(60), ReceptionAccounts
<1>2. /\ ~(rx_size + s.size > RxMaxSize) /\ rx_size = SizeOf(held)
      /\ rx_size' = rx_size + s.size - (IF full THEN SizeOf(segs) ELSE 0)
  <2>1. ~(rx_size + s.size > RxMaxSize) /\ rx_size = SizeOf(held)
    BY Zenon DEF Discarded, Sized, RxSizeExact
  <2>2. rx_size' = rx_size + s.size - (IF full THEN SizeOf(segs) ELSE 0)
    BY Zenon DEF ReceptionActions, Freed
  <2> QED BY Zenon, <2>1, <2>2
<1>3. {p \in rx_list' : p.sn \notin rx_delivered'} = left
  <2>1. \A p \in list : p.sn \in Sn
    <3>1. \A p \in rx_list : p.sn \in Sn
      BY ZenonT(60) DEF RxInv, TypeOK
    <3>2. s.sn \in Sn
      BY SMTT(30), Window, ReceiverAssumption DEF RxInv, TypeOK, Sn
    <3> QED BY Zenon, <3>1, <3>2
  <2>2. Off(rx_next') \in Int /\ \A y \in Sn : Off(y) \in Int
    <3>1. rx_next \in Sn /\ rx_next' \in Sn
      BY ZenonT(60), <2>1, ReceptionKeepsWindow DEF RxInv, TypeOK, Discarded
    <3>2. \A y \in Sn : Modulus(rx_next, y) \in Sn
      BY Zenon, <3>1, ModulusType
    <3>3. \A y \in Sn : y \in Int
      BY SMTT(30), Window DEF Sn
    <3> QED BY Zenon, <3>1, <3>2, <3>3 DEF Off
  <2>3. \A p \in list : Off(p.sn) < Off(rx_next') \/ Off(rx_next') <= Off(p.sn)
    BY SMTT(30), <2>1, <2>2
  <2>4. /\ \A y \in Sn : Off(y) < Off(rx_next') => y \in Done(s)
        /\ rx_delivered' = {y \in Done(s) : Off(rx_next') <= Off(y)}
        /\ rx_list' = {p \in list : Off(rx_next') <= Off(p.sn)}
    BY Zenon, <1>1 DEF Passes
  <2> QED BY Zenon, <2>1, <2>3, <2>4
<1>4. /\ full => left = (held \cup {s}) \ segs
      /\ ~full => left = held \cup {s}
  BY ZenonT(60), <1>1 DEF Done, SegmentsOf
<1>5. segs \in SUBSET (held \cup {s})
  BY SMTT(30), <1>1 DEF SegmentsOf
<1>6. left \in SUBSET list /\ rx_list' \in SUBSET list /\ held \in SUBSET rx_list
  BY ZenonT(60), <1>1 DEF Passes
<1> HIDE DEF x, list, full, segs, held, left
<1>7. IsFiniteSet(Units([p \in list |-> p.size])) /\ IsFiniteSet(Units([p \in held |-> p.size]))
  <2>1. IsFiniteSet(Units([p \in rx_list |-> p.size]))
    BY Zenon DEF Sized
  <2>2. s.size \in Nat
    OBVIOUS
  <2>3. IsFiniteSet(Units([p \in rx_list \cup {s} |-> p.size]))
    BY Zenon, <1>1, <2>1, <2>2, SizeAdd
  <2> QED BY Zenon, <1>6, <2>1, <2>3, SizeSplit DEF list
<1>8. IsFiniteSet(Units([p \in rx_list' |-> p.size]))
  BY Zenon, <1>6, <1>7, SizeSplit
<1>9. /\ IsFiniteSet(Units([p \in held \cup {s} |-> p.size]))
      /\ SizeOf(held \cup {s}) = SizeOf(held) + s.size
  <2>1. s \notin held /\ s.size \in Nat
    BY SMTT(30), <1>1, <1>6
  <2> QED BY Zenon, <1>7, <2>1, SizeAdd
<1>10. SizeOf(held) \in Nat /\ SizeOf(left) \in Nat
  BY Zenon, <1>6, <1>7, SizeSplit
<1>11. rx_size' = SizeOf(left) /\ rx_size' <= RxMaxSize
  <2>1. CASE full
    <3>1. left = (held \cup {s}) \ segs
      BY Zenon, <1>4, <2>1
    <3>2. /\ SizeOf(held \cup {s}) = SizeOf(segs) + SizeOf((held \cup {s}) \ segs)
          /\ SizeOf(segs) \in Nat
      BY Zenon, <1>5, <1>9, SizeSplit
    <3> QED BY SMTT(30), <1>2, <1>9, <1>10, <2>1, <3>1, <3>2, RxAssumption
  <2>2. CASE ~full
    <3>1. left = held \cup {s}
      BY Zenon, <1>4, <2>2
    <3>2. SizeOf(left) = rx_size + s.size
      BY Zenon, <1>2, <1>9, <3>1
    <3> QED BY SMTT(30), <1>2, <1>10, <2>2, <3>2, RxAssumption
  <2> QED BY ZenonT(60), <2>1, <2>2
<1>12. RxSizeExact'
  <2>1. RxSizeExact' <=> /\ rx_size' = SizeOf({p \in rx_list' : p.sn \notin rx_delivered'})
                         /\ rx_size' <= RxMaxSize
    BY SMTT(30) DEF RxSizeExact, SizeOf, Total, Units
  <2> QED BY ZenonT(60), <1>3, <1>11, <2>1
<1> QED BY Zenon, <1>8, <1>12 DEF Sized, Units

\* A step that leaves the list, its marks and rx_size alone
LEMMA KeepSized ==
  ASSUME Sized, UNCHANGED <<rx_list, rx_delivered, rx_size>>
  PROVE  Sized'
BY DEF Sized, RxSizeExact, SizeOf, Total, Units

\* An empty list
LEMMA EmptySized ==
  ASSUME NEW S, S = {}
  PROVE  SizeOf(S) = 0 /\ IsFiniteSet(Units([p \in S |-> p.size]))
<1> DEFINE f == [p \in S |-> p.size]
<1>1. DOMAIN f = {}
  OBVIOUS
<1> HIDE DEF f
<1>2. IsFiniteSet(Units(f)) /\ Total(f) = 0
  BY <1>1, TotalEmpty
<1> QED BY <1>2 DEF SizeOf, f

\* One step of the receiver keeps the size of its buffer.
LEMMA NextSized ==
  ASSUME RxInv, Accounted, Sized, [Next]_vars
  PROVE  Sized'
<1>1. CASE Receive
  <2>1. PICK d \in Sdu, p \in BOOLEAN :
          /\ InFlight(d)
          /\ \E so \in 0 .. (SduSize[d] - 1) : \E size \in 1 .. (SduSize[d] - so) :
               RecvPdu(SegmentOf(d, so, size), p)
          /\ UNCHANGED <<rx_base, clears>>
    BY SMTT(30), <1>1 DEF Receive
  <2>2. PICK so \in 0 .. (SduSize[d] - 1) :
          \E size \in 1 .. (SduSize[d] - so) : RecvPdu(SegmentOf(d, so, size), p)
    BY SMTT(30), <2>1
  <2>3. PICK size \in 1 .. (SduSize[d] - so) : RecvPdu(SegmentOf(d, so, size), p)
    BY SMTT(30), <2>2
  <2> DEFINE s == SegmentOf(d, so, size)
  <2>4. /\ s.data = d /\ s.sn = (d - rx_base) % SnModulus
        /\ s.so \in Nat /\ s.size \in Nat \ {0} /\ s.so + s.size <= SduSize[d]
        /\ s.is_last = (s.so + s.size = SduSize[d])
    BY SMTT(30), SduSizeAssumption DEF SegmentOf
  <2> HIDE DEF s
  <2>5. RecvPdu(s, p)
    BY SMTT(30), <2>3 DEF s
  <2>6. CASE Discarded(s)
    BY SMTT(30), <2>5, <2>6, KeepSized DEF RecvPdu, rx_state
  <2>7. CASE ~Discarded(s)
    BY SMTT(30), <2>1, <2>4, <2>5, <2>7, ReceptionSized DEF RecvPdu
  <2> QED BY Zenon, <2>6, <2>7
<1>2. CASE ReceiveBad
  BY SMTT(30), <1>2, KeepSized DEF ReceiveBad, RecvBadPdu, rx_state
<1>3. CASE Timer
  BY SMTT(30), <1>3, KeepSized DEF Timer, TReassemblyExpires, TStatusProhibitExpires, rx_state
<1>4. CASE Report
  BY <1>4, KeepSized DEF Report, GenerateStatus, rx_state
<1>5. CASE Reestablish
  <2>1. rx_size' = 0 /\ rx_list' = {}
    BY <1>5 DEF Reestablish, RxClear
  <2>2. {p \in rx_list' : p.sn \notin rx_delivered'} = {}
    BY SMTT(30), <2>1
  <2>3. RxSizeExact' <=> /\ rx_size' = SizeOf({p \in rx_list' : p.sn \notin rx_delivered'})
                         /\ rx_size' <= RxMaxSize
    BY DEF RxSizeExact, SizeOf, Total, Units
  <2>4. 0 <= RxMaxSize
    BY RxAssumption
  <2>5. RxSizeExact'
    BY Zenon, <2>1, <2>2, <2>3, <2>4, EmptySized
  <2>6. IsFiniteSet(Units([p \in rx_list' |-> p.size]))
    BY Zenon, <2>1, EmptySized
  <2> QED BY Zenon, <2>5, <2>6 DEF Sized, Units
<1>6. CASE UNCHANGED vars
  BY <1>6, KeepSized DEF vars, rx_vars, rx_state
<1> QED BY Zenon, <1>1, <1>2, <1>3, <1>4, <1>5, <1>6 DEF Next

-----------------------------------------------------------------------------
(* Theorems                                                                *)

\* The fields of the receiving side keep their types, and SNs stay within the
\* SN space, whatever the modulus.
THEOREM ReceiverTypes == Spec => []TypeOK
<1>1. RxInv => TypeOK
  BY SMTT(30) DEF RxInv
<1> QED BY <1>1, InitRxInv, NextRxInv, PTL DEF Spec

\* The window markers stay in order, nothing is buffered outside of the window,
\* and the markers rest on SDUs that are not delivered (reception_actions,
\* check_t_reassembly).
THEOREM ReceiverWindow == Spec => []WindowOrder
<1>1. RxInv => WindowOrder
  BY SMTT(30) DEF RxInv
<1> QED BY <1>1, InitRxInv, NextRxInv, PTL DEF Spec

\* A running t_reassembly watches an SN of the window, and what
\* rx_highest_status has passed above it is delivered.
THEOREM ReceiverTrigger == Spec => []TriggerInWindow
<1>1. RxInv => TriggerInWindow
  BY DEF RxInv
<1> QED BY <1>1, InitRxInv, NextRxInv, PTL DEF Spec

\* rx_next, rx_highest_status and rx_next_highest never move back between
\* re-establishments, although each of them wraps around.
THEOREM ReceiverMonotone == Spec => MarkersMonotone
<1>1. ASSUME RxInv, [Next]_vars
      PROVE  [clears' = clears =>
                /\ rx_count' >= rx_count
                /\ rx_count' + Off(rx_highest_status)' >= rx_count + Off(rx_highest_status)
                /\ rx_count' + Off(rx_next_highest)' >= rx_count + Off(rx_next_highest)]_vars
  BY <1>1, NextRxInv DEF MarkersAhead
<1> QED BY <1>1, InitRxInv, NextRxInv, PTL DEF Spec, MarkersMonotone

\* rx_next passes an SDU only after it was handed to PDCP, once, and the SNs marked
\* as delivered ahead of it are those of the SDUs handed over, across wrap-around,
\* duplicates, late segments and re-establishment.
THEOREM ReceiverSkipsNothing == Spec => []NothingSkipped
<1>1. Init => RxInv /\ Accounted
  BY SMTT(30), InitRxInv, InitAccounted
<1>2. RxInv /\ Accounted /\ [Next]_vars => RxInv' /\ Accounted'
  BY NextRxInv, NextAccounted
<1>3. RxInv /\ Accounted => NothingSkipped
  BY SMTT(30), AccountedIs
<1> QED BY <1>1, <1>2, <1>3, PTL DEF Spec

\* No STATUS PDU, however small the transport block that cuts it off, acknowledges
\* a byte that was not received (generate_status, next_missing).
THEOREM ReceiverHonest == Spec => []StatusHonest
<1>1. Init => RxInv /\ Accounted
  BY InitRxInv, InitAccounted
<1>2. RxInv /\ Accounted /\ [Next]_vars => RxInv' /\ Accounted'
  BY NextRxInv, NextAccounted
<1>3. RxInv /\ Accounted => StatusHonest
  BY HonestReport
<1> QED BY <1>1, <1>2, <1>3, PTL DEF Spec

\* rx_size is at all times the size of what is buffered and not delivered, and
\* within rx_maxsize: nothing is counted twice or left counted when an SDU is
\* delivered, when rx_next passes it, or when the entity is cleared.
THEOREM ReceiverSize == Spec => []RxSizeExact
<1>1. Init => RxInv /\ Accounted /\ Sized
  <2>1. Init => Sized
    <3> SUFFICES ASSUME Init PROVE Sized
      OBVIOUS
    <3>1. rx_size = 0 /\ rx_list = {} /\ 0 <= RxMaxSize
      BY RxAssumption DEF Init, RxInit
    <3>2. {p \in rx_list : p.sn \notin rx_delivered} = {}
      BY <3>1
    <3> QED BY Zenon, <3>1, <3>2, EmptySized DEF Sized, RxSizeExact
  <2> QED BY <2>1, InitRxInv, InitAccounted
<1>2. RxInv /\ Accounted /\ Sized /\ [Next]_vars => RxInv' /\ Accounted' /\ Sized'
  BY SMTT(30), NextRxInv, NextAccounted, NextSized
<1>3. Sized => RxSizeExact
  BY DEF Sized
<1> QED BY <1>1, <1>2, <1>3, PTL DEF Spec
=============================================================================
