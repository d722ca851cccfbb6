---------------------------- MODULE NrPdcpProofs -----------------------------
(***************************************************************************)
(* Proofs about NrPdcp for every SN size, number of SDUs, type of bearer   *)
(* and number of re-establishments: the receiver finds the COUNT of every  *)
(* PDU, its markers and its timer stay consistent, suspension leaves it    *)
(* clean, and the two entities implement PdcpService: SDUs come out in the *)
(* order they went in, at most once and ungarbled.  And about DataQueue,   *)
(* the queues of the same layer, for every size, among them 10000, and     *)
(* every set of producers that is not larger.                              *)
(***************************************************************************)
EXTENDS NrPdcp, DataQueue, FiniteSetTheorems, TLAPS

-----------------------------------------------------------------------------
(* COUNTs                                                                  *)

\* Multiples of m that are less than two m apart belong to neighbours.
LEMMA Neighbours ==
  ASSUME NEW m \in Nat \ {0}, NEW a \in Nat, NEW b \in Nat, a * m < b * m + 2 * m
  PROVE  a <= b + 1
<1>1. SUFFICES ASSUME a >= b + 2 PROVE FALSE
  OBVIOUS
<1> DEFINE k == a - (b + 2)
<1>2. k \in Nat /\ a = (b + 2) + k
  BY <1>1
<1> HIDE DEF k
<1>3. a * m = b * m + 2 * m + k * m
  BY <1>2
<1>4. k * m \in Nat /\ b * m \in Nat
  BY <1>2
<1> QED BY <1>3, <1>4

\* A COUNT is its HFN and its SN.
LEMMA HfnAndSn ==
  ASSUME NEW m \in Nat \ {0}, NEW c \in Nat
  PROVE  /\ c \div m \in Nat /\ c % m \in 0..(m - 1)
         /\ c = (c \div m) * m + (c % m)
<1>1. c \div m \in Nat
  OBVIOUS
<1>2. c % m \in 0..(m - 1)
  OBVIOUS
<1>3. c = m * (c \div m) + (c % m)
  OBVIOUS
<1> QED BY <1>1, <1>2, <1>3

\* The COUNT of a PDU not more than half the SN space below, and less than
\* half of it above, rx_deliv is found again from its SN.
LEMMA CountRecovered ==
  ASSUME NEW c \in Nat, rx_deliv \in Nat, c < CountModulus,
         rx_deliv <= c + Window, c < rx_deliv + Window
  PROVE  RcvdCount(c % SnModulus) = c
<1> DEFINE m == SnModulus
           q == rx_deliv \div m   s == rx_deliv % m
           h == c \div m          n == c % m
<1>1. m \in Nat \ {0} /\ Window \in Nat /\ m = 2 * Window /\ CountModulus \in Nat
  BY ConstantsAssumption DEF Window
<1>2. q \in Nat /\ s \in 0..(m - 1) /\ rx_deliv = q * m + s
  BY Zenon, <1>1, HfnAndSn
<1>3. h \in Nat /\ n \in 0..(m - 1) /\ c = h * m + n
  BY ZenonT(60), <1>1, HfnAndSn
<1>4. h <= q + 1 /\ q <= h + 1
  <2> HIDE DEF m, q, s, h, n
  <2>1. h * m < q * m + 2 * m /\ q * m < h * m + 2 * m
    BY <1>1, <1>2, <1>3
  <2> QED BY Zenon, <2>1, <1>1, <1>2, <1>3, Neighbours
<1>5. h = IF n < s - Window THEN q + 1 ELSE IF n >= s + Window THEN q - 1 ELSE q
  <2> HIDE DEF m, q, s, h, n
  <2>1. CASE h = q
    BY <2>1, <1>1, <1>2, <1>3
  <2>2. CASE h = q + 1
    BY <2>2, <1>1, <1>2, <1>3
  <2>3. CASE q = h + 1
    BY <2>3, <1>1, <1>2, <1>3
  <2> QED BY SMTT(30), <1>2, <1>3, <1>4, <2>1, <2>2, <2>3
<1>6. (h * m + n) % CountModulus = c
  BY <1>1, <1>3
<1> QED BY Zenon, <1>5, <1>6 DEF RcvdCount

-----------------------------------------------------------------------------
(* The inductive invariant                                                 *)

Types ==
  /\ submitted \in 0..N /\ tx_next \in Nat /\ tx_next <= submitted
  /\ tx_epoch \in 0..MaxEpochs /\ rx_epoch \in 0..MaxEpochs
  /\ tx_epoch <= rx_epoch + 1 /\ rx_epoch <= tx_epoch + 1
  /\ tx_state \in State /\ rx_state \in State
  /\ pdu \in [Sdu -> [sn : Nat, count : Nat, epoch : Nat]]
  /\ accepted \subseteq 1..submitted
  /\ rlc_delivered \in [Sdu -> {0, 1}]
  /\ rx_next \in 0..N /\ rx_deliv \in Nat /\ rx_reord \in Nat
  /\ t_reordering \in BOOLEAN /\ ticked \in BOOLEAN
  /\ rx_list \subseteq [count : Nat, sdu : Sdu]
  /\ \A e \in rx_list : e.sdu <= submitted

\* The PDUs RLC has are of the sender's incarnation and numbered without gaps.
Numbering ==
  /\ \A d \in accepted : /\ pdu[d].epoch = tx_epoch
                         /\ pdu[d].sn = pdu[d].count % SnModulus
                         /\ pdu[d].count < d
  /\ \A d, e \in accepted : d - pdu[d].count = e - pdu[e].count
  /\ tx_state = "active" => \A d \in accepted : d - pdu[d].count = submitted + 1 - tx_next

\* How far the receiver may be ahead of what is under way, and, while one end
\* is re-established and the other is not, of what will be.
Behind ==
  /\ tx_epoch = rx_epoch => \A d \in UnderWay : rx_next <= pdu[d].count + RlcWindow
  /\ tx_epoch = rx_epoch /\ tx_state = "active" => rx_next <= tx_next
  /\ tx_epoch < rx_epoch => rx_next <= tx_next /\ (Type # "DRB_AM" => rx_next = 0)
  /\ tx_epoch > rx_epoch /\ Type = "DRB_AM" =>
       rx_next <= tx_next /\ \A d \in accepted : rx_next <= pdu[d].count

\* What RLC has delivered was delivered by PDCP or is held.
NothingLost ==
  /\ tx_state # "suspended" /\ rx_state # "suspended"
  /\ accepted = 1..tx_next /\ rx_next <= tx_next
  /\ tx_state = "active" => submitted = tx_next
  /\ \A d \in accepted : pdu[d].count = d - 1
  /\ rx_state = "active" =>
       \A d \in accepted :
         rlc_delivered[d] = 1 => d - 1 < rx_deliv \/ InList(rx_list, d - 1)

Complete == ~Lossy /\ MaxEpochs = 0 => NothingLost

\* Something missing means t_reordering is running; it runs only on a clock.
Timed == /\ rx_deliv < rx_next => t_reordering
         /\ t_reordering => ticked

Intact == \A e \in rx_list : e.count = pdu[e.sdu].count

Clean == rx_state = "suspended" => /\ rx_list = {} /\ ~t_reordering
                                   /\ rx_next = 0 /\ rx_deliv = 0

IInv == /\ Types /\ Numbering /\ Behind /\ Complete
        /\ RxOrder /\ Timed /\ Intact /\ Clean

-----------------------------------------------------------------------------
(* The receiver's window and its list                                      *)

\* What the assumption on the constants says of the numbers.
LEMMA Numbers ==
  /\ Window \in Nat /\ RlcWindow \in Nat /\ RlcWindow <= Window /\ RlcWindow > 0
  /\ N \in Nat /\ CountModulus \in Nat /\ N < CountModulus
  /\ MaxEpochs \in Nat /\ Lossy \in BOOLEAN
BY ConstantsAssumption DEF Window

\* RLC has nothing but SDUs that were submitted.
LEMMA AcceptedSdu ==
  ASSUME Types
  PROVE  accepted \subseteq Sdu /\ 1..submitted \subseteq Sdu /\ Sdu \subseteq Nat
BY Numbers DEF Types, Sdu

\* Every nonempty set of naturals has a least element.
LEMMA LeastNat ==
  ASSUME NEW T \in SUBSET Nat, T # {}
  PROVE  \E k \in T : \A j \in T : k <= j
<1>1. PICK k \in T : \A j \in T : ~(<<j, k>> \in OpToRel(<, Nat))
  BY Zenon, WFMin, NatLessThanWellFounded
<1>2. \A j \in T : ~(j < k)
  BY Zenon, <1>1 DEF OpToRel
<1> QED BY <1>2

\* RunEnd returns the end of the run of COUNTs that are in the list.
LEMMA RunEndIs ==
  ASSUME NEW list, NEW count \in Nat, count <= CountModulus, ~InList(list, CountModulus)
  PROVE  /\ RunEnd(list, count) \in count..CountModulus
         /\ ~InList(list, RunEnd(list, count))
         /\ \A c \in count..(RunEnd(list, count) - 1) : InList(list, c)
<1> DEFINE T == {c \in count..CountModulus : ~InList(list, c)}
<1>1. CountModulus \in Nat
  BY Zenon, ConstantsAssumption
<1>2. T \in SUBSET Nat /\ CountModulus \in T
  BY <1>1
<1>3. \E k \in T : \A j \in T : k <= j
  BY Zenon, <1>2, LeastNat
<1>4. RunEnd(list, count) \in T /\ \A j \in T : RunEnd(list, count) <= j
  BY Zenon, <1>3 DEF RunEnd, Min
<1> QED BY <1>1, <1>4

\* With a lossless RLC the SDU rx_deliv waits for is still under way, and RLC
\* keeps its window above it.
LEMMA WindowKept ==
  ASSUME IInv
  PROVE  RlcKeepsWindow
<1> SUFFICES ASSUME ~Lossy, MaxEpochs = 0, rx_state = "active",
                    NEW d \in UnderWay, InReach(d)
             PROVE  pdu[d].count < rx_deliv + Window
  BY Zenon DEF RlcKeepsWindow
<1>2. /\ rx_deliv \in Nat /\ tx_next \in Nat
      /\ accepted = 1..tx_next /\ pdu[d].count = d - 1 /\ d \in 1..tx_next
  BY Zenon DEF IInv, Types, Complete, NothingLost, UnderWay
<1>3. CASE d - 1 < rx_deliv
  BY Numbers, <1>2, <1>3
<1>4. CASE d - 1 >= rx_deliv
  <2>1. rx_deliv + 1 \in accepted
    BY <1>2, <1>4
  <2>2. ~InList(rx_list, rx_deliv)
    BY <1>2 DEF IInv, Types, RxOrder, InList
  <2>3. rlc_delivered[rx_deliv + 1] # 1
    BY <1>2, <2>1, <2>2 DEF IInv, Complete, NothingLost
  <2>4. rx_deliv + 1 \in UnderWay
    <3>1. rx_deliv + 1 \in Sdu
      BY Zenon, <2>1, AcceptedSdu DEF IInv
    <3> QED BY Zenon, <2>1, <2>3, <3>1 DEF UnderWay, IInv, Types
  <2> QED BY <2>4, Numbers, <1>2 DEF InReach
<1> QED BY <1>2, <1>3, <1>4

\* A PDU that is under way to this incarnation has its COUNT found.
LEMMA CountFound ==
  ASSUME IInv, rx_state = "active", NEW d \in UnderWay, pdu[d].epoch = rx_epoch, InReach(d)
  PROVE  RcvdCount(pdu[d].sn) = pdu[d].count
<1> DEFINE c == pdu[d].count
<1>2. d \in accepted /\ d \in Sdu /\ d \in 1..N
  BY Zenon, AcceptedSdu DEF UnderWay, IInv, Sdu
<1>3. c \in Nat /\ rx_deliv \in Nat /\ rx_next \in Nat
  BY <1>2 DEF IInv, Types
<1>4. c < CountModulus /\ pdu[d].sn = c % SnModulus
  BY Numbers, <1>2, <1>3 DEF IInv, Numbering
<1>5. tx_epoch = rx_epoch
  BY Zenon, <1>2 DEF IInv, Numbering
<1>6. rx_deliv <= c + Window
  BY Numbers, <1>3, <1>5 DEF IInv, Behind, RxOrder
<1>7. c < rx_deliv + Window
  <2>1. CASE Lossy \/ MaxEpochs > 0
    BY Zenon, <2>1 DEF InReach
  <2>2. CASE ~Lossy /\ MaxEpochs = 0
    BY Zenon, <2>2, WindowKept DEF RlcKeepsWindow
  <2> QED BY <2>1, <2>2, Numbers
<1> QED BY Zenon, <1>3, <1>4, <1>6, <1>7, CountRecovered

\* What recv_pdu does to the markers and the list with an SDU it takes in:
\* every COUNT received stays delivered or held.
LEMMA TakeInEffect ==
  ASSUME IInv, ticked, NEW d \in Sdu, NEW c \in Nat, c + 1 <= N, rx_deliv <= c,
         ~InList(rx_list, c), TakeIn(d, c)
  PROVE  /\ rx_next' = IF c >= rx_next THEN c + 1 ELSE rx_next
         /\ rx_deliv' \in Nat /\ rx_reord' \in Nat /\ t_reordering' \in BOOLEAN
         /\ rx_list' \subseteq rx_list \cup {[count |-> c, sdu |-> d]}
         /\ RxOrder' /\ (rx_deliv' < rx_next' => t_reordering')
         /\ \A j \in Nat : j < rx_deliv \/ InList(rx_list, j) \/ j = c
                           => j < rx_deliv' \/ InList(rx_list', j)
         /\ rx_deliv <= rx_deliv'
         /\ \E out \in SUBSET (rx_list \cup {[count |-> c, sdu |-> d]}) :
              /\ rx_list' = (rx_list \cup {[count |-> c, sdu |-> d]}) \ out
              /\ delivered' = Delivery(out) /\ \A e \in out : e.count < rx_deliv'
<1> DEFINE new   == [count |-> c, sdu |-> d]
           list  == rx_list \cup {new}
           next  == IF c >= rx_next THEN c + 1 ELSE rx_next
           deliv == IF c = rx_deliv THEN RunEnd(list, c) ELSE rx_deliv
           out   == {e \in list : c = rx_deliv /\ e.count \in c..(deliv - 1)}
           run   == t_reordering /\ deliv < rx_reord
<1>1. /\ rx_next \in Nat /\ rx_deliv \in Nat /\ rx_reord \in Nat /\ rx_next <= N
      /\ t_reordering \in BOOLEAN
      /\ rx_list \subseteq [count : Nat, sdu : Sdu]
  BY Numbers DEF IInv, Types
<1>2. (c + 1) % CountModulus = c + 1
  BY Numbers
<1>3. /\ rx_next' = next /\ rx_deliv' = deliv /\ rx_list' = list \ out
      /\ t_reordering' = (run \/ (deliv < next /\ ticked))
      /\ rx_reord' = IF ~run /\ deliv < next THEN next ELSE rx_reord
  BY <1>2, Zenon DEF TakeIn, StartTimer
<1>4. next \in Nat /\ c < next /\ rx_next <= next /\ next <= N
  BY <1>1
<1>5. /\ new.count = c
      /\ list \subseteq [count : Nat, sdu : Sdu]
      /\ \A e \in list : rx_deliv <= e.count /\ e.count < next
  BY <1>1, <1>4 DEF IInv, RxOrder
<1>6. \A e, f \in list : e.count = f.count => e = f
  BY Zenon, <1>1, <1>5 DEF IInv, RxOrder, InList
<1>7. /\ deliv \in Nat /\ rx_deliv <= deliv /\ deliv <= next
      /\ \A e \in list \ out : deliv < e.count
      /\ \A e \in out : e.count < deliv
  <2>1. CASE c = rx_deliv
    <3>1. ~InList(list, CountModulus) /\ c <= CountModulus
      BY SMTT(30), <1>4, <1>5, Numbers DEF InList
    <3>2. /\ deliv \in c..CountModulus /\ ~InList(list, deliv)
          /\ \A j \in c..(deliv - 1) : InList(list, j)
      <4> HIDE DEF list
      <4> QED BY Zenon, <2>1, <3>1, RunEndIs
    <3>3. deliv <= next
      <4>1. ~InList(list, next)
        BY <1>4, <1>5 DEF InList
      <4> HIDE DEF next, list, deliv
      <4> QED BY SMTT(30), <3>2, <4>1, <1>4, Numbers
    <3> HIDE DEF next, list, deliv
    <3>4. \A e \in list : e.count \in Nat /\ e.count # deliv
      BY Zenon, <3>2, <1>5 DEF InList
    <3> QED BY SMTT(30), <2>1, <3>2, <3>3, <3>4, <1>1, <1>5, Numbers
  <2>2. CASE c # rx_deliv
    BY SMTT(30), <2>2, <1>1, <1>4, <1>5 DEF IInv, RxOrder
  <2> QED BY Zenon, <2>1, <2>2
<1>8. InList(list, c) /\ \A j : InList(rx_list, j) => InList(list, j)
  BY Zenon, <1>5 DEF InList
<1>9. rx_reord <= next \/ ~t_reordering
  BY <1>1, <1>4 DEF IInv, RxOrder
<1> HIDE DEF next, list, deliv, out, run
<1>10. (t_reordering' => deliv < rx_reord' /\ rx_reord' <= next) /\ (deliv < next => t_reordering')
  <2>1. CASE run
    BY Zenon, <2>1, <1>3, <1>9 DEF run
  <2>2. CASE ~run /\ deliv < next
    <3>1. t_reordering' /\ rx_reord' = next
      BY <2>2, <1>3, Zenon
    <3> QED BY <2>2, <3>1, <1>4
  <2>3. CASE ~run /\ ~(deliv < next)
    BY <2>3, <1>3, Zenon
  <2> QED BY Zenon, <2>1, <2>2, <2>3
<1>11. RxOrder'
  BY Zenon, <1>3, <1>5, <1>6, <1>7, <1>10 DEF RxOrder
<1>12. ASSUME NEW j \in Nat, j < rx_deliv \/ InList(rx_list, j) \/ j = c
       PROVE  j < rx_deliv' \/ InList(rx_list', j)
  <2>1. CASE j < rx_deliv
    BY SMTT(30), <2>1, <1>1, <1>3, <1>7
  <2>2. CASE InList(list, j)
    BY Zenon, <2>2, <1>3, <1>7 DEF InList
  <2> QED BY Zenon, <1>12, <1>8, <2>1, <2>2
<1>13. rx_reord' \in Nat /\ t_reordering' \in BOOLEAN /\ rx_deliv' \in Nat
  BY Zenon, <1>1, <1>3, <1>4, <1>7
<1>14. rx_list' \subseteq list /\ rx_next' = next
  BY Zenon, <1>3
<1>15. /\ rx_deliv <= rx_deliv' /\ out \in SUBSET list /\ rx_list' = list \ out
       /\ delivered' = Delivery(out) /\ \A e \in out : e.count < rx_deliv'
  <2>1. delivered' = Delivery(out)
    BY ZenonT(60) DEF TakeIn, out, deliv, list
  <2>2. out \in SUBSET list
    BY Zenon DEF out
  <2> QED BY Zenon, <2>1, <2>2, <1>3, <1>7
<1> QED BY SMTT(30), <1>3, <1>10, <1>11, <1>12, <1>13, <1>14, <1>15 DEF next, list

-----------------------------------------------------------------------------
(* Every step keeps the invariant                                          *)

\* The invariant of the start.
LEMMA InitHolds ==
  ASSUME Init
  PROVE  IInv
<1>1. Types
  <2>1. /\ submitted \in 0..N /\ tx_next \in Nat /\ tx_next <= submitted
        /\ tx_epoch \in 0..MaxEpochs /\ rx_epoch \in 0..MaxEpochs
        /\ tx_epoch <= rx_epoch + 1 /\ rx_epoch <= tx_epoch + 1
        /\ rx_next \in 0..N /\ rx_deliv \in Nat /\ rx_reord \in Nat
    BY Numbers DEF Init
  <2>2. /\ pdu \in [Sdu -> [sn : Nat, count : Nat, epoch : Nat]]
        /\ accepted = {} /\ rlc_delivered \in [Sdu -> {0, 1}]
    BY Zenon DEF Init, Rlc!Init
  <2>3. /\ tx_state \in State /\ rx_state \in State
        /\ t_reordering \in BOOLEAN /\ ticked \in BOOLEAN /\ rx_list = {}
    BY Zenon DEF Init, State
  <2> QED BY Zenon, <2>1, <2>2, <2>3 DEF Types
<1>2. Numbering /\ Behind /\ Complete
  BY SMTT(30), <1>1, Numbers DEF Init, Rlc!Init, Numbering, Behind, Complete, NothingLost, UnderWay
<1>3. RxOrder /\ Timed /\ Intact /\ Clean
  BY DEF Init, RxOrder, Timed, Intact, Clean
<1> QED BY Zenon, <1>1, <1>2, <1>3 DEF IInv

\* A PDU delivered by RLC
LEMMA RlcDeliverKeeps ==
  ASSUME IInv, ~Early, NEW d \in Sdu, RlcDeliver(d)
  PROVE  IInv'
<1> DEFINE c == pdu[d].count
<1>1. /\ pdu[d].epoch = rx_epoch /\ ticked /\ InReach(d) /\ d \in UnderWay /\ d \in accepted
      /\ accepted' = accepted
      /\ rlc_delivered' = [rlc_delivered EXCEPT ![d] = 1]
      /\ UNCHANGED <<tx_vars, finite, ticked, rx_state, rx_epoch>>
  BY Zenon DEF RlcDeliver, Rlc!Deliver, UnderWay
<1>2. /\ submitted' = submitted /\ tx_next' = tx_next /\ tx_state' = tx_state
      /\ tx_epoch' = tx_epoch /\ pdu' = pdu
  BY Zenon, <1>1 DEF tx_vars
<1>3. d \in Nat /\ d <= submitted /\ d <= N /\ c \in Nat /\ c < d
  BY <1>1, AcceptedSdu, Numbers DEF IInv, Types, Numbering, Sdu
<1>4. tx_epoch = rx_epoch
  BY Zenon, <1>1 DEF IInv, Numbering
<1>5. /\ rlc_delivered' \in [Sdu -> {0, 1}] /\ d \notin UnderWay' /\ UnderWay' \subseteq UnderWay
      /\ \A e \in accepted : rlc_delivered'[e] = 1 => e = d \/ rlc_delivered[e] = 1
  BY <1>1, AcceptedSdu DEF UnderWay, IInv, Types
<1>6. Numbering'
  BY Zenon, <1>1, <1>2 DEF IInv, Numbering
<1>7. CASE UNCHANGED rx_counts /\ (rx_state = "active" => c < rx_deliv \/ InList(rx_list, c))
  <2>1. /\ rx_next' = rx_next /\ rx_deliv' = rx_deliv /\ rx_reord' = rx_reord
        /\ t_reordering' = t_reordering /\ rx_list' = rx_list
    BY Zenon, <1>7 DEF rx_counts
  <2>2. Types' /\ Behind'
    BY Zenon, <2>1, <1>1, <1>2, <1>5 DEF IInv, Types, Behind
  <2>3. Complete'
    BY Zenon, <2>1, <1>1, <1>2, <1>5, <1>7 DEF IInv, Complete, NothingLost
  <2>4. RxOrder' /\ Timed' /\ Intact' /\ Clean'
    BY SMTT(30), <2>1, <1>1, <1>2 DEF IInv, RxOrder, Timed, Intact, Clean
  <2> QED BY Zenon, <2>2, <2>3, <2>4, <1>6 DEF IInv
<1>8. CASE rx_state = "active" /\ rx_deliv <= c /\ ~InList(rx_list, c) /\ TakeIn(d, c)
  <2>1. /\ rx_next' = IF c >= rx_next THEN c + 1 ELSE rx_next
        /\ rx_deliv' \in Nat /\ rx_reord' \in Nat /\ t_reordering' \in BOOLEAN
        /\ rx_list' \subseteq rx_list \cup {[count |-> c, sdu |-> d]}
        /\ RxOrder' /\ (rx_deliv' < rx_next' => t_reordering')
        /\ \A j \in Nat : j < rx_deliv \/ InList(rx_list, j) \/ j = c
                          => j < rx_deliv' \/ InList(rx_list', j)
    <3>1. c + 1 <= N
      BY SMTT(30), <1>3, Numbers
    <3> HIDE DEF c
    <3> QED BY Zenon, <3>1, <1>1, <1>3, <1>8, TakeInEffect
  <2>2. rx_next \in Nat /\ rx_next <= N /\ rx_next' \in 0..N
    BY SMTT(30), <2>1, <1>3, Numbers DEF IInv, Types
  <2>3. Types'
    BY SMTT(30), <2>1, <2>2, <1>1, <1>2, <1>3, <1>5 DEF IInv, Types
  <2>4. Behind'
    <3>1. ASSUME NEW e \in UnderWay' PROVE rx_next' <= pdu[e].count + RlcWindow
      <4>1. e \in accepted /\ e \in UnderWay /\ e \in Nat /\ pdu[e].count \in Nat
        BY Zenon, <1>5, AcceptedSdu DEF UnderWay, IInv, Types
      <4>2. d < e + RlcWindow /\ d - c = e - pdu[e].count
        BY Zenon, <4>1, <1>1 DEF InReach, IInv, Numbering
      <4>3. rx_next <= pdu[e].count + RlcWindow
        BY Zenon, <4>1, <1>4 DEF IInv, Behind
      <4> QED BY SMTT(30), <4>1, <4>2, <4>3, <2>1, <2>2, <1>3, Numbers
    <3>2. tx_state = "active" => rx_next' <= tx_next
      <4>1. tx_state = "active" => d - c = submitted + 1 - tx_next /\ rx_next <= tx_next
        BY Zenon, <1>1, <1>4 DEF IInv, Numbering, Behind
      <4>2. submitted \in Nat /\ tx_next \in Nat
        BY Numbers DEF IInv, Types
      <4> QED BY SMTT(30), <4>1, <4>2, <2>1, <2>2, <1>3
    <3>3. rx_epoch \in Nat
      BY Numbers DEF IInv, Types
    <3> QED BY SMTT(30), <3>1, <3>2, <3>3, <1>1, <1>2, <1>4 DEF Behind
  <2>5. Complete'
    <3> SUFFICES ASSUME ~Lossy, MaxEpochs = 0 PROVE NothingLost'
      BY Zenon DEF Complete
    <3>1. /\ accepted = 1..tx_next /\ rx_next <= tx_next /\ tx_next \in Nat
          /\ \A e \in accepted : pdu[e].count = e - 1
          /\ \A e \in accepted :
               rlc_delivered[e] = 1 => e - 1 < rx_deliv \/ InList(rx_list, e - 1)
      BY SMTT(30), <1>8 DEF IInv, Complete, NothingLost, Types
    <3>2. c = d - 1 /\ rx_next' <= tx_next
      BY SMTT(30), <3>1, <2>1, <1>1, <1>3
    <3>3. ASSUME NEW e \in accepted, rlc_delivered'[e] = 1
          PROVE  e - 1 < rx_deliv' \/ InList(rx_list', e - 1)
      BY SMTT(30), <3>1, <3>2, <3>3, <2>1, <1>5
    <3> QED BY Zenon, <3>1, <3>2, <3>3, <1>1, <1>2 DEF IInv, Complete, NothingLost
  <2>6. Timed' /\ Intact' /\ Clean'
    BY SMTT(30), <2>1, <1>1, <1>2, <1>8 DEF IInv, Timed, Intact, Clean
  <2> QED BY Zenon, <2>1, <2>3, <2>4, <2>5, <2>6, <1>6 DEF IInv
<1>9. CASE rx_state # "active"
  BY SMTT(30), <1>7, <1>9 DEF RlcDeliver, RecvPdu
<1>10. CASE rx_state = "active"
  <2>1. RcvdCount(pdu[d].sn) = c
    BY SMTT(30), <1>1, <1>10, CountFound
  <2>2. c < rx_deliv \/ rx_deliv <= c
    BY <1>3 DEF IInv, Types
  <2> QED BY Zenon, <2>1, <2>2, <1>7, <1>8, <1>10 DEF RlcDeliver, RecvPdu, Discarded
<1> QED BY Zenon, <1>9, <1>10

\* t_reordering expires: rx_deliv goes to the end of the run at rx_reord.
LEMMA ExpireKeeps ==
  ASSUME IInv, Expire
  PROVE  IInv'
<1> DEFINE deliv == RunEnd(rx_list, rx_reord)
           out   == {e \in rx_list : e.count < deliv}
<1>1. /\ t_reordering /\ ticked
      /\ rx_deliv' = deliv /\ rx_list' = rx_list \ out
      /\ t_reordering' = (deliv < rx_next /\ ticked)
      /\ rx_reord' = IF deliv < rx_next THEN rx_next ELSE rx_reord
  <2>1. t_reordering /\ ticked
    BY Zenon DEF Expire, IInv, Timed
  <2>2. rx_deliv' = deliv /\ rx_list' = rx_list \ out /\ StartTimer(FALSE, deliv, rx_next)
    BY ZenonT(60) DEF Expire
  <2> HIDE DEF deliv
  <2>3. /\ t_reordering' = (FALSE \/ (deliv < rx_next /\ ticked))
        /\ rx_reord' = IF deliv < rx_next THEN rx_next ELSE rx_reord
    BY Zenon, <2>2 DEF StartTimer
  <2> QED BY Zenon, <2>1, <2>2, <2>3
<1>2. /\ rx_next' = rx_next /\ ticked' = ticked /\ rx_state' = rx_state /\ rx_epoch' = rx_epoch
      /\ submitted' = submitted /\ tx_next' = tx_next /\ tx_state' = tx_state
      /\ tx_epoch' = tx_epoch /\ pdu' = pdu
      /\ accepted' = accepted /\ rlc_delivered' = rlc_delivered
  BY Zenon DEF Expire, tx_vars, rlc_vars
<1>3. /\ rx_next \in Nat /\ rx_deliv \in Nat /\ rx_reord \in Nat
      /\ rx_deliv < rx_reord /\ rx_reord <= rx_next /\ rx_next < CountModulus
      /\ rx_list \subseteq [count : Nat, sdu : Sdu]
      /\ \A e \in rx_list : e.count \in Nat /\ e.count < rx_next
  BY <1>1, Numbers DEF IInv, Types, RxOrder
<1>4. /\ deliv \in rx_reord..CountModulus /\ ~InList(rx_list, deliv)
      /\ \A j \in rx_reord..(deliv - 1) : InList(rx_list, j)
  <2>1. ~InList(rx_list, CountModulus) /\ rx_reord <= CountModulus
    BY SMTT(30), <1>3, Numbers DEF InList
  <2> QED BY Zenon, <2>1, <1>3, RunEndIs
<1> HIDE DEF deliv
<1>5. deliv \in Nat /\ rx_deliv < deliv /\ deliv <= rx_next
  <2>1. ~InList(rx_list, rx_next)
    BY <1>3 DEF InList
  <2> QED BY SMTT(30), <2>1, <1>3, <1>4, Numbers
<1>6. \A e \in rx_list' : e \in rx_list /\ deliv < e.count /\ e.count < rx_next
  BY SMTT(30), <1>1, <1>3, <1>4, <1>5 DEF InList
<1>7. /\ t_reordering' \in BOOLEAN /\ rx_reord' \in Nat
      /\ (t_reordering' <=> deliv < rx_next) /\ (deliv < rx_next => rx_reord' = rx_next)
  BY ZenonT(60), <1>1, <1>3
<1>8. Types'
  BY Zenon, <1>1, <1>2, <1>5, <1>6, <1>7 DEF IInv, Types
<1>9. Numbering' /\ Behind'
  BY Zenon, <1>2 DEF IInv, Numbering, Behind, UnderWay
<1>10. Complete'
  <2>1. \A j \in Nat : j < rx_deliv \/ InList(rx_list, j) => j < deliv \/ InList(rx_list', j)
    BY SMTT(30), <1>1, <1>3, <1>5 DEF InList
  <2>2. accepted \subseteq Nat /\ \A d \in accepted : d - 1 \in Nat
    BY SMTT(30), Numbers DEF IInv, Types
  <2> QED BY SMTT(30), <2>1, <2>2, <1>1, <1>2 DEF IInv, Complete, NothingLost
<1>11. RxOrder'
  BY SMTT(30), <1>1, <1>2, <1>3, <1>5, <1>6, <1>7 DEF IInv, RxOrder
<1>12. Timed' /\ Intact'
  BY Zenon, <1>1, <1>2, <1>6, <1>7 DEF IInv, Timed, Intact
<1>13. Clean'
  BY Zenon, <1>1, <1>2 DEF IInv, Clean
<1> QED BY Zenon, <1>8, <1>9, <1>10, <1>11, <1>12, <1>13 DEF IInv

\* A new SDU gets the COUNT that follows those under way.
LEMMA ProcessSduKeeps ==
  ASSUME IInv, ProcessSdu
  PROVE  IInv'
<1> DEFINE d == submitted + 1
           new == [sn |-> tx_next % SnModulus, count |-> tx_next, epoch |-> tx_epoch]
<1>1. /\ d \in Sdu /\ tx_state = "active" /\ submitted' = d
      /\ pdu' = [pdu EXCEPT ![d] = new]
      /\ tx_next' = (tx_next + 1) % CountModulus
      /\ rlc_delivered[d] = 0 /\ accepted' = accepted \cup {d} /\ rlc_delivered' = rlc_delivered
      /\ tx_state' = tx_state /\ tx_epoch' = tx_epoch /\ UNCHANGED rx_vars
  BY Zenon DEF ProcessSdu, Rlc!Accept
<1>2. /\ rx_next' = rx_next /\ rx_deliv' = rx_deliv /\ rx_reord' = rx_reord
      /\ t_reordering' = t_reordering /\ rx_list' = rx_list /\ ticked' = ticked
      /\ rx_state' = rx_state /\ rx_epoch' = rx_epoch
  BY Zenon, <1>1 DEF rx_vars, rx_counts
<1>3. /\ submitted \in Nat /\ d \in Nat /\ d <= N /\ tx_next \in Nat /\ tx_next <= submitted
      /\ tx_epoch \in Nat /\ rx_epoch \in Nat /\ rx_next \in Nat
      /\ \A e \in accepted : e \in Sdu /\ e \in Nat /\ e # d /\ pdu[e].count \in Nat
  BY SMTT(30), <1>1, Numbers, AcceptedSdu DEF IInv, Types, Sdu
<1>4. tx_next' = tx_next + 1
  BY SMTT(30), <1>1, <1>3, Numbers
<1>5. /\ pdu'[d] = new /\ new.count = tx_next /\ new.sn = tx_next % SnModulus
      /\ new.epoch = tx_epoch
      /\ \A e \in Sdu : e # d => pdu'[e] = pdu[e]
  BY Zenon, <1>1 DEF IInv, Types
<1>6. new \in [sn : Nat, count : Nat, epoch : Nat]
  <2>1. tx_next % SnModulus \in Nat
    BY <1>3, ConstantsAssumption
  <2> QED BY Zenon, <2>1, <1>3
<1> HIDE DEF new
<1>7. Types'
  <2>1. pdu' \in [Sdu -> [sn : Nat, count : Nat, epoch : Nat]]
    BY Zenon, <1>1, <1>6 DEF IInv, Types
  <2>2. submitted' \in 0..N /\ tx_next' \in Nat /\ tx_next' <= submitted'
    BY SMTT(30), <1>1, <1>3, <1>4, Numbers
  <2>3. accepted' \subseteq 1..submitted' /\ \A e \in rx_list : e.sdu <= submitted'
    <3>1. \A e \in rx_list : e.sdu \in Nat /\ e.sdu <= submitted
      BY SMTT(30), Numbers DEF IInv, Types, Sdu
    <3> QED BY SMTT(30), <3>1, <1>1, <1>3 DEF IInv, Types
  <2> QED BY Zenon, <2>1, <2>2, <2>3, <1>1, <1>2 DEF IInv, Types
<1>8. Numbering'
  BY SMTT(30), <1>1, <1>3, <1>4, <1>5 DEF IInv, Numbering
<1>9. Behind'
  <2>1. UnderWay' = UnderWay \cup {d} /\ UnderWay \subseteq accepted
    BY Zenon, <1>1, <1>3 DEF UnderWay
  <2>2. \A e \in accepted : pdu'[e] = pdu[e]
    BY SMTT(30), <1>3, <1>5
  <2> QED BY SMTT(30), <2>1, <2>2, <1>1, <1>2, <1>3, <1>4, <1>5, Numbers DEF IInv, Behind
<1>10. Complete'
  BY SMTT(30), <1>1, <1>2, <1>3, <1>4, <1>5 DEF IInv, Complete, NothingLost
<1>11. Intact'
  <2>1. \A e \in rx_list : e.sdu \in Sdu /\ e.sdu # d
    BY <1>3 DEF IInv, Types
  <2> QED BY Zenon, <2>1, <1>2, <1>5 DEF IInv, Intact
<1>12. RxOrder' /\ Timed' /\ Clean'
  BY Zenon, <1>2 DEF IInv, RxOrder, Timed, Clean
<1> QED BY Zenon, <1>7, <1>8, <1>9, <1>10, <1>11, <1>12 DEF IInv

\* Steps of the sender that make no PDU
LEMMA SenderKeeps ==
  ASSUME IInv, RefuseSdu \/ SuspendTx \/ ReleaseTx
  PROVE  IInv'
<1>1. /\ tx_epoch' = tx_epoch /\ pdu' = pdu
      /\ accepted' = accepted /\ rlc_delivered' = rlc_delivered
      /\ rx_next' = rx_next /\ rx_deliv' = rx_deliv /\ rx_reord' = rx_reord
      /\ t_reordering' = t_reordering /\ rx_list' = rx_list /\ ticked' = ticked
      /\ rx_state' = rx_state /\ rx_epoch' = rx_epoch
  BY Zenon DEF RefuseSdu, SuspendTx, ReleaseTx, rlc_vars, rx_vars, rx_counts
<1>2. /\ submitted' \in 0..N /\ submitted <= submitted' /\ submitted \in Nat
      /\ tx_next' \in {0, tx_next} /\ tx_state' \in State
      /\ tx_state' # "active"
  BY SMTT(30), Numbers DEF RefuseSdu, SuspendTx, ReleaseTx, IInv, Types, State, Sdu
<1>3. (tx_next' = tx_next /\ tx_state' # "suspended") \/ MaxEpochs > 0 \/ tx_state = "suspended"
  BY Numbers DEF RefuseSdu, SuspendTx, ReleaseTx, IInv, Types
<1>4. tx_next' = tx_next \/ tx_epoch = rx_epoch
  BY Zenon DEF RefuseSdu, SuspendTx, ReleaseTx
<1>5. Types'
  <2>1. tx_next \in Nat /\ tx_next <= submitted
    BY Zenon DEF IInv, Types
  <2>2. accepted \subseteq 1..submitted' /\ \A e \in rx_list : e.sdu <= submitted'
    <3>1. \A e \in rx_list : e.sdu \in Nat /\ e.sdu <= submitted
      BY SMTT(30), Numbers DEF IInv, Types, Sdu
    <3> QED BY SMTT(30), <3>1, <1>2, Numbers DEF IInv, Types
  <2> QED BY SMTT(30), <2>1, <2>2, <1>1, <1>2, Numbers DEF IInv, Types
<1>6. Numbering'
  BY Zenon, <1>1, <1>2 DEF IInv, Numbering
<1>7. Behind'
  BY SMTT(30), <1>1, <1>2, <1>4, Numbers DEF IInv, Types, Behind, UnderWay
<1>8. Complete'
  <2>1. SUFFICES ASSUME ~Lossy, MaxEpochs = 0 PROVE NothingLost'
    BY Zenon DEF Complete
  <2>2. tx_next' = tx_next /\ tx_state' # "suspended"
    BY SMTT(30), <2>1, <1>3 DEF IInv, Complete, NothingLost
  <2> QED BY Zenon, <2>1, <2>2, <1>1, <1>2 DEF IInv, Complete, NothingLost
<1>9. RxOrder' /\ Timed' /\ Intact' /\ Clean'
  BY Zenon, <1>1 DEF IInv, RxOrder, Timed, Intact, Clean
<1> QED BY Zenon, <1>5, <1>6, <1>7, <1>8, <1>9 DEF IInv

\* RLC loses a PDU, the clock starts, t_reordering is reconfigured, or the
\* receiver is released.
LEMMA OthersKeep ==
  ASSUME IInv, (\E d \in Sdu : RlcLose(d)) \/ FirstTick \/ Reconfigure \/ ReleaseRx
  PROVE  IInv'
<1>1. /\ submitted' = submitted /\ tx_next' = tx_next /\ tx_state' = tx_state
      /\ tx_epoch' = tx_epoch /\ pdu' = pdu /\ rlc_delivered' = rlc_delivered
      /\ accepted' \subseteq accepted /\ (accepted' = accepted \/ Lossy)
      /\ rx_next' = rx_next /\ rx_deliv' = rx_deliv /\ rx_reord' = rx_reord
      /\ t_reordering' = t_reordering /\ rx_epoch' = rx_epoch
  BY Zenon DEF RlcLose, Rlc!Discard, FirstTick, Reconfigure, ReleaseRx,
         tx_vars, rlc_vars, rx_vars, rx_counts
<1>2. /\ (rx_list' = rx_list /\ rx_state' = rx_state) \/ (rx_list' = {} /\ rx_state' = "released")
      /\ ticked' \in BOOLEAN /\ (ticked => ticked')
  BY Zenon DEF RlcLose, FirstTick, Reconfigure, ReleaseRx, rx_vars, rx_counts, IInv, Types
<1>3. Types'
  BY Zenon, <1>1, <1>2 DEF IInv, Types, State
<1>4. Numbering'
  BY Zenon, <1>1 DEF IInv, Numbering
<1>5. Behind'
  BY Zenon, <1>1 DEF IInv, Behind, UnderWay
<1>6. Complete'
  BY SMTT(30), <1>1, <1>2 DEF IInv, Complete, NothingLost
<1>7. RxOrder' /\ Timed' /\ Intact' /\ Clean'
  BY Zenon, <1>1, <1>2 DEF IInv, RxOrder, Timed, Intact, Clean
<1> QED BY Zenon, <1>3, <1>4, <1>5, <1>6, <1>7 DEF IInv

\* Nothing is held when t_reordering is not running: Flush leaves an empty list.
LEMMA FlushEmpties ==
  ASSUME IInv, Flush
  PROVE  rx_list' = {} /\ t_reordering' = FALSE
<1>1. CASE t_reordering
  BY Zenon, <1>1 DEF Flush
<1>2. CASE ~t_reordering
  <2>1. ~(rx_deliv < rx_next) /\ rx_deliv \in Nat /\ rx_next \in Nat
    BY SMTT(30), <1>2, Numbers DEF IInv, Timed, Types
  <2>2. rx_list = {}
    BY <2>1 DEF IInv, RxOrder, Types
  <2> QED BY Zenon, <1>2, <2>2 DEF Flush
<1> QED BY Zenon, <1>1, <1>2

\* The receiver is suspended.
LEMMA SuspendRxKeeps ==
  ASSUME IInv, SuspendRx
  PROVE  IInv'
<1>1. /\ rx_list' = {} /\ t_reordering' = FALSE
      /\ rx_next' = 0 /\ rx_deliv' = 0 /\ rx_reord' = rx_reord
      /\ rx_state' = "suspended" /\ rx_epoch' = rx_epoch /\ ticked' = ticked
      /\ tx_epoch = rx_epoch /\ rx_epoch < MaxEpochs
  BY Zenon, FlushEmpties DEF SuspendRx
<1>2. /\ submitted' = submitted /\ tx_next' = tx_next /\ tx_state' = tx_state
      /\ tx_epoch' = tx_epoch /\ pdu' = pdu
      /\ accepted' = accepted /\ rlc_delivered' = rlc_delivered
  BY Zenon DEF SuspendRx, tx_vars, rlc_vars
<1>3. Types'
  <2>1. rx_next' \in 0..N /\ rx_deliv' \in Nat
    BY <1>1, Numbers
  <2>2. rx_state' \in State /\ t_reordering' \in BOOLEAN
    BY <1>1, Zenon DEF State
  <2> QED BY Zenon, <2>1, <2>2, <1>1, <1>2 DEF IInv, Types
<1>4. Numbering'
  BY Zenon, <1>2 DEF IInv, Numbering
<1>5. Behind'
  <2>1. \A d \in UnderWay : pdu[d].count \in Nat
    BY Zenon, AcceptedSdu DEF UnderWay, IInv, Types
  <2> QED BY SMTT(30), <2>1, <1>1, <1>2, Numbers DEF IInv, Types, Behind, UnderWay
<1>6. Complete'
  BY SMTT(30), <1>1, Numbers DEF Complete, IInv, Types
<1>7. RxOrder' /\ Timed' /\ Intact' /\ Clean'
  BY <1>1 DEF RxOrder, Timed, Intact, Clean
<1> QED BY Zenon, <1>3, <1>4, <1>5, <1>6, <1>7 DEF IInv

\* When one end may be re-established, the receiver is not ahead of the sender.
LEMMA NotAhead ==
  ASSUME IInv, tx_epoch = rx_epoch, tx_state = rx_state, rx_state # "released"
  PROVE  rx_next <= tx_next
<1>1. CASE rx_state = "active"
  BY Zenon, <1>1 DEF IInv, Behind
<1>2. CASE rx_state = "suspended"
  BY SMTT(30), <1>2 DEF IInv, Clean, Types
<1> QED BY Zenon, <1>1, <1>2 DEF IInv, Types, State

\* The sender is re-established, and RLC with it.
LEMMA ReestablishTxKeeps ==
  ASSUME IInv, ReestablishTx
  PROVE  IInv'
<1>1. /\ tx_state # "released" /\ rx_state # "released" /\ tx_epoch < MaxEpochs
      /\ tx_epoch < rx_epoch \/ (tx_epoch = rx_epoch /\ tx_state = rx_state)
      /\ tx_next' = (IF Type = "DRB_AM" THEN tx_next ELSE 0)
      /\ tx_state' = "active" /\ tx_epoch' = tx_epoch + 1
      /\ accepted' = {} /\ rlc_delivered' = rlc_delivered
      /\ submitted' = submitted /\ pdu' = pdu
  BY Zenon DEF ReestablishTx, MayReestablish, Rlc!Reset
<1>2. /\ rx_next' = rx_next /\ rx_deliv' = rx_deliv /\ rx_reord' = rx_reord
      /\ t_reordering' = t_reordering /\ rx_list' = rx_list /\ ticked' = ticked
      /\ rx_state' = rx_state /\ rx_epoch' = rx_epoch
  BY Zenon DEF ReestablishTx, rx_vars, rx_counts
<1>3. /\ tx_epoch \in Nat /\ rx_epoch \in Nat /\ rx_next \in Nat /\ tx_next \in Nat
      /\ rx_epoch <= tx_epoch + 1
  BY SMTT(30), Numbers DEF IInv, Types
<1>4. Types'
  BY SMTT(30), <1>1, <1>2, <1>3, Numbers DEF IInv, Types, State
<1>5. Numbering'
  BY Zenon, <1>1 DEF Numbering
<1>6. Behind'
  <2>1. UnderWay' = {}
    BY SMTT(30), <1>1 DEF UnderWay
  <2>2. CASE tx_epoch < rx_epoch
    BY SMTT(30), <2>1, <2>2, <1>1, <1>2, <1>3 DEF IInv, Behind
  <2>3. CASE tx_epoch = rx_epoch
    BY SMTT(30), <2>1, <2>3, <1>1, <1>2, <1>3, NotAhead DEF Behind
  <2> QED BY Zenon, <2>2, <2>3, <1>1
<1>7. Complete'
  BY SMTT(30), <1>1, <1>3 DEF Complete
<1>8. RxOrder' /\ Timed' /\ Intact' /\ Clean'
  BY Zenon, <1>1, <1>2 DEF IInv, RxOrder, Timed, Intact, Clean
<1> QED BY Zenon, <1>4, <1>5, <1>6, <1>7, <1>8 DEF IInv

\* The receiver is re-established.
LEMMA ReestablishRxKeeps ==
  ASSUME IInv, ReestablishRx
  PROVE  IInv'
<1>1. /\ tx_state # "released" /\ rx_state # "released" /\ rx_epoch < MaxEpochs
      /\ rx_epoch < tx_epoch \/ (rx_epoch = tx_epoch /\ tx_state = rx_state)
      /\ rx_state' = "active" /\ rx_epoch' = rx_epoch + 1
      /\ rlc_delivered' = rlc_delivered /\ ticked' = ticked
      /\ accepted' = IF tx_epoch = rx_epoch THEN {} ELSE accepted
  BY Zenon DEF ReestablishRx, MayReestablish, Rlc!Reset, rlc_vars
<1>2. /\ submitted' = submitted /\ tx_next' = tx_next /\ tx_state' = tx_state
      /\ tx_epoch' = tx_epoch /\ pdu' = pdu
  BY Zenon DEF ReestablishRx, tx_vars
<1>3. \/ /\ Type = "DRB_AM"
         /\ rx_next' = rx_next /\ rx_deliv' = rx_deliv /\ rx_reord' = rx_reord
         /\ t_reordering' = t_reordering /\ rx_list' = rx_list
      \/ /\ Type # "DRB_AM"
         /\ rx_next' = 0 /\ rx_deliv' = 0 /\ rx_reord' = rx_reord
         /\ t_reordering' = FALSE /\ rx_list' = {}
  BY Zenon, FlushEmpties DEF ReestablishRx, ResetRx, rx_counts
<1>4. /\ tx_epoch \in Nat /\ rx_epoch \in Nat /\ rx_next \in Nat /\ tx_next \in Nat
      /\ tx_epoch <= rx_epoch + 1
      /\ \A d \in UnderWay : d \in accepted /\ pdu[d].count \in Nat
  BY Numbers, AcceptedSdu DEF IInv, Types, UnderWay
<1>5. Types'
  <2>1. rx_next' \in 0..N /\ rx_deliv' \in Nat /\ rx_reord' \in Nat /\ rx_list' \subseteq rx_list
    BY <1>3, Numbers DEF IInv, Types
  <2>3. rx_state' \in State
    BY <1>1, Zenon DEF State
  <2>4. t_reordering' \in BOOLEAN
    BY <1>3, Zenon DEF IInv, Types
  <2>2. /\ rx_epoch' \in 0..MaxEpochs /\ tx_epoch <= rx_epoch' + 1 /\ rx_epoch' <= tx_epoch + 1
        /\ accepted' \subseteq accepted
    BY SMTT(30), <1>1, <1>4, Numbers
  <2> QED BY Zenon, <2>1, <2>2, <2>3, <2>4, <1>1, <1>2 DEF IInv, Types
<1>6. Numbering'
  BY Zenon, <1>1, <1>2 DEF IInv, Numbering
<1>7. Behind'
  <2>1. CASE rx_epoch < tx_epoch
    <3>1. UnderWay' = UnderWay /\ rx_epoch' = tx_epoch
      BY SMTT(30), <2>1, <1>1, <1>4 DEF UnderWay
    <3>2. CASE Type = "DRB_AM"
      BY SMTT(30), <2>1, <3>1, <3>2, <1>2, <1>3, <1>4, Numbers DEF IInv, Behind
    <3>3. CASE Type # "DRB_AM"
      BY SMTT(30), <2>1, <3>1, <3>3, <1>2, <1>3, <1>4, Numbers DEF Behind
    <3> QED BY Zenon, <3>2, <3>3
  <2>2. CASE rx_epoch = tx_epoch
    BY SMTT(30), <2>2, <1>1, <1>2, <1>3, <1>4, NotAhead DEF Behind
  <2> QED BY Zenon, <2>1, <2>2, <1>1
<1>8. Complete'
  BY SMTT(30), <1>1, <1>4 DEF Complete
<1>9. RxOrder' /\ Timed' /\ Intact' /\ Clean'
  BY SMTT(30), <1>1, <1>2, <1>3 DEF IInv, RxOrder, Timed, Intact, Clean
<1> QED BY Zenon, <1>5, <1>6, <1>7, <1>8, <1>9 DEF IInv

\* Every step keeps the invariant.
LEMMA StepKeeps ==
  ASSUME IInv, ~Early, [Next]_vars
  PROVE  IInv'
<1>1. CASE UNCHANGED vars
  BY ZenonT(60), <1>1 DEF vars, tx_vars, rlc_vars, rx_vars, rx_counts, IInv, Types, Numbering, Behind,
              Complete, NothingLost, UnderWay, RxOrder, Timed, Intact, Clean
<1>2. CASE Next
  BY Zenon, <1>2, RlcDeliverKeeps, ExpireKeeps, ProcessSduKeeps, SenderKeeps, OthersKeep,
     SuspendRxKeeps, ReestablishTxKeeps, ReestablishRxKeeps DEF Next
<1> QED BY SMTT(30), <1>1, <1>2

\* What the runs check follows from the invariant.
LEMMA InvImplies ==
  ASSUME IInv
  PROVE  RxOrder /\ HeldIsTimed /\ NotGarbled /\ RlcKeepsWindow /\ SuspendedIsClean
<1>1. HeldIsTimed
  <2>1. ASSUME NEW e \in rx_list PROVE t_reordering
    <3>1. rx_deliv < rx_next
      BY Numbers DEF IInv, RxOrder, Types
    <3> QED BY Zenon, <3>1 DEF IInv, Timed
  <2> QED BY Zenon, <2>1 DEF HeldIsTimed
<1>2. NotGarbled
  BY Zenon, CountFound DEF NotGarbled, IInv, Intact
<1>3. RxOrder /\ SuspendedIsClean
  BY Zenon DEF IInv, Clean, SuspendedIsClean
<1> QED BY Zenon, <1>1, <1>2, <1>3, WindowKept

-----------------------------------------------------------------------------
(* The theorems                                                            *)

\* IInv is an invariant, with PDUs received only once the clock has started.
THEOREM Invariance ==
  ASSUME ~Early
  PROVE  Spec => []IInv
<1>1. Init => IInv
  BY Zenon, InitHolds
<1>2. IInv /\ [Next]_vars => IInv'
  BY Zenon, StepKeeps
<1> QED BY <1>1, <1>2, PTL DEF Spec

\* recv_pdu, check_t_reordering and the resets keep rx_deliv, rx_reord, rx_next
\* and rx_list consistent, for all SN sizes, types and re-establishments.
THEOREM MarkersInOrder ==
  ASSUME ~Early
  PROVE  Spec => []RxOrder
<1>1. IInv => RxOrder
  BY Zenon, InvImplies
<1> QED BY <1>1, Invariance, PTL

\* The receiver finds the COUNT of every PDU from its SN, and with a lossless
\* RLC below the window of RLC is all it needs for that.
THEOREM CountsFound ==
  ASSUME ~Early
  PROVE  Spec => [](NotGarbled /\ RlcKeepsWindow)
<1>1. IInv => NotGarbled /\ RlcKeepsWindow
  BY Zenon, InvImplies
<1> QED BY <1>1, Invariance, PTL

\* t_reordering runs as long as SDUs are held back.
THEOREM TimerGuardsList ==
  ASSUME ~Early
  PROVE  Spec => []HeldIsTimed
<1>1. IInv => HeldIsTimed
  BY Zenon, InvImplies
<1> QED BY <1>1, Invariance, PTL

\* suspend_entity leaves no SDU and no timer behind, although it delivers the
\* list only when t_reordering is running.
THEOREM SuspensionClean ==
  ASSUME ~Early
  PROVE  Spec => []SuspendedIsClean
<1>1. IInv => SuspendedIsClean
  BY Zenon, InvImplies
<1> QED BY <1>1, Invariance, PTL

-----------------------------------------------------------------------------
(* Delivery of a part of the list                                          *)

\* Entries with different COUNTs, sorted by them: the i-th is the one with i - 1
\* entries before it.
LEMMA Sorted ==
  ASSUME NEW S, IsFiniteSet(S), \A e \in S : e.count \in Nat /\ e.sdu \in Nat,
         \A e, f \in S : e.count = f.count => e = f
  PROVE  LET before(e) == {f \in S : f.count < e.count \/ (f.count = e.count /\ f.sdu < e.sdu)}
             nth(i) == CHOOSE e \in S : Cardinality(before(e)) = i - 1
         IN  /\ \A i \in 1..Cardinality(S) : nth(i) \in S
             /\ \A i, j \in 1..Cardinality(S) : i < j => nth(i).count < nth(j).count
<1> DEFINE before(e) == {f \in S : f.count < e.count \/ (f.count = e.count /\ f.sdu < e.sdu)}
           nth(i) == CHOOSE e \in S : Cardinality(before(e)) = i - 1
           n == Cardinality(S)
           rank == [e \in S |-> Cardinality(before(e))]
<1>1. n \in Nat
  BY Zenon, FS_CardinalityType
<1>2. \A e \in S : before(e) \in SUBSET S /\ before(e) = {f \in S : f.count < e.count}
  OBVIOUS
<1> HIDE DEF before
<1>3. \A e \in S : IsFiniteSet(before(e)) /\ Cardinality(before(e)) \in Nat
  BY Zenon, <1>2, FS_Subset, FS_CardinalityType
<1>4. ASSUME NEW e \in S PROVE Cardinality(before(e)) < n
  <2>1. before(e) # S
    BY SMTT(30), <1>2
  <2> QED BY SMTT(30), <2>1, <1>1, <1>2, <1>3, FS_Subset
<1>5. ASSUME NEW e \in S, NEW f \in S, e.count < f.count
      PROVE  Cardinality(before(e)) < Cardinality(before(f))
  <2>1. before(e) \in SUBSET before(f) /\ before(e) # before(f)
    BY <1>2, <1>5
  <2> QED BY SMTT(30), <2>1, <1>3, FS_Subset
<1>6. rank \in Injection(S, 0..(n - 1))
  <2>1. rank \in [S -> 0..(n - 1)]
    BY SMTT(30), <1>1, <1>3, <1>4
  <2>2. ASSUME NEW e \in S, NEW f \in S, rank[e] = rank[f] PROVE e = f
    <3>1. ~(e.count < f.count) /\ ~(f.count < e.count)
      BY SMTT(30), <2>2, <1>3, <1>5
    <3> QED BY SMTT(30), <3>1
  <2> QED BY Zenon, <2>1, <2>2 DEF Injection, IsInjective
<1>7. rank \in Surjection(S, 0..(n - 1))
  <2>1. IsFiniteSet(0..(n - 1)) /\ Cardinality(0..(n - 1)) = n
    BY SMTT(30), <1>1, FS_Interval
  <2> QED BY Zenon, <2>1, <1>6, FS_Injection
<1>8. ASSUME NEW i \in 1..n PROVE nth(i) \in S /\ Cardinality(before(nth(i))) = i - 1
  <2>1. i - 1 \in 0..(n - 1)
    BY <1>1
  <2>2. \E e \in S : Cardinality(before(e)) = i - 1
    BY ZenonT(60), <2>1, <1>7 DEF Surjection
  <2> QED BY Zenon, <2>2
<1> HIDE DEF nth
<1>9. ASSUME NEW i \in 1..n, NEW j \in 1..n, i < j PROVE nth(i).count < nth(j).count
  <2>1. ~(nth(j).count < nth(i).count) /\ nth(i) # nth(j)
    BY SMTT(30), <1>1, <1>5, <1>8, <1>9
  <2> QED BY SMTT(30), <2>1, <1>8
<1> QED BY ZenonT(60), <1>8, <1>9 DEF nth, before

\* The SDU delivered last, 0 before the first.
Last == IF delivered = <<>> THEN 0 ELSE delivered[Len(delivered)]

\* Entries that can be delivered now: intact, behind what has been delivered,
\* and in the same order by COUNT as by SDU.
Deliverable(S) ==
  /\ IsFiniteSet(S) /\ S \subseteq [count : Nat, sdu : Sdu]
  /\ \A e \in S : e.count = pdu[e.sdu].count /\ Last < e.sdu /\ e.sdu <= submitted
  /\ \A e, f \in S : e.count = f.count => e = f
  /\ \A e, f \in S : e.count < f.count => e.sdu < f.sdu

\* The elements of a concatenation.
LEMMA Joined ==
  ASSUME NEW s \in Seq(Nat), NEW t \in Seq(Nat)
  PROVE  /\ s \o t \in Seq(Nat) /\ Len(s \o t) = Len(s) + Len(t)
         /\ \A i \in 1..Len(s) : (s \o t)[i] = s[i]
         /\ \A i \in (Len(s) + 1)..(Len(s) + Len(t)) : (s \o t)[i] = t[i - Len(s)]
OBVIOUS

\* What the service promises is what deliver_sdu does with such entries.
LEMMA DeliveryInOrder ==
  ASSUME NEW S, Deliverable(S), delivered \in Seq(Nat), delivered' = Delivery(S),
         submitted' = submitted, submitted \in Nat
  PROVE  /\ delivered' \in Seq(Nat)
         /\ delivered' = delivered \/ Service!Deliver
         /\ Last' = Last \/ \E e \in S : Last' = e.sdu
<1> DEFINE before(e) == {f \in S : f.count < e.count \/ (f.count = e.count /\ f.sdu < e.sdu)}
           nth(i) == CHOOSE e \in S : Cardinality(before(e)) = i - 1
           sdu(e) == IF e.count = pdu[e.sdu].count THEN e.sdu ELSE 0
           n == Cardinality(S)
           new == [i \in 1..n |-> sdu(nth(i))]
           m == Len(delivered)
<1>1. n \in Nat /\ m \in Nat
  BY FS_CardinalityType DEF Deliverable
<1>2. delivered' = delivered \o new
  BY Zenon DEF Delivery
<1>3. \A e \in S : e.count \in Nat /\ e.sdu \in Nat /\ sdu(e) = e.sdu
  BY Numbers DEF Deliverable, Sdu
<1>4. /\ \A i \in 1..n : nth(i) \in S
      /\ \A i, j \in 1..n : i < j => nth(i).count < nth(j).count
  <2>1. IsFiniteSet(S) /\ \A e, f \in S : e.count = f.count => e = f
    BY Zenon DEF Deliverable
  <2>2. \A e \in S : e.count \in Nat /\ e.sdu \in Nat
    BY ZenonT(60), <1>3
  <2> QED BY Zenon, <2>1, <2>2, Sorted
<1> HIDE DEF nth, n, before
<1>5. new \in Seq(Nat) /\ Len(new) = n /\ \A i \in 1..n : new[i] = nth(i).sdu
  <2>1. \A i \in 1..n : sdu(nth(i)) = nth(i).sdu /\ nth(i).sdu \in Nat
    BY Zenon, <1>3, <1>4
  <2> HIDE DEF sdu
  <2>2. \A i \in 1..n : new[i] = nth(i).sdu
    BY Zenon, <2>1
  <2>3. new \in [1..n -> Nat]
    BY Zenon, <2>1
  <2>4. new \in Seq(Nat) /\ Len(new) = n
    <3> HIDE DEF new
    <3> QED BY SMTT(30), <1>1, <2>3
  <2> QED BY Zenon, <2>2, <2>4
<1>6. /\ delivered' \in Seq(Nat) /\ Len(delivered') = m + n
      /\ \A i \in 1..m : delivered'[i] = delivered[i]
      /\ \A i \in (m + 1)..(m + n) : delivered'[i] = nth(i - m).sdu
  <2>1. /\ delivered' \in Seq(Nat) /\ Len(delivered') = m + n
        /\ \A i \in 1..m : delivered'[i] = delivered[i]
        /\ \A i \in (m + 1)..(m + n) : delivered'[i] = new[i - m]
    <3> HIDE DEF new
    <3>1. /\ delivered \o new \in Seq(Nat) /\ Len(delivered \o new) = Len(delivered) + Len(new)
          /\ \A i \in 1..Len(delivered) : (delivered \o new)[i] = delivered[i]
          /\ \A i \in (Len(delivered) + 1)..(Len(delivered) + Len(new)) :
               (delivered \o new)[i] = new[i - Len(delivered)]
      BY Zenon, <1>5, Joined
    <3> QED BY Zenon, <3>1, <1>2, <1>5
  <2>2. \A i \in (m + 1)..(m + n) : i - m \in 1..n
    BY <1>1
  <2> HIDE DEF new
  <2> QED BY SMTT(30), <2>1, <2>2, <1>5
<1> HIDE DEF new, m, sdu
<1>7. CASE n = 0
  <2>1. S = {}
    BY Zenon, <1>7, FS_EmptySet DEF n, Deliverable
  <2>2. delivered' = delivered
    BY SMTT(30), <1>5, <1>7, <1>2
  <2> QED BY Zenon, <1>6, <2>2 DEF Last
<1>8. CASE n > 0
  <2>1. Last' = nth(n).sdu
    <3>1. delivered' # <<>> /\ Len(delivered') = m + n /\ m + n \in (m + 1)..(m + n)
      BY SMTT(30), <1>1, <1>6, <1>8
    <3>2. delivered'[m + n] = nth(n).sdu
      BY SMTT(30), <1>1, <1>6, <3>1
    <3> QED BY Zenon, <3>1, <3>2 DEF Last
  <2>2. Len(delivered') > Len(delivered) /\ SubSeq(delivered', 1, Len(delivered)) = delivered
    BY SMTT(30), <1>1, <1>6, <1>8 DEF m
  <2>3. ASSUME NEW i \in (m + 1)..(m + n)
        PROVE  /\ delivered'[i] > (IF i = 1 THEN 0 ELSE delivered'[i - 1])
               /\ delivered'[i] <= submitted
    <3>1. i - m \in 1..n /\ nth(i - m) \in S /\ delivered'[i] = nth(i - m).sdu
      BY SMTT(30), <1>1, <1>4, <1>6
    <3>2. Last < delivered'[i] /\ delivered'[i] <= submitted
      BY Zenon, <3>1 DEF Deliverable
    <3>3. CASE i = m + 1
      <4>1. Last = IF i = 1 THEN 0 ELSE delivered'[i - 1]
        <5>1. CASE m = 0
          BY <3>3, <5>1 DEF Last, m
        <5>2. CASE m # 0
          <6>1. i # 1 /\ i - 1 = m /\ m \in 1..m /\ delivered # <<>>
            BY SMTT(30), <3>3, <5>2, <1>1 DEF m
          <6>2. delivered'[m] = delivered[m]
            BY Zenon, <6>1, <1>6
          <6> QED BY Zenon, <6>1, <6>2 DEF Last, m
        <5> QED BY Zenon, <5>1, <5>2
      <4> QED BY Zenon, <3>1, <3>2, <4>1, <1>1, <1>3
    <3>4. CASE i # m + 1
      <4>1. i - 1 \in (m + 1)..(m + n) /\ i - 1 - m \in 1..n /\ i - 1 - m < i - m /\ i # 1
        BY SMTT(30), <3>4, <1>1
      <4>2. delivered'[i - 1] = nth(i - 1 - m).sdu
        BY Zenon, <4>1, <1>6
      <4>3. nth(i - 1 - m).count < nth(i - m).count /\ nth(i - 1 - m) \in S
        BY Zenon, <4>1, <3>1, <1>4
      <4>4. nth(i - 1 - m).sdu < nth(i - m).sdu
        BY Zenon, <4>3, <3>1 DEF Deliverable
      <4> QED BY ZenonT(60), <4>1, <4>2, <4>3, <4>4, <3>1, <3>2, <1>3
    <3> QED BY Zenon, <3>3, <3>4
  <2>4. Service!Deliver
    BY Zenon, <2>2, <2>3, <1>6 DEF Service!Deliver, m
  <2> QED BY SMTT(30), <2>1, <2>4, <1>1, <1>4, <1>6, <1>8
<1> QED BY SMTT(30), <1>1, <1>7, <1>8

-----------------------------------------------------------------------------
(* The inductive invariant                                                 *)

\* The order of SDU d and of an entry is that of their COUNTs.
Fits(d, e) == /\ pdu[d].count < e.count => d < e.sdu
              /\ e.count < pdu[d].count => e.sdu < d

\* What is held and what the receiver may still get lies behind what has been
\* delivered, and COUNTs order it as the SDUs were submitted.  While the sender
\* is one re-establishment ahead, all that is under way comes after all that is
\* held.
Ordered ==
  /\ delivered \in Seq(Nat) /\ Last <= submitted
  /\ \A e \in rx_list : Last < e.sdu
  /\ \A e, f \in rx_list : e.count < f.count => e.sdu < f.sdu
  /\ tx_epoch > rx_epoch => \A d \in accepted : Last < d /\ \A e \in rx_list : e.sdu < d
  /\ tx_epoch = rx_epoch /\ rx_state = "active" =>
       \A d \in UnderWay : /\ rx_deliv <= pdu[d].count => Last < d
                           /\ \A e \in rx_list : Fits(d, e)

\* The last SDU delivered is a number.
LEMMA LastNat ==
  ASSUME delivered \in Seq(Nat)
  PROVE  Last \in Nat
BY DEF Last

\* With one entry per COUNT there are finitely many.
LEMMA HeldFinite ==
  ASSUME IInv
  PROVE  IsFiniteSet(rx_list)
<1> DEFINE count == [e \in rx_list |-> e.count]
<1>1. rx_list \subseteq [count : Nat, sdu : Sdu] /\ rx_next \in Nat
  BY Numbers DEF IInv, Types
<1>2. count \in Injection(rx_list, 0..rx_next)
  <2>1. count \in [rx_list -> 0..rx_next]
    BY <1>1 DEF IInv, RxOrder
  <2>2. \A e, f \in rx_list : count[e] = count[f] => e = f
    BY Zenon DEF IInv, RxOrder
  <2> QED BY Zenon, <2>1, <2>2 DEF Injection, IsInjective
<1>3. IsFiniteSet(0..rx_next)
  BY <1>1, FS_Interval
<1> QED BY Zenon, <1>2, <1>3, FS_Injection

\* What is held can be delivered.
LEMMA HeldDeliverable ==
  ASSUME IInv, Ordered
  PROVE  Deliverable(rx_list)
BY Zenon, HeldFinite DEF Deliverable, IInv, Types, RxOrder, Intact, Ordered

\* So can any part of what can be.
LEMMA PartDeliverable ==
  ASSUME NEW S, Deliverable(S), NEW T \in SUBSET S
  PROVE  Deliverable(T)
<1>1. IsFiniteSet(T)
  BY Zenon, FS_Subset DEF Deliverable
<1> QED BY Zenon, <1>1 DEF Deliverable

\* After the delivery of the first entries the others are still behind it.
LEMMA Delivering ==
  ASSUME NEW list, Deliverable(list), NEW out \in SUBSET list,
         \A e \in out, f \in list \ out : e.count < f.count,
         delivered \in Seq(Nat), delivered' = Delivery(out),
         submitted' = submitted, submitted \in Nat, Last <= submitted
  PROVE  /\ delivered' \in Seq(Nat) /\ (delivered' = delivered \/ Service!Deliver)
         /\ Last' <= submitted
         /\ \A f \in list \ out : Last' < f.sdu
         /\ Last' = Last \/ \E e \in out : Last' = e.sdu
<1>1. Deliverable(out)
  BY Zenon, PartDeliverable
<1>2. /\ delivered' \in Seq(Nat) /\ (delivered' = delivered \/ Service!Deliver)
      /\ Last' = Last \/ \E e \in out : Last' = e.sdu
  BY Zenon, <1>1, DeliveryInOrder
<1> QED BY <1>2 DEF Deliverable

-----------------------------------------------------------------------------
(* Every step keeps the order                                              *)

\* A step of the service, or none.
ServiceStep == Service!Next \/ UNCHANGED <<submitted, delivered>>

\* A new SDU comes after all others.
LEMMA ProcessSduOrdered ==
  ASSUME IInv, Ordered, ProcessSdu
  PROVE  Ordered' /\ ServiceStep
<1> DEFINE d == submitted + 1
<1>1. /\ d \in Sdu /\ tx_state = "active" /\ submitted' = d
      /\ accepted' = accepted \cup {d} /\ rlc_delivered' = rlc_delivered
      /\ tx_epoch' = tx_epoch /\ rx_deliv' = rx_deliv /\ rx_list' = rx_list
      /\ delivered' = delivered /\ rx_state' = rx_state /\ rx_epoch' = rx_epoch
  BY Zenon DEF ProcessSdu, Rlc!Accept, rx_vars, rx_counts
<1>2. /\ pdu'[d].count = tx_next /\ \A e \in accepted : e # d /\ e \in Sdu /\ pdu'[e] = pdu[e]
  <2>1. d \notin accepted
    BY Zenon DEF ProcessSdu, Rlc!Accept
  <2> QED BY Zenon, <1>1, <2>1, AcceptedSdu DEF ProcessSdu, IInv, Types
<1>3. /\ submitted \in Nat /\ Last \in Nat /\ Last <= submitted /\ Last' = Last
      /\ tx_next \in Nat /\ rx_next \in Nat /\ tx_epoch \in Nat /\ rx_epoch \in Nat
      /\ \A e \in rx_list : e.sdu \in Nat /\ e.sdu <= submitted /\ e.count \in Nat /\ e.count < rx_next
  <2>1. Last \in Nat /\ Last' = Last
    BY Zenon, <1>1, LastNat DEF Ordered, Last
  <2> QED BY SMTT(30), <2>1, Numbers DEF IInv, Types, Sdu, RxOrder, Ordered
<1>4. tx_epoch = rx_epoch => rx_next <= tx_next
  BY Zenon, <1>1 DEF IInv, Behind
<1>5. UnderWay' \subseteq UnderWay \cup {d} /\ UnderWay \subseteq accepted
  BY Zenon, <1>1 DEF UnderWay
<1>6. ASSUME tx_epoch = rx_epoch, rx_state = "active", NEW x \in UnderWay'
      PROVE  /\ rx_deliv <= pdu'[x].count => Last < x
             /\ \A e \in rx_list : Fits(x, e)'
  <2>1. CASE x = d
    BY SMTT(30), <2>1, <1>2, <1>3, <1>4, <1>6 DEF Fits
  <2>2. CASE x # d
    <3>1. x \in UnderWay /\ pdu'[x] = pdu[x]
      BY ZenonT(60), <2>2, <1>2, <1>5
    <3> QED BY Zenon, <3>1, <1>6 DEF Ordered, Fits
  <2> QED BY Zenon, <2>1, <2>2
<1>7. ASSUME tx_epoch > rx_epoch, NEW x \in accepted'
      PROVE  Last < x /\ \A e \in rx_list : e.sdu < x
  BY SMTT(30), <1>1, <1>3, <1>7 DEF Ordered
<1>8. Ordered'
  BY SMTT(30), <1>1, <1>3, <1>6, <1>7 DEF Ordered
<1> QED BY Zenon, <1>1, <1>8 DEF ServiceStep, Service!Next, Service!Submit

\* Steps that deliver nothing and make no PDU
LEMMA QuietOrdered ==
  ASSUME IInv, Ordered,
         \/ RefuseSdu \/ SuspendTx \/ ReleaseTx \/ FirstTick \/ Reconfigure
         \/ \E d \in Sdu : RlcLose(d)
  PROVE  Ordered' /\ ServiceStep
<1>1. /\ tx_epoch' = tx_epoch /\ pdu' = pdu /\ accepted' \subseteq accepted
      /\ rlc_delivered' = rlc_delivered /\ rx_deliv' = rx_deliv /\ rx_list' = rx_list
      /\ delivered' = delivered /\ rx_state' = rx_state /\ rx_epoch' = rx_epoch
      /\ submitted' = submitted \/ Service!Submit
  BY ZenonT(60) DEF RefuseSdu, SuspendTx, ReleaseTx, FirstTick, Reconfigure, RlcLose, Rlc!Discard,
         tx_vars, rlc_vars, rx_vars, rx_counts, Service!Submit
<1>2. Last \in Nat /\ Last' = Last /\ submitted \in Nat /\ Last' <= submitted'
  <2>1. Last \in Nat /\ Last' = Last /\ submitted \in Nat
    BY SMTT(30), <1>1, LastNat, Numbers DEF Ordered, Last, IInv, Types
  <2> QED BY SMTT(30), <2>1, <1>1 DEF Ordered, Service!Submit
<1>3. UnderWay' \subseteq UnderWay
  BY Zenon, <1>1 DEF UnderWay
<1>4. Ordered'
  BY Zenon, <1>1, <1>2, <1>3 DEF Ordered, Fits
<1> QED BY Zenon, <1>1, <1>4 DEF ServiceStep, Service!Next

\* The sender is re-established: RLC has nothing left.
LEMMA ReestablishTxOrdered ==
  ASSUME IInv, Ordered, ReestablishTx
  PROVE  Ordered' /\ ServiceStep
<1>1. /\ accepted' = {} /\ submitted' = submitted /\ rx_list' = rx_list
      /\ delivered' = delivered
  BY Zenon DEF ReestablishTx, Rlc!Reset, rx_vars, rx_counts
<1>2. UnderWay' = {} /\ Last' = Last
  BY Zenon, <1>1 DEF UnderWay, Last
<1>3. Ordered'
  BY Zenon, <1>1, <1>2 DEF Ordered
<1> QED BY Zenon, <1>1, <1>3 DEF ServiceStep

\* The list is emptied, with or without a delivery, by a receiver that gets
\* nothing of what is under way in this incarnation any more.
LEMMA EmptiedOrdered ==
  ASSUME IInv, Ordered, rx_list' = {},
         delivered' = delivered \/ delivered' = Delivery(rx_list),
         submitted' = submitted, tx_epoch' = tx_epoch, pdu' = pdu,
         accepted' \subseteq accepted, rlc_delivered' = rlc_delivered,
         \/ rx_epoch' = rx_epoch /\ rx_state' # "active"
         \/ rx_epoch' = rx_epoch + 1 /\ (tx_epoch = rx_epoch => accepted' = {})
  PROVE  Ordered' /\ ServiceStep
<1>1. /\ submitted \in Nat /\ tx_epoch \in Nat /\ rx_epoch \in Nat
      /\ Last \in Nat /\ Last <= submitted /\ delivered \in Seq(Nat)
      /\ UnderWay' \subseteq accepted'
  BY SMTT(30), Numbers, LastNat DEF IInv, Types, Ordered, UnderWay
<1>2. /\ delivered' \in Seq(Nat) /\ (delivered' = delivered \/ Service!Deliver)
      /\ Last' <= submitted
      /\ Last' = Last \/ \E e \in rx_list : Last' = e.sdu
  <2>1. CASE delivered' = delivered
    BY Zenon, <2>1, <1>1 DEF Last
  <2>2. CASE delivered' = Delivery(rx_list)
    <3>1. Deliverable(rx_list) /\ rx_list \in SUBSET rx_list /\ rx_list \ rx_list = {}
      BY Zenon, HeldDeliverable
    <3> QED BY Zenon, <3>1, <2>2, <1>1, Delivering
  <2> QED BY Zenon, <2>1, <2>2
<1>3. tx_epoch > rx_epoch => \A x \in accepted' : Last' < x
  BY Zenon, <1>2 DEF Ordered
<1>4. tx_epoch > rx_epoch' => tx_epoch > rx_epoch
  BY SMTT(30), <1>1
<1>5. ASSUME tx_epoch = rx_epoch', rx_state' = "active", NEW x \in UnderWay'
      PROVE  Last' < x
  BY SMTT(30), <1>1, <1>3, <1>5
<1>6. Ordered'
  BY Zenon, <1>2, <1>3, <1>4, <1>5 DEF Ordered
<1> QED BY ZenonT(60), <1>2, <1>6 DEF ServiceStep, Service!Next

\* Suspension and release of the receiver
LEMMA SuspendRxOrdered ==
  ASSUME IInv, Ordered, SuspendRx \/ ReleaseRx
  PROVE  Ordered' /\ ServiceStep
<1>1. /\ submitted' = submitted /\ tx_epoch' = tx_epoch /\ pdu' = pdu
      /\ accepted' = accepted /\ rlc_delivered' = rlc_delivered
      /\ rx_epoch' = rx_epoch /\ rx_state' # "active"
  BY Zenon DEF SuspendRx, ReleaseRx, tx_vars, rlc_vars
<1>2. rx_list' = {} /\ (delivered' = delivered \/ delivered' = Delivery(rx_list))
  BY ZenonT(60), FlushEmpties DEF SuspendRx, ReleaseRx, Flush
<1> QED BY Zenon, <1>1, <1>2, EmptiedOrdered

\* Re-establishment of the receiver: a DRB_AM keeps its list, and all that is
\* under way has a COUNT above those in it.
LEMMA ReestablishRxOrdered ==
  ASSUME IInv, Ordered, ReestablishRx
  PROVE  Ordered' /\ ServiceStep
<1>1. /\ submitted' = submitted /\ tx_epoch' = tx_epoch /\ pdu' = pdu
      /\ rlc_delivered' = rlc_delivered /\ rx_epoch' = rx_epoch + 1
      /\ accepted' = IF tx_epoch = rx_epoch THEN {} ELSE accepted
      /\ rx_epoch < tx_epoch \/ rx_epoch = tx_epoch
      /\ rx_epoch \in Nat /\ tx_epoch \in Nat /\ tx_epoch <= rx_epoch + 1
  BY Numbers DEF ReestablishRx, MayReestablish, Rlc!Reset, tx_vars, rlc_vars, IInv, Types
<1>2. CASE Type # "DRB_AM"
  <2>1. rx_list' = {} /\ (delivered' = delivered \/ delivered' = Delivery(rx_list))
    BY ZenonT(60), <1>2, FlushEmpties DEF ReestablishRx, ResetRx, Flush
  <2> QED BY Zenon, <2>1, <1>1, EmptiedOrdered
<1>3. CASE Type = "DRB_AM"
  <2>1. rx_list' = rx_list /\ delivered' = delivered /\ rx_deliv' = rx_deliv
    BY Zenon, <1>3 DEF ReestablishRx, ResetRx, rx_counts
  <2>2. Last' = Last
    BY Zenon, <2>1 DEF Last
  <2>3. CASE tx_epoch = rx_epoch
    <3>1. accepted' = {} /\ UnderWay' = {}
      BY Zenon, <2>3, <1>1 DEF UnderWay
    <3> QED BY Zenon, <3>1, <2>1, <2>2, <1>1 DEF Ordered, ServiceStep
  <2>4. CASE rx_epoch < tx_epoch
    <3>1. rx_epoch' = tx_epoch' /\ accepted' = accepted /\ UnderWay' \subseteq accepted
      BY SMTT(30), <2>4, <1>1 DEF UnderWay
    <3>2. ASSUME NEW x \in accepted, NEW e \in rx_list
          PROVE  e.count < pdu[x].count /\ e.sdu < x
      <4>1. rx_next <= pdu[x].count /\ e.sdu < x
        BY ZenonT(60), <1>3, <2>4 DEF IInv, Behind, Ordered
      <4>2. e.count < rx_next /\ e.count \in Nat /\ rx_next \in Nat /\ pdu[x].count \in Nat
        BY SMTT(30), AcceptedSdu, Numbers DEF IInv, RxOrder, Types
      <4> QED BY SMTT(30), <4>1, <4>2
    <3>3. \A x \in accepted : Last < x /\ \A e \in rx_list : Fits(x, e)
      <4>1. \A e \in rx_list : e.count \in Nat
        BY Zenon DEF IInv, Types
      <4>2. \A x \in accepted : pdu[x].count \in Nat
        BY Zenon, AcceptedSdu DEF IInv, Types
      <4> QED BY SMTT(30), <3>2, <4>1, <4>2, <2>4, <1>1 DEF Fits, Ordered
    <3>4. Ordered'
      BY Zenon, <3>1, <3>3, <2>1, <2>2, <1>1 DEF Ordered, Fits
    <3> QED BY Zenon, <3>4, <2>1, <1>1 DEF ServiceStep
  <2> QED BY Zenon, <2>3, <2>4, <1>1
<1> QED BY ZenonT(60), <1>2, <1>3

\* Entries of "list" below rx_deliv' are delivered, the others stay, and what is
\* under way fits in between.
LEMMA DeliveredOrdered ==
  ASSUME IInv, IInv', Ordered, NEW list, Deliverable(list), NEW out \in SUBSET list,
         rx_list' = list \ out, delivered' = Delivery(out), \A e \in out : e.count < rx_deliv',
         submitted' = submitted, pdu' = pdu, rx_deliv <= rx_deliv',
         UnderWay' \subseteq UnderWay, accepted' = accepted,
         tx_epoch' = tx_epoch, rx_epoch' = rx_epoch,
         tx_epoch = rx_epoch /\ rx_state' = "active" =>
           rx_state = "active" /\ \A x \in UnderWay' : \A e \in list : Fits(x, e),
         tx_epoch > rx_epoch => \A x \in accepted : \A e \in list : e.sdu < x
  PROVE  Ordered' /\ ServiceStep
<1>1. /\ submitted \in Nat /\ tx_epoch \in Nat /\ rx_epoch \in Nat
      /\ Last \in Nat /\ Last <= submitted /\ delivered \in Seq(Nat)
      /\ rx_deliv \in Nat /\ rx_deliv' \in Nat
      /\ \A x \in UnderWay : x \in accepted /\ pdu[x].count \in Nat
      /\ \A e \in list : e.count \in Nat
  BY SMTT(30), Numbers, LastNat, AcceptedSdu DEF IInv, Types, Ordered, UnderWay, Deliverable
<1>2. \A e \in out, f \in list \ out : e.count < f.count
  <2>1. \A f \in list \ out : rx_deliv' < f.count
    BY Zenon DEF IInv, RxOrder
  <2>2. ASSUME NEW e \in out, NEW f \in list \ out PROVE e.count < f.count
    <3>1. e.count \in Nat /\ f.count \in Nat /\ rx_deliv' \in Nat
      BY Zenon, <1>1
    <3>2. e.count < rx_deliv' /\ rx_deliv' < f.count
      BY Zenon, <2>1
    <3> QED BY SMTT(30), <3>1, <3>2
  <2> QED BY Zenon, <2>2
<1>3. /\ delivered' \in Seq(Nat) /\ (delivered' = delivered \/ Service!Deliver)
      /\ Last' <= submitted
      /\ \A f \in list \ out : Last' < f.sdu
      /\ Last' = Last \/ \E e \in out : Last' = e.sdu
  BY Zenon, <1>1, <1>2, Delivering
<1>4. ASSUME tx_epoch = rx_epoch, rx_state' = "active", NEW x \in UnderWay',
             rx_deliv' <= pdu[x].count
      PROVE  Last' < x
  <2>1. Last < x /\ \A e \in out : Fits(x, e) /\ e.count < pdu[x].count
    <3>1. x \in UnderWay /\ rx_state = "active" /\ \A e \in list : Fits(x, e)
      BY Zenon, <1>4
    <3>2. pdu[x].count \in Nat /\ rx_deliv \in Nat /\ rx_deliv' \in Nat
      BY ZenonT(60), <1>1, <3>1
    <3>3. rx_deliv <= pdu[x].count
      BY SMTT(30), <1>4, <3>2
    <3>4. Last < x
      BY ZenonT(60), <1>4, <3>1, <3>3 DEF Ordered
    <3>5. ASSUME NEW e \in out PROVE e.count < pdu[x].count
      <4>1. e.count \in Nat /\ e.count < rx_deliv'
        BY Zenon, <1>1
      <4> QED BY SMTT(30), <1>4, <3>2, <4>1
    <3> QED BY Zenon, <3>1, <3>4, <3>5
  <2> QED BY Zenon, <2>1, <1>3 DEF Fits
<1>5. ASSUME tx_epoch > rx_epoch, NEW x \in accepted PROVE Last' < x
  BY Zenon, <1>3, <1>5 DEF Ordered
<1>6. \A e, f \in rx_list' : e.count < f.count => e.sdu < f.sdu
  BY Zenon DEF Deliverable
<1>7. Ordered'
  <2>1. delivered' \in Seq(Nat) /\ Last' <= submitted'
    BY Zenon, <1>3
  <2>2. \A e \in rx_list' : Last' < e.sdu
    BY Zenon, <1>3
  <2>3. tx_epoch' > rx_epoch' => \A x \in accepted' : Last' < x /\ \A e \in rx_list' : e.sdu < x
    BY Zenon, <1>5
  <2>4. tx_epoch' = rx_epoch' /\ rx_state' = "active" =>
          \A x \in UnderWay' : /\ rx_deliv' <= pdu'[x].count => Last' < x
                                /\ \A e \in rx_list' : Fits(x, e)
    BY Zenon, <1>4
  <2>5. \A x, e : Fits(x, e) => Fits(x, e)'
    BY Zenon DEF Fits
  <2> QED BY ZenonT(60), <2>1, <2>2, <2>3, <2>4, <2>5, <1>6 DEF Ordered
<1> QED BY ZenonT(60), <1>3, <1>7 DEF ServiceStep, Service!Next

\* t_reordering expires.
LEMMA ExpireOrdered ==
  ASSUME IInv, IInv', Ordered, Expire
  PROVE  Ordered' /\ ServiceStep
<1> DEFINE deliv == RunEnd(rx_list, rx_reord)
           out   == {e \in rx_list : e.count < deliv}
<1>1. /\ rx_deliv' = deliv /\ rx_list' = rx_list \ out /\ delivered' = Delivery(out)
      /\ rx_state' = rx_state /\ rx_epoch' = rx_epoch /\ t_reordering
      /\ submitted' = submitted /\ tx_epoch' = tx_epoch /\ pdu' = pdu
      /\ accepted' = accepted /\ rlc_delivered' = rlc_delivered
  BY ZenonT(60) DEF Expire, tx_vars, rlc_vars
<1>2. rx_deliv <= deliv
  <2>1. /\ rx_deliv \in Nat /\ rx_reord \in Nat /\ rx_deliv < rx_reord
        /\ rx_reord <= CountModulus /\ ~InList(rx_list, CountModulus)
    BY SMTT(30), <1>1, Numbers DEF IInv, Types, RxOrder, InList
  <2>2. deliv \in rx_reord..CountModulus
    BY Zenon, <2>1, RunEndIs
  <2> QED BY SMTT(30), <2>1, <2>2, Numbers
<1> HIDE DEF deliv
<1>3. UnderWay' = UnderWay /\ out \in SUBSET rx_list /\ Deliverable(rx_list)
  BY Zenon, <1>1, HeldDeliverable DEF UnderWay
<1>4. \A e \in out : e.count < rx_deliv'
  BY Zenon, <1>1
<1> HIDE DEF out
<1> QED BY Zenon, <1>1, <1>2, <1>3, <1>4, DeliveredOrdered DEF Ordered

\* A PDU delivered by RLC
LEMMA RlcDeliverOrdered ==
  ASSUME IInv, IInv', Ordered, ~Early, NEW d \in Sdu, RlcDeliver(d)
  PROVE  Ordered' /\ ServiceStep
<1> DEFINE c == pdu[d].count
           new == [count |-> c, sdu |-> d]
           list == rx_list \cup {new}
<1>1. /\ pdu[d].epoch = rx_epoch /\ ticked /\ InReach(d) /\ d \in UnderWay /\ d \in accepted
      /\ accepted' = accepted /\ rlc_delivered' = [rlc_delivered EXCEPT ![d] = 1]
      /\ submitted' = submitted /\ tx_epoch' = tx_epoch /\ pdu' = pdu
      /\ rx_state' = rx_state /\ rx_epoch' = rx_epoch
  BY ZenonT(60) DEF RlcDeliver, Rlc!Deliver, UnderWay, tx_vars
<1>2. /\ d \in Nat /\ d <= submitted /\ d <= N /\ c \in Nat /\ c < d /\ tx_epoch = rx_epoch
  BY SMTT(30), <1>1, AcceptedSdu, Numbers DEF IInv, Types, Numbering, Sdu
<1>3. UnderWay' \subseteq UnderWay
  BY SMTT(30), <1>1, AcceptedSdu DEF UnderWay, IInv, Types
<1>4. CASE UNCHANGED rx_counts
  <2>1. rx_deliv' = rx_deliv /\ rx_list' = rx_list /\ delivered' = delivered /\ Last' = Last
    BY SMTT(30), <1>4 DEF rx_counts, Last
  <2> QED BY Zenon, <2>1, <1>1, <1>3 DEF Ordered, Fits, ServiceStep
<1>5. CASE rx_state = "active" /\ rx_deliv <= c /\ ~InList(rx_list, c) /\ TakeIn(d, c)
  <2>1. /\ rx_deliv <= rx_deliv'
        /\ \E out \in SUBSET list : /\ rx_list' = list \ out /\ delivered' = Delivery(out)
                                   /\ \A e \in out : e.count < rx_deliv'
    <3>1. c + 1 <= N
      BY SMTT(30), <1>2, Numbers
    <3> HIDE DEF c
    <3> QED BY ZenonT(60), <3>1, <1>1, <1>2, <1>5, TakeInEffect DEF new
  <2>2. PICK out \in SUBSET list : /\ rx_list' = list \ out /\ delivered' = Delivery(out)
                                  /\ \A e \in out : e.count < rx_deliv'
    BY ZenonT(60), <2>1
  <2>3. new \in [count : Nat, sdu : Sdu] /\ new.count = c /\ new.sdu = d
    BY SMTT(30), <1>2
  <2>4. Last < d /\ \A e \in rx_list : Fits(d, e) /\ e.count # c
    BY Zenon, <1>1, <1>2, <1>5 DEF Ordered, InList
  <2> HIDE DEF new
  <2>5. Deliverable(list)
    <3>1. Deliverable(rx_list)
      BY Zenon, HeldDeliverable
    <3>2. IsFiniteSet(list)
      BY Zenon, <3>1, FS_AddElement DEF Deliverable
    <3>3. /\ list \subseteq [count : Nat, sdu : Sdu]
          /\ \A e \in list : e.count = pdu[e.sdu].count /\ Last < e.sdu /\ e.sdu <= submitted
          /\ \A e, f \in list : e.count = f.count => e = f
      BY Zenon, <3>1, <2>3, <2>4, <1>2 DEF Deliverable
    <3>4. ASSUME NEW e \in list, NEW f \in list, e.count < f.count PROVE e.sdu < f.sdu
      <4>1. ~(c < c)
        BY SMTT(30), <1>2
      <4> QED BY ZenonT(60), <3>1, <3>4, <4>1, <2>3, <2>4 DEF Deliverable, Fits
    <3> QED BY Zenon, <3>2, <3>3, <3>4 DEF Deliverable
  <2>6. ASSUME NEW x \in UnderWay', NEW e \in list PROVE Fits(x, e)
    <3>1. CASE e \in rx_list
      <4>1. x \in UnderWay
        BY ZenonT(60), <1>3
      <4> QED BY Zenon, <4>1, <3>1, <1>2, <1>5 DEF Ordered
    <3>2. CASE e = new
      <4>1. x \in accepted /\ x \in Nat /\ pdu[x].count \in Nat /\ d - c = x - pdu[x].count
        <5>1. x \in accepted /\ d \in accepted
          BY Zenon, <1>1, <1>3 DEF UnderWay
        <5>2. x \in Sdu /\ x \in Nat
          BY ZenonT(60), <5>1, AcceptedSdu DEF IInv
        <5>3. pdu[x].count \in Nat
          BY SMTT(30), <5>2 DEF IInv, Types
        <5> QED BY Zenon, <5>1, <5>2, <5>3 DEF IInv, Numbering
      <4> QED BY SMTT(30), <4>1, <3>2, <2>3, <1>2 DEF Fits
    <3> QED BY SMTT(30), <3>1, <3>2
  <2> HIDE DEF list
  <2>7. ~(tx_epoch > rx_epoch)
    BY SMTT(30), <1>2, Numbers DEF IInv, Types
  <2>8. rx_deliv <= rx_deliv'
    BY Zenon, <2>1
  <2>9. /\ tx_epoch = rx_epoch /\ rx_state' = "active" =>
            rx_state = "active" /\ \A x \in UnderWay' : \A e \in list : Fits(x, e)
        /\ tx_epoch > rx_epoch => \A x \in accepted : \A e \in list : e.sdu < x
    BY Zenon, <1>5, <2>6, <2>7
  <2>10. /\ submitted' = submitted /\ pdu' = pdu /\ accepted' = accepted
         /\ tx_epoch' = tx_epoch /\ rx_epoch' = rx_epoch
    BY Zenon, <1>1
  <2> QED BY ZenonT(60), <1>3, <2>2, <2>5, <2>8, <2>9, <2>10, DeliveredOrdered
<1>6. CASE rx_state # "active"
  BY SMTT(30), <1>4, <1>6 DEF RlcDeliver, RecvPdu
<1>7. CASE rx_state = "active"
  <2>1. RcvdCount(pdu[d].sn) = c
    BY SMTT(30), <1>1, <1>7, CountFound
  <2>2. c < rx_deliv \/ rx_deliv <= c
    BY <1>2 DEF IInv, Types
  <2> QED BY SMTT(30), <2>1, <2>2, <1>4, <1>5, <1>7 DEF RlcDeliver, RecvPdu, Discarded
<1> QED BY Zenon, <1>6, <1>7

\* Every step keeps the order, and is a step of the service or none.
LEMMA StepOrdered ==
  ASSUME IInv, IInv', Ordered, ~Early, [Next]_vars
  PROVE  Ordered' /\ ServiceStep
<1>1. CASE UNCHANGED vars
  BY ZenonT(60), <1>1 DEF vars, tx_vars, rlc_vars, rx_vars, rx_counts, Ordered, Last, Fits, UnderWay,
              ServiceStep
<1>2. CASE Next
  BY SMTT(30), <1>2, ProcessSduOrdered, QuietOrdered, ReestablishTxOrdered, SuspendRxOrdered,
     ReestablishRxOrdered, ExpireOrdered, RlcDeliverOrdered DEF Next
<1> QED BY Zenon, <1>1, <1>2

-----------------------------------------------------------------------------

\* The two entities and any RLC between them implement the service of PDCP: SDUs
\* come out in the order they went in, each at most once and none garbled.
THEOREM InOrderDelivery ==
  ASSUME ~Early
  PROVE  Spec => ImplementsService
<1>1. Init => Service!Init /\ Ordered
  BY DEF Init, Service!Init, Ordered, Last, UnderWay, Rlc!Init
<1>2. IInv /\ IInv' /\ Ordered /\ [Next]_vars => Ordered' /\ [Service!Next]_(Service!vars)
  BY Zenon, StepOrdered DEF ServiceStep, Service!vars
<1> QED BY <1>1, <1>2, Invariance, PTL DEF Spec, ImplementsService, Service!Spec

-----------------------------------------------------------------------------
(* Who waits for whom                                                      *)

Room == [start : 0..(Size - 1), length : 0..Size, slot : [0..(Size - 1) -> Item \cup {<<>>}]]

\* There are never more producers waiting than items in the ring: each removal
\* wakes one of them up, and a full ring has at least as many items as there
\* are producers.
QInv ==
  /\ queue \in Room
  /\ waiting \subseteq Producer \cup {Consumer}
  /\ consumer \in {"idle", "busy", "done"}
  /\ put \in [Producer -> 0..PerProducer]
  /\ Cardinality(waiting \cap Producer) <= queue.length
  /\ Consumer \in waiting => consumer = "idle" /\ queue.length = 0
  /\ consumer # "idle" => queue.length > 0

\* Cardinalities of sets of producers
LEMMA Producers ==
  ASSUME NEW S \in SUBSET Producer
  PROVE  /\ IsFiniteSet(S) /\ Cardinality(S) \in Nat /\ Cardinality(S) <= Size
         /\ Cardinality(S) = 0 <=> S = {}
         /\ \A p \in S : Cardinality(S \ {p}) = Cardinality(S) - 1
<1>1. IsFiniteSet(S) /\ Cardinality(S) <= Cardinality(Producer)
  BY SMTT(30), QueueAssumption, FS_Subset
<1>2. Cardinality(S) \in Nat /\ Cardinality(Producer) \in Nat
  BY SMTT(30), <1>1, QueueAssumption, FS_CardinalityType
<1>3. Cardinality(S) = 0 <=> S = {}
  BY SMTT(30), <1>1, FS_EmptySet
<1>4. \A p \in S : Cardinality(S \ {p}) = Cardinality(S) - 1
  BY SMTT(30), <1>1, FS_RemoveElement
<1> QED BY SMTT(30), <1>1, <1>2, <1>3, <1>4, QueueAssumption

\* A signal wakes up a producer if only producers wait.
LEMMA SignalWakes ==
  ASSUME QInv, Signal
  PROVE  /\ waiting' \subseteq waiting
         /\ Cardinality(waiting' \cap Producer) <= Cardinality(waiting \cap Producer)
         /\ (Consumer \notin waiting /\ waiting # {}) =>
              Cardinality(waiting' \cap Producer) = Cardinality(waiting \cap Producer) - 1
         /\ waiting = {Consumer} => waiting' = {}
<1> DEFINE W == waiting \cap Producer
<1>1. W \in SUBSET Producer /\ Cardinality(W) \in Nat
  BY SMTT(30), Producers
<1>2. CASE waiting = {}
  <2>1. waiting' = waiting
    BY <1>2 DEF Signal
  <2>2. Cardinality(waiting' \cap Producer) = Cardinality(W)
    BY <2>1
  <2>3. waiting # {Consumer}
    BY SMTT(30), <1>2
  <2> QED BY SMTT(30), <1>1, <1>2, <2>1, <2>2, <2>3
<1>3. CASE waiting # {}
  <2>1. PICK t \in waiting : waiting' = waiting \ {t}
    BY SMTT(30), <1>3 DEF Signal
  <2>2. CASE t \in Producer
    <3>1. waiting' \cap Producer = W \ {t} /\ t \in W
      BY SMTT(30), <2>1, <2>2
    <3>2. Cardinality(W \ {t}) = Cardinality(W) - 1
      BY ZenonT(30), <3>1, <1>1, Producers
    <3> QED BY SMTT(30), <1>1, <2>1, <2>2, <3>1, <3>2, QueueAssumption
  <2>3. CASE t \notin Producer
    <3>1. t = Consumer /\ waiting' \cap Producer = W
      BY SMTT(30), <2>1, <2>3 DEF QInv
    <3>2. Cardinality(waiting' \cap Producer) = Cardinality(W)
      BY SMTT(30), <3>1
    <3>3. waiting = {Consumer} => waiting' = {}
      BY SMTT(30), <2>1, <3>1
    <3>4. Consumer \in waiting /\ waiting' \subseteq waiting
      BY SMTT(30), <2>1, <3>1
    <3> QED BY SMTT(30), <1>1, <3>2, <3>3, <3>4
  <2> QED BY SMTT(30), <2>2, <2>3
<1> QED BY SMTT(30), <1>2, <1>3

\* A producer that puts an item in, or waits for room.
LEMMA ProduceKeeps ==
  ASSUME QInv, NEW p \in Producer, Produce(p)
  PROVE  QInv'
<1>1. /\ put[p] < PerProducer /\ consumer' = consumer /\ p \notin waiting
      /\ queue.length \in 0..Size /\ put[p] \in 0..PerProducer
  BY SMTT(30) DEF Produce, Put, WaitForRoom, QInv, Room
<1>2. CASE Put(p, <<p, put[p] + 1>>) /\ put' = [put EXCEPT ![p] = @ + 1]
  <2>1. queue' \in Room /\ queue'.length = queue.length + 1
    <3>1. <<p, put[p] + 1>> \in Item
      BY SMTT(30), <1>1, QueueAssumption DEF Item
    <3>2. queue.start \in 0..(Size - 1) /\ (queue.start + queue.length) % Size \in 0..(Size - 1)
      BY SMTT(30), QueueAssumption DEF QInv, Room
    <3>3. queue' = [queue EXCEPT !.slot[(queue.start + queue.length) % Size] = <<p, put[p] + 1>>,
                                 !.length = @ + 1]
      BY <1>2 DEF Put
    <3>4. queue.length < Size
      BY <1>2 DEF Put
    <3>5. queue'.length = queue.length + 1 /\ queue'.start = queue.start
      BY SMTT(30), <3>3 DEF QInv, Room
    <3>6. queue.length + 1 \in 0..Size
      BY SMTT(30), <1>1, <3>4, QueueAssumption
    <3> QED BY ZenonT(30), <3>1, <3>2, <3>3, <3>5, <3>6 DEF QInv, Room
  <2>2. /\ waiting' \subseteq waiting
        /\ Cardinality(waiting' \cap Producer) <= Cardinality(waiting \cap Producer)
        /\ waiting = {Consumer} => waiting' = {}
    BY SMTT(30), <1>2, SignalWakes DEF Put
  <2>3. Consumer \notin waiting'
    <3>1. CASE Consumer \in waiting
      <4>1. Cardinality(waiting \cap Producer) = 0
        BY SMTT(30), <3>1, Producers DEF QInv
      <4>2. waiting \cap Producer = {}
        BY ZenonT(30), <4>1, Producers
      <4> QED BY SMTT(30), <2>2, <3>1, <4>2 DEF QInv
    <3> QED BY SMTT(30), <2>2, <3>1
  <2>4. put' \in [Producer -> 0..PerProducer]
    BY SMTT(30), <1>1, <1>2, QueueAssumption DEF QInv
  <2>5. /\ Cardinality(waiting' \cap Producer) \in Nat /\ Cardinality(waiting \cap Producer) \in Nat
    BY SMTT(30), Producers
  <2>6. Cardinality(waiting' \cap Producer) <= queue'.length /\ queue'.length > 0
    BY SMTT(30), <1>1, <2>1, <2>2, <2>5 DEF QInv
  <2> QED BY SMTT(30), <1>1, <2>1, <2>2, <2>3, <2>4, <2>6 DEF QInv
<1>3. CASE WaitForRoom(p) /\ put' = put
  <2>1. waiting' = waiting \cup {p} /\ queue.length = Size /\ queue' = queue
    BY SMTT(30), <1>3 DEF WaitForRoom
  <2>2. Cardinality(waiting' \cap Producer) <= Size
    BY SMTT(30), Producers
  <2>3. Consumer \notin waiting'
    BY SMTT(30), <2>1, QueueAssumption DEF QInv
  <2> QED BY SMTT(30), <1>1, <1>3, <2>1, <2>2, <2>3 DEF QInv
<1> QED BY SMTT(30), <1>2, <1>3 DEF Produce

\* The consumer's steps: a removal wakes up one of the producers that wait.
LEMMA ConsumeKeeps ==
  ASSUME QInv, Consume
  PROVE  QInv'
<1>1. put' = put /\ queue.length \in 0..Size /\ Size \in Nat
  BY SMTT(30), QueueAssumption DEF Consume, QInv, Room
<1>2. CASE Get
  BY SMTT(30), <1>1, <1>2 DEF Get, QInv
<1>3. CASE WaitForItem
  <2>1. waiting' = waiting \cup {Consumer} /\ queue.length = 0 /\ consumer = "idle"
        /\ queue' = queue /\ consumer' = consumer
    BY SMTT(30), <1>3 DEF WaitForItem
  <2>2. waiting' \cap Producer = waiting \cap Producer
    BY SMTT(30), <2>1, QueueAssumption
  <2>3. Cardinality(waiting' \cap Producer) = Cardinality(waiting \cap Producer)
    BY SMTT(30), <2>2
  <2> QED BY SMTT(30), <1>1, <2>1, <2>3 DEF QInv
<1>4. CASE Hand
  BY SMTT(30), <1>1, <1>4 DEF Hand, QInv
<1>5. CASE Remove
  <2>1. /\ queue.length > 0 /\ consumer' = "idle" /\ Consumer \notin waiting
        /\ queue' = [queue EXCEPT !.length = @ - 1, !.start = (@ + 1) % Size]
    BY <1>5 DEF Remove, QInv
  <2>2. queue' \in Room /\ queue'.length = queue.length - 1
    <3>1. (queue.start + 1) % Size \in 0..(Size - 1)
      BY QueueAssumption DEF QInv, Room
    <3>2. queue.length - 1 \in 0..Size
      BY SMTT(30), <1>1, <2>1
    <3> QED BY ZenonT(30), <2>1, <3>1, <3>2 DEF QInv, Room
  <2>3. /\ waiting' \subseteq waiting
        /\ Cardinality(waiting' \cap Producer) <= Cardinality(waiting \cap Producer)
        /\ waiting # {} =>
             Cardinality(waiting' \cap Producer) = Cardinality(waiting \cap Producer) - 1
    BY SMTT(30), <1>5, <2>1, SignalWakes DEF Remove
  <2>4. Cardinality(waiting' \cap Producer) <= queue'.length
    <3>1. CASE waiting = {}
      <4>1. waiting' \cap Producer = {}
        BY SMTT(30), <2>3, <3>1
      <4>2. Cardinality(waiting' \cap Producer) = 0
        BY SMTT(30), <4>1, Producers
      <4> QED BY SMTT(30), <1>1, <2>1, <2>2, <4>2
    <3>2. CASE waiting # {}
      <4>1. Cardinality(waiting \cap Producer) \in Nat
        BY SMTT(30), Producers
      <4> QED BY SMTT(30), <1>1, <2>2, <2>3, <3>2, <4>1 DEF QInv
    <3> QED BY SMTT(30), <3>1, <3>2
  <2> QED BY SMTT(30), <1>1, <2>1, <2>2, <2>3, <2>4 DEF QInv
<1> QED BY SMTT(30), <1>2, <1>3, <1>4, <1>5 DEF Consume

\* A thread that comes out of its wait unasked.
LEMMA SpuriousKeeps ==
  ASSUME QInv, SpuriousWake
  PROVE  QInv'
<1>1. waiting' \subseteq waiting /\ UNCHANGED <<queue, consumer, handed, put>> /\ Signal
  BY SMTT(30) DEF SpuriousWake, Signal
<1>2. Cardinality(waiting' \cap Producer) <= Cardinality(waiting \cap Producer)
  BY SMTT(30), <1>1, SignalWakes
<1>3. /\ Cardinality(waiting' \cap Producer) \in Nat /\ Cardinality(waiting \cap Producer) \in Nat
      /\ queue.length \in Nat
  BY SMTT(30), Producers, QueueAssumption DEF QInv, Room
<1>4. Cardinality(waiting' \cap Producer) <= queue'.length
  BY SMTT(30), <1>1, <1>2, <1>3 DEF QInv
<1> QED BY SMTT(30), <1>1, <1>4 DEF QInv

\* QInv is an invariant.
LEMMA QInvInvariant == QueueSpec => []QInv
<1>1. QueueInit => QInv
  <2> SUFFICES ASSUME QueueInit PROVE QInv
    BY SMTT(30)
  <2>1. queue \in Room /\ queue.length = 0
    BY SMTT(30), QueueAssumption DEF QueueInit, Room
  <2>2. waiting \cap Producer = {}
    BY DEF QueueInit
  <2>3. Cardinality(waiting \cap Producer) = 0
    BY SMTT(30), <2>2, Producers
  <2> QED BY SMTT(30), <2>1, <2>3, QueueAssumption DEF QueueInit, QInv
<1>2. QInv /\ [QueueNext]_queue_vars => QInv'
  <2>1. QInv /\ UNCHANGED queue_vars => QInv'
    BY DEF QInv, queue_vars
  <2> QED BY SMTT(30), <2>1, ProduceKeeps, ConsumeKeeps, SpuriousKeeps DEF QueueNext
<1> QED BY <1>1, <1>2, PTL DEF QueueSpec

\* enqueue and the consumer thread share one condition variable without losing
\* a wake-up, for every size of the ring and every number of producers up to it.
THEOREM NoLostWakeUp == QueueSpec => []NoneStranded
<1>1. QInv => NoneStranded
  <2> SUFFICES ASSUME QInv PROVE NoneStranded
    BY SMTT(30)
  <2>1. Cardinality(waiting \cap Producer) \in Nat /\ queue.length \in Nat
    BY SMTT(30), Producers, QueueAssumption DEF QInv, Room
  <2>2. queue.length = 0 => waiting \cap Producer = {}
    BY SMTT(30), <2>1, Producers DEF QInv
  <2> QED BY SMTT(30), <2>1, <2>2 DEF QInv, NoneStranded
<1> QED BY <1>1, QInvInvariant, PTL

-----------------------------------------------------------------------------
(* The ring as a sequence                                                  *)

\* Sequences are the same when their elements are.
LEMMA SameSequence ==
  ASSUME NEW S, NEW s \in Seq(S), NEW t \in Seq(S), Len(s) = Len(t),
         \A i \in 1..Len(s) : s[i] = t[i]
  PROVE  s = t
<1>1. s = [i \in 1..Len(s) |-> s[i]] /\ t = [i \in 1..Len(t) |-> t[i]]
  OBVIOUS
<1> QED BY SMTT(30), <1>1

\* The elements behind the first
LEMMA TailIs ==
  ASSUME NEW S, NEW s \in Seq(S), s # <<>>
  PROVE  /\ Tail(s) \in Seq(S) /\ Len(Tail(s)) = Len(s) - 1
         /\ \A i \in 1..(Len(s) - 1) : Tail(s)[i] = s[i + 1]
BY SMTT(30)

\* One more element
LEMMA AppendIs ==
  ASSUME NEW S, NEW s \in Seq(S), NEW e \in S
  PROVE  /\ Append(s, e) \in Seq(S) /\ Len(Append(s, e)) = Len(s) + 1
         /\ \A i \in 1..Len(s) : Append(s, e)[i] = s[i]
         /\ Append(s, e)[Len(s) + 1] = e
OBVIOUS

\* The place of an index that has gone once round the ring
LEMMA RoundTheRing ==
  ASSUME NEW x \in Nat, x < 2 * Size
  PROVE  x % Size = IF x < Size THEN x ELSE x - Size
<1>1. Size \in Nat \ {0}
  BY SMTT(30), QueueAssumption
<1>2. CASE x < Size
  BY SMTT(30), <1>1, <1>2
<1>3. CASE x >= Size
  <2>1. x - Size \in 0..(Size - 1)
    BY SMTT(30), <1>1, <1>3
  <2> QED BY SMTT(30), <1>1, <1>3, <2>1
<1> QED BY SMTT(30), <1>1, <1>2, <1>3

\* Different places of the ring
LEMMA PlacesDiffer ==
  ASSUME NEW s \in 0..(Size - 1), NEW n \in 0..(Size - 1), NEW j \in Nat, j < n
  PROVE  (s + j) % Size # (s + n) % Size /\ (s + j) % Size \in 0..(Size - 1)
<1> DEFINE a == s + j
           b == s + n
<1>1. Size \in Nat \ {0}
  BY SMTT(30), QueueAssumption
<1>2. a \in Nat /\ b \in Nat /\ a < b /\ b < a + Size /\ b < 2 * Size /\ a < 2 * Size
  BY SMTT(30), <1>1
<1> HIDE DEF a, b
<1>3. a % Size = IF a < Size THEN a ELSE a - Size
  BY SMTT(30), <1>2, RoundTheRing
<1>4. b % Size = IF b < Size THEN b ELSE b - Size
  BY SMTT(30), <1>2, RoundTheRing
<1>5. a % Size # b % Size /\ a % Size \in 0..(Size - 1)
  BY SMTT(30), <1>1, <1>2, <1>3, <1>4
<1> QED BY SMTT(30), <1>5 DEF a, b

Elem == Item \cup {<<>>}

\* The items of ring q from the f-th on
Ring(q, f) == [i \in 1..(q.length - f) |-> q.slot[(q.start + f + i - 1) % Size]]

First == IF consumer = "done" THEN 1 ELSE 0

\* What Ring is, as a sequence
LEMMA RingIs ==
  ASSUME NEW q \in Room, NEW f \in 0..1, f <= q.length
  PROVE  /\ Ring(q, f) \in Seq(Elem) /\ Len(Ring(q, f)) = q.length - f
         /\ \A i \in 1..(q.length - f) : Ring(q, f)[i] = q.slot[(q.start + f + i - 1) % Size]
<1>1. /\ q.start \in 0..(Size - 1) /\ q.length \in 0..Size /\ Size \in Nat \ {0}
      /\ q.slot \in [0..(Size - 1) -> Elem] /\ q.length - f \in Nat
  BY SMTT(30), QueueAssumption DEF Room, Elem
<1>2. ASSUME NEW i \in 1..(q.length - f) PROVE q.slot[(q.start + f + i - 1) % Size] \in Elem
  <2>1. (q.start + f + i - 1) % Size \in 0..(Size - 1)
    BY SMTT(30), <1>1
  <2> QED BY SMTT(30), <1>1, <2>1
<1> DEFINE m == q.length - f
           e(i) == q.slot[(q.start + f + i - 1) % Size]
<1>3. m \in Nat /\ \A i \in 1..m : e(i) \in Elem
  BY SMTT(30), <1>1, <1>2
<1>4. Ring(q, f) = [i \in 1..m |-> e(i)]
  BY SMTT(30) DEF Ring
<1> HIDE DEF m, e
<1>5. Ring(q, f) \in Seq(Elem) /\ Len(Ring(q, f)) = m /\ \A i \in 1..m : Ring(q, f)[i] = e(i)
  BY SMTT(30), <1>3, <1>4
<1> QED BY SMTT(30), <1>5 DEF m, e

\* Pending is such a sequence, before and after a step.
LEMMA PendingIs ==
  ASSUME QInv
  PROVE  /\ First \in 0..1 /\ First <= queue.length /\ queue \in Room
         /\ Pending = Ring(queue, First) /\ Pending' = Ring(queue', First')
<1>1. First \in 0..1 /\ First <= queue.length /\ queue \in Room
  BY SMTT(30), QueueAssumption DEF QInv, Room, First
<1>2. Pending = Ring(queue, First) /\ Pending' = Ring(queue', First')
  BY SMTT(30) DEF Pending, Ring, First
<1> QED BY SMTT(30), <1>1, <1>2

\* The place of the i-th item that is not taken out
LEMMA NthPlace ==
  ASSUME NEW s \in Nat, NEW n \in Nat, NEW f \in 0..1, NEW i \in 1..(n - f)
  PROVE  /\ f + i - 1 \in Nat /\ f + i - 1 < n
         /\ s + f + i - 1 = s + (f + i - 1) /\ i \in 1..(n + 1 - f)
  BY SMTT(30)

\* An item written behind the last one is appended.
LEMMA RingAppend ==
  ASSUME NEW q \in Room, NEW r \in Room, NEW f \in 0..1, f <= q.length, NEW item \in Elem,
         q.length < Size, r.length = q.length + 1, r.start = q.start,
         r.slot = [q.slot EXCEPT ![(q.start + q.length) % Size] = item]
  PROVE  Ring(r, f) = Append(Ring(q, f), item)
<1> DEFINE s == q.start
           n == q.length
           Q == Ring(q, f)
           A == Append(Q, item)
           R == Ring(r, f)
<1>1. /\ s \in 0..(Size - 1) /\ n \in 0..(Size - 1) /\ Size \in Nat \ {0} /\ f <= n
      /\ q.slot \in [0..(Size - 1) -> Elem]
  BY SMTT(30), QueueAssumption DEF Room, Elem
<1>2. /\ Q \in Seq(Elem) /\ Len(Q) = n - f
      /\ \A i \in 1..(n - f) : Q[i] = q.slot[(s + f + i - 1) % Size]
  BY SMTT(30), RingIs
<1>3. r.length = n + 1 /\ r.start = s /\ f <= r.length
  BY SMTT(30), <1>1
<1>4. /\ R \in Seq(Elem) /\ Len(R) = n + 1 - f
      /\ \A i \in 1..(n + 1 - f) : R[i] = r.slot[(s + f + i - 1) % Size]
  <2>1. /\ R \in Seq(Elem) /\ Len(R) = r.length - f
        /\ \A i \in 1..(r.length - f) : R[i] = r.slot[(r.start + f + i - 1) % Size]
    BY ZenonT(30), <1>3, RingIs
  <2> QED BY SMTT(30), <1>1, <1>3, <2>1
<1>5. /\ A \in Seq(Elem) /\ Len(A) = n - f + 1
      /\ \A i \in 1..(n - f) : A[i] = Q[i]
      /\ A[n - f + 1] = item
  <2>1. Q \in Seq(Elem) /\ Len(Q) = n - f /\ item \in Elem
    BY ZenonT(30), <1>2
  <2> HIDE DEF Q, n
  <2>2. /\ A \in Seq(Elem) /\ Len(A) = Len(Q) + 1
        /\ \A i \in 1..Len(Q) : A[i] = Q[i]
        /\ A[Len(Q) + 1] = item
    BY SMTT(30), <2>1, AppendIs
  <2> QED BY ZenonT(30), <2>1, <2>2
<1>6. r.slot = [q.slot EXCEPT ![(s + n) % Size] = item]
  BY SMTT(30)
<1> HIDE DEF s, n, Q, A, R
<1>7. ASSUME NEW i \in 1..(n - f) PROVE R[i] = A[i]
  <2> DEFINE j == f + i - 1
  <2>1. j \in Nat /\ j < n /\ s + f + i - 1 = s + j /\ i \in 1..(n + 1 - f)
    <3>1. s \in Nat /\ n \in Nat
      BY SMTT(30), <1>1
    <3>2. f \in 0..1 /\ i \in 1..(n - f)
      BY ZenonT(60), <1>7
    <3>3. /\ f + i - 1 \in Nat /\ f + i - 1 < n
          /\ s + f + i - 1 = s + (f + i - 1) /\ i \in 1..(n + 1 - f)
      BY SMTT(30), <3>1, <3>2, NthPlace
    <3> QED BY ZenonT(60), <3>3
  <2> HIDE DEF j
  <2>2. (s + j) % Size # (s + n) % Size /\ (s + j) % Size \in 0..(Size - 1)
    BY ZenonT(30), <1>1, <2>1, PlacesDiffer
  <2>3. r.slot[(s + j) % Size] = q.slot[(s + j) % Size]
    BY SMTT(30), <1>1, <1>6, <2>2
  <2>4. R[i] = r.slot[(s + j) % Size]
    BY ZenonT(30), <1>4, <2>1
  <2>5. A[i] = q.slot[(s + j) % Size]
    BY ZenonT(30), <1>2, <1>5, <2>1
  <2> QED BY ZenonT(30), <2>3, <2>4, <2>5
<1>8. R[n - f + 1] = item
  <2>1. s + f + (n - f + 1) - 1 = s + n /\ (s + n) % Size \in 0..(Size - 1)
        /\ n - f + 1 \in 1..(n + 1 - f)
    BY SMTT(30), <1>1
  <2>2. R[n - f + 1] = r.slot[(s + n) % Size]
    BY SMTT(30), <1>4, <2>1
  <2> QED BY SMTT(30), <1>1, <1>6, <2>1, <2>2
<1>9. Len(R) = Len(A) /\ \A i \in 1..Len(R) : R[i] = A[i]
  <2>1. \A i \in 1..(n + 1 - f) : i \in 1..(n - f) \/ i = n - f + 1
    BY SMTT(30), <1>1
  <2> QED BY SMTT(30), <1>1, <1>4, <1>5, <1>7, <1>8, <2>1
<1>10. R = A
  BY SMTT(30), <1>4, <1>5, <1>9, SameSequence
<1> QED BY SMTT(30), <1>10 DEF R, A, Q

\* Without the first item the rest remains.
LEMMA RingTail ==
  ASSUME NEW q \in Room, 0 < q.length
  PROVE  /\ Ring(q, 0) # <<>> /\ Head(Ring(q, 0)) = q.slot[q.start]
         /\ Ring(q, 1) = Tail(Ring(q, 0))
<1> DEFINE s == q.start
           n == q.length
           Q == Ring(q, 0)
           R == Ring(q, 1)
<1>1. s \in 0..(Size - 1) /\ n \in 1..Size /\ Size \in Nat \ {0}
  BY SMTT(30), QueueAssumption DEF Room
<1>2. /\ Q \in Seq(Elem) /\ Len(Q) = n
      /\ \A i \in 1..n : Q[i] = q.slot[(s + i - 1) % Size]
  <2>1. /\ Q \in Seq(Elem) /\ Len(Q) = n - 0
        /\ \A i \in 1..(n - 0) : Q[i] = q.slot[(s + 0 + i - 1) % Size]
    BY SMTT(30), <1>1, RingIs
  <2> QED BY SMTT(30), <1>1, <2>1
<1>3. /\ R \in Seq(Elem) /\ Len(R) = n - 1
      /\ \A i \in 1..(n - 1) : R[i] = q.slot[(s + 1 + i - 1) % Size]
  BY SMTT(30), <1>1, RingIs
<1> HIDE DEF s, n, Q, R
<1>4. Q # <<>> /\ Head(Q) = Q[1]
  BY SMTT(30), <1>1, <1>2
<1>5. Q[1] = q.slot[s]
  <2>1. s + 1 - 1 = s /\ s % Size = s /\ 1 \in 1..n
    BY SMTT(30), <1>1
  <2> QED BY SMTT(30), <1>2, <2>1
<1>6. /\ Tail(Q) \in Seq(Elem) /\ Len(Tail(Q)) = n - 1
      /\ \A i \in 1..(n - 1) : Tail(Q)[i] = Q[i + 1]
  BY SMTT(30), <1>2, <1>4, TailIs
<1>7. ASSUME NEW i \in 1..(n - 1) PROVE R[i] = Tail(Q)[i]
  <2>1. s + 1 + i - 1 = s + (i + 1) - 1 /\ i + 1 \in 1..n
    BY SMTT(30), <1>1
  <2> QED BY SMTT(30), <1>2, <1>3, <1>6, <2>1
<1>8. R = Tail(Q)
  BY SMTT(30), <1>3, <1>6, <1>7, SameSequence
<1> QED BY SMTT(30), <1>4, <1>5, <1>8 DEF s, Q, R

\* Moving start on past an item already handed over changes nothing.
LEMMA RingMoves ==
  ASSUME NEW q \in Room, NEW r \in Room, 0 < q.length, r.length = q.length - 1,
         r.start = (q.start + 1) % Size, r.slot = q.slot
  PROVE  Ring(r, 0) = Ring(q, 1)
<1> DEFINE s == q.start
           n == q.length
           Q == Ring(q, 1)
           R == Ring(r, 0)
<1>1. /\ s \in 0..(Size - 1) /\ n \in 1..Size /\ Size \in Nat \ {0}
      /\ r.length = n - 1 /\ r.start = (s + 1) % Size /\ r.length \in Nat
  <2>1. s \in 0..(Size - 1) /\ n \in 0..Size /\ Size \in Nat \ {0} /\ r.length \in 0..Size
    BY SMTT(30), QueueAssumption DEF Room
  <2> QED BY SMTT(30), <2>1
<1>2. /\ Q \in Seq(Elem) /\ Len(Q) = n - 1
      /\ \A i \in 1..(n - 1) : Q[i] = q.slot[(s + 1 + i - 1) % Size]
  <2>1. 1 \in 0..1 /\ 1 <= q.length
    BY SMTT(30), <1>1
  <2> QED BY SMTT(30), <2>1, RingIs
<1>3. /\ R \in Seq(Elem) /\ Len(R) = n - 1
      /\ \A i \in 1..(n - 1) : R[i] = q.slot[(((s + 1) % Size) + i - 1) % Size]
  <2>1. /\ R \in Seq(Elem) /\ Len(R) = r.length - 0
        /\ \A i \in 1..(r.length - 0) : R[i] = r.slot[(r.start + 0 + i - 1) % Size]
    <3>1. 0 \in 0..1 /\ 0 <= r.length
      BY SMTT(30), <1>1
    <3> QED BY SMTT(30), <3>1, RingIs
  <2>2. r.length - 0 = n - 1
    BY SMTT(30), <1>1
  <2>3. (s + 1) % Size \in Nat
    BY SMTT(30), <1>1
  <2>4. \A i \in 1..(n - 1) : r.start + 0 + i - 1 = ((s + 1) % Size) + i - 1
    BY SMTT(30), <1>1, <2>3
  <2> HIDE DEF s, n, R
  <2> QED BY SMTT(30), <2>1, <2>2, <2>4
<1> HIDE DEF s, n, Q, R
<1>4. ASSUME NEW i \in 1..(n - 1)
      PROVE  (((s + 1) % Size) + i - 1) % Size = (s + 1 + i - 1) % Size
  <2> DEFINE a == s + i
             c == ((s + 1) % Size) + i - 1
  <2>1. a \in Nat /\ a < 2 * Size /\ s + 1 + i - 1 = a
    BY SMTT(30), <1>1
  <2>2. (s + 1) % Size = IF s + 1 < Size THEN s + 1 ELSE 0
    BY SMTT(30), <1>1
  <2>3. c = IF s + 1 < Size THEN a ELSE i - 1
    BY SMTT(30), <1>1, <2>2
  <2>4. c \in Nat /\ c < 2 * Size
    BY SMTT(30), <1>1, <2>1, <2>3
  <2>5. s + 1 >= Size => a - Size = i - 1 /\ a >= Size /\ i - 1 < Size
    BY SMTT(30), <1>1
  <2> HIDE DEF a, c
  <2>6. a % Size = IF a < Size THEN a ELSE a - Size
    BY SMTT(30), <2>1, RoundTheRing
  <2>7. c % Size = IF c < Size THEN c ELSE c - Size
    BY SMTT(30), <2>4, RoundTheRing
  <2>8. a % Size = c % Size
    <3>1. CASE s + 1 < Size
      BY SMTT(30), <2>3, <3>1
    <3>2. CASE s + 1 >= Size
      <4>1. c = i - 1 /\ a - Size = i - 1 /\ a >= Size /\ c < Size
        BY SMTT(30), <1>1, <2>3, <2>5, <3>2
      <4> QED BY SMTT(30), <1>1, <2>1, <2>4, <2>6, <2>7, <4>1
    <3> QED BY SMTT(30), <1>1, <3>1, <3>2
  <2> QED BY SMTT(30), <2>1, <2>8 DEF c
<1>5. \A i \in 1..(n - 1) : R[i] = Q[i]
  BY SMTT(30), <1>2, <1>3, <1>4
<1>6. R = Q
  BY SMTT(30), <1>2, <1>3, <1>5, SameSequence
<1> QED BY SMTT(30), <1>6 DEF R, Q

\* Every step of the ring is a step of the FIFO, or none.
LEMMA RingStep ==
  ASSUME QInv, QInv', [QueueNext]_queue_vars
  PROVE  [Fifo!Next]_<<Pending, handed>>
<1>1. /\ First \in 0..1 /\ First <= queue.length /\ queue \in Room /\ queue' \in Room
      /\ Pending = Ring(queue, First) /\ Pending' = Ring(queue', First')
  BY SMTT(30), PendingIs DEF QInv
<1>2. CASE UNCHANGED <<queue, consumer, handed>>
  <2>1. First' = First
    BY SMTT(30), <1>2 DEF First
  <2> QED BY SMTT(30), <1>1, <1>2, <2>1
<1>3. ASSUME NEW p \in Producer, put[p] < PerProducer, Put(p, <<p, put[p] + 1>>)
      PROVE  Fifo!Next
  <2> DEFINE item == <<p, put[p] + 1>>
  <2>1. item \in Item
    <3>1. put \in [Producer -> 0..PerProducer] /\ PerProducer \in Nat
      BY Zenon, QueueAssumption DEF QInv
    <3>2. put[p] + 1 \in 1..PerProducer
      BY SMTT(30), <1>3, <3>1
    <3> QED BY Zenon, <3>2 DEF Item
  <2>2. /\ queue.length < Size /\ queue'.length = queue.length + 1 /\ queue'.start = queue.start
        /\ queue'.slot = [queue.slot EXCEPT ![(queue.start + queue.length) % Size] = item]
        /\ First' = First /\ handed' = handed
    BY SMTT(30), <1>1, <1>3 DEF Put, Room, First
  <2> HIDE DEF item
  <2>3. Pending' = Append(Pending, item)
    BY SMTT(30), <1>1, <2>1, <2>2, RingAppend DEF Elem
  <2>4. Len(Pending) < Size
    <3>1. Len(Pending) = queue.length - First
      BY SMTT(30), <1>1, RingIs
    <3>2. queue.length \in Nat /\ Size \in Nat
      BY SMTT(30), <1>1, QueueAssumption DEF Room
    <3> QED BY SMTT(30), <1>1, <2>2, <3>1, <3>2
  <2> QED BY SMTT(30), <2>1, <2>2, <2>3, <2>4 DEF Fifo!Next, Fifo!Put
<1>4. CASE Hand
  <2>1. /\ First = 0 /\ First' = 1 /\ queue' = queue /\ 0 < queue.length
        /\ handed' = Append(handed, queue.slot[queue.start])
    BY SMTT(30), <1>4 DEF Hand, First, QInv
  <2>2. Pending # <<>> /\ Head(Pending) = queue.slot[queue.start] /\ Pending' = Tail(Pending)
    BY SMTT(30), <1>1, <2>1, RingTail
  <2> QED BY SMTT(30), <2>1, <2>2 DEF Fifo!Next, Fifo!Hand
<1>5. CASE Remove
  <2>1. /\ First = 1 /\ First' = 0 /\ handed' = handed /\ 0 < queue.length
        /\ queue' = [queue EXCEPT !.length = @ - 1, !.start = (@ + 1) % Size]
    BY SMTT(30), <1>5 DEF Remove, First, QInv
  <2>2. /\ queue'.length = queue.length - 1 /\ queue'.start = (queue.start + 1) % Size
        /\ queue'.slot = queue.slot
    BY SMTT(30), <1>1, <2>1 DEF Room
  <2>3. Pending' = Pending
    BY ZenonT(30), <1>1, <2>1, <2>2, RingMoves
  <2> QED BY SMTT(30), <2>1, <2>3
<1>6. CASE Get
  BY SMTT(30), <1>1, <1>6 DEF Get, First
<1> QED BY ZenonT(30), <1>2, <1>3, <1>4, <1>5, <1>6
        DEF QueueNext, queue_vars, Produce, Consume, WaitForRoom, WaitForItem, SpuriousWake

\* The ring of rlc_data_req_queue and pdcp_data_ind_queue is a FIFO, for every
\* size: the consumer may work on the first slot without the mutex.
THEOREM RingIsFifo == QueueSpec => ImplementsFifo
<1>1. QueueInit => Fifo!Init
  <2> SUFFICES ASSUME QueueInit PROVE Pending = <<>> /\ handed = <<>>
    BY DEF Fifo!Init
  <2> QED BY DEF QueueInit, Pending
<1>2. QInv /\ QInv' /\ [QueueNext]_queue_vars => [Fifo!Next]_<<Pending, handed>>
  BY RingStep
<1> QED BY <1>1, <1>2, QInvInvariant, PTL DEF QueueSpec, ImplementsFifo, Fifo!Spec

=============================================================================
