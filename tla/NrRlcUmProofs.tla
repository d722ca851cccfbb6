---------------------------- MODULE NrRlcUmProofs ----------------------------
(***************************************************************************)
(* Proofs about NrRlcUm for every modulus, set of SDUs, sizes of buffers   *)
(* and grants, number of PDUs under way and of re-establishments.          *)
(***************************************************************************)
EXTENDS NrRlcUm, NrRlcSnTheorems

-----------------------------------------------------------------------------
(* Sequence numbers, measured from rx_next_highest - window_size           *)

\* modulus_rx of UM without the modulo operation
LEMMA OffsetIs ==
  ASSUME NEW h \in Sn, NEW y \in Sn
  PROVE  /\ Offset(h, y) \in Sn
         /\ Offset(h, y) = IF Modulus(h, y) < WindowSize THEN Modulus(h, y) + WindowSize
                                                         ELSE Modulus(h, y) - WindowSize
<1> DEFINE v == y - h + WindowSize
<1>1. v \in Int /\ -SnModulus < v /\ v < 2 * SnModulus
  BY Window DEF Sn
<1>2. CASE v < 0
  <2>1. v % SnModulus = v + SnModulus
    BY <1>1, <1>2, Window
  <2> QED BY <1>1, <1>2, <2>1, Window DEF Offset, Modulus, Sn
<1>3. CASE v >= SnModulus
  <2>1. v % SnModulus = v - SnModulus
    BY <1>1, <1>3, Window
  <2> QED BY <1>1, <1>3, <2>1, Window DEF Offset, Modulus, Sn
<1>4. CASE v >= 0 /\ v < SnModulus
  <2>1. v % SnModulus = v
    BY <1>1, <1>4, Window
  <2> QED BY <1>1, <1>4, <2>1, Window DEF Offset, Modulus, Sn
<1> QED BY <1>1, <1>2, <1>3, <1>4, Window

\* It is the distance from some SN.
LEMMA OffsetBase ==
  ASSUME NEW h \in Sn
  PROVE  \E base \in Sn : \A y \in Sn : Offset(h, y) = Modulus(base, y)
<1>1. PICK base \in Sn : base = SnAdd(h, WindowSize)
  BY SnAddType, Window DEF Sn
<1>2. Modulus(h, base) = WindowSize
  BY <1>1, ModulusSnAdd, Window DEF Sn
<1>3. ASSUME NEW y \in Sn PROVE Offset(h, y) = Modulus(base, y)
  <2>1. Modulus(h, y) \in Sn
    BY Zenon, ModulusType
  <2>2. Offset(h, y) = IF Modulus(h, y) < WindowSize THEN Modulus(h, y) + WindowSize
                                                    ELSE Modulus(h, y) - WindowSize
    BY Zenon, OffsetIs
  <2>3. Modulus(base, y) = IF WindowSize <= Modulus(h, y)
                             THEN Modulus(h, y) - WindowSize
                             ELSE Modulus(h, y) - WindowSize + SnModulus
    BY Zenon, <1>2, ModulusShift
  <2> QED BY <2>1, <2>2, <2>3, Window DEF Sn
<1> QED BY Zenon, <1>3

\* rx_next_highest is a window ahead, and different SNs are at different offsets.
LEMMA OffsetFacts ==
  ASSUME NEW h \in Sn
  PROVE  /\ Offset(h, h) = WindowSize
         /\ \A y \in Sn : Offset(h, y) \in 0 .. (SnModulus - 1)
         /\ \A y, z \in Sn : Offset(h, y) = Offset(h, z) => y = z
<1>1. Offset(h, h) = WindowSize
  BY OffsetIs, ModulusZero, Window DEF Sn
<1>2. \A y \in Sn : Offset(h, y) \in 0 .. (SnModulus - 1)
  BY Zenon, OffsetIs DEF Sn
<1>3. \A y, z \in Sn : Offset(h, y) = Offset(h, z) => y = z
  BY OffsetBase, ModulusInjective
<1> QED BY Zenon, <1>1, <1>2, <1>3

\* The SNs of numbers less than a window away from n are at the offsets that
\* the numbers say.
LEMMA OffsetOfNumber ==
  ASSUME NEW n \in Nat, NEW c \in Nat, c >= n - WindowSize, c < n + WindowSize
  PROVE  /\ n % SnModulus \in Sn /\ c % SnModulus \in Sn
         /\ Offset(n % SnModulus, c % SnModulus) = c - n + WindowSize
<1>1. n <= c + SnModulus /\ c < n + SnModulus /\ n # c + SnModulus
  BY Window
<1>2. /\ n % SnModulus \in Sn /\ c % SnModulus \in Sn
      /\ Modulus(n % SnModulus, c % SnModulus)
           = IF n <= c THEN c - n ELSE c - n + SnModulus
  BY Zenon, <1>1, SnDistance
<1> QED BY <1>2, OffsetIs, Window

\* The window moves up to an SN x that is not in it: offsets shrink, and what
\* was too far down is out of the window.
LEMMA WindowMoves ==
  ASSUME NEW h \in Sn, NEW x \in Sn, ~InWindow(h, x)
  PROVE  LET top   == SnAdd(x, 1)
             delta == Offset(h, x) - WindowSize + 1
         IN  /\ top \in Sn
             /\ delta \in 1 .. WindowSize
             /\ (top - h) % SnModulus = delta
             /\ \A y \in Sn : Offset(top, y) = IF Offset(h, y) >= delta
                                                 THEN Offset(h, y) - delta
                                                 ELSE Offset(h, y) - delta + SnModulus
<1> DEFINE delta == Offset(h, x) - WindowSize + 1
<1>1. PICK top \in Sn : top = SnAdd(x, 1)
  BY SnAddType, Window DEF Sn
<1>2. Offset(h, x) >= WindowSize /\ Offset(h, x) \in Sn
  BY OffsetIs, Window DEF InWindow, Sn
<1>3. Modulus(h, x) = delta - 1 /\ delta \in 1 .. WindowSize
  <2>1. Modulus(h, x) \in Sn
    BY Zenon, ModulusType
  <2>2. Offset(h, x) = IF Modulus(h, x) < WindowSize THEN Modulus(h, x) + WindowSize
                                                    ELSE Modulus(h, x) - WindowSize
    BY Zenon, OffsetIs
  <2> QED BY <1>2, <2>1, <2>2, Window DEF Sn
<1>4. Modulus(h, top) = delta
  <2>1. 1 \in Sn /\ Modulus(h, x) + 1 < SnModulus
    BY <1>3, Window DEF Sn
  <2> QED BY <1>1, <1>3, <2>1, ModulusAdvance
<1> HIDE DEF delta
<1>5. (top - h) % SnModulus = delta
  <2>1. CASE top - h < 0
    <3>1. delta = top - h + SnModulus
      BY Zenon, <1>4, <2>1 DEF Modulus
    <3>2. (top - h) % SnModulus = top - h + SnModulus
      BY <2>1, Window DEF Sn
    <3> QED BY Zenon, <3>1, <3>2
  <2>2. CASE top - h >= 0
    <3>1. delta = top - h
      BY <1>4, <2>2, Window DEF Modulus, Sn
    <3>2. (top - h) % SnModulus = top - h
      BY <2>2, Window DEF Sn
    <3> QED BY Zenon, <3>1, <3>2
  <2> QED BY <2>1, <2>2, Window DEF Sn
<1>6. ASSUME NEW y \in Sn
      PROVE  Offset(top, y) = IF Offset(h, y) >= delta THEN Offset(h, y) - delta
                              ELSE Offset(h, y) - delta + SnModulus
  <2>1. Modulus(h, y) \in Sn /\ Modulus(top, y) \in Sn
    BY Zenon, ModulusType
  <2>2. Modulus(top, y) = IF delta <= Modulus(h, y) THEN Modulus(h, y) - delta
                          ELSE Modulus(h, y) - delta + SnModulus
    BY Zenon, <1>4, ModulusShift
  <2>3. /\ Offset(h, y) = IF Modulus(h, y) < WindowSize THEN Modulus(h, y) + WindowSize
                                                      ELSE Modulus(h, y) - WindowSize
        /\ Offset(top, y) = IF Modulus(top, y) < WindowSize
                              THEN Modulus(top, y) + WindowSize
                              ELSE Modulus(top, y) - WindowSize
    BY Zenon, OffsetIs
  <2> QED BY <1>3, <2>1, <2>2, <2>3, Window DEF Sn
<1> QED BY Zenon, <1>1, <1>3, <1>5, <1>6 DEF delta

\* The loop over delivered SDUs stops at an SN that is not delivered, at
\* rx_next_highest at the latest.
LEMMA FirstUndeliveredIs ==
  ASSUME NEW h \in Sn, NEW sn \in Sn, NEW done \in SUBSET Sn, h \notin done,
         Offset(h, sn) <= WindowSize
  PROVE  LET f == FirstUndelivered(sn, done)
         IN  /\ f \in Sn /\ f \notin done
             /\ Offset(h, sn) <= Offset(h, f) /\ Offset(h, f) <= WindowSize
             /\ \A y \in Sn : Offset(h, sn) <= Offset(h, y)
                              /\ Offset(h, y) < Offset(h, f) => y \in done
<1>1. PICK base \in Sn : \A y \in Sn : Offset(h, y) = Modulus(base, y)
  BY Zenon, OffsetBase
<1>2. Modulus(base, h) = WindowSize /\ Modulus(base, sn) <= Modulus(base, h)
  BY Zenon, <1>1, OffsetFacts
<1> DEFINE f == FirstUndelivered(sn, done)
<1>3. /\ f \in Sn /\ f \notin done
      /\ Modulus(base, sn) <= Modulus(base, f) /\ Modulus(base, f) <= Modulus(base, h)
      /\ \A y \in Sn : Modulus(base, sn) <= Modulus(base, y)
                       /\ Modulus(base, y) < Modulus(base, f) => y \in done
  BY Zenon, <1>2, FirstAbsent DEF FirstUndelivered
<1> HIDE DEF f
<1> QED BY Zenon, <1>1, <1>2, <1>3 DEF f

\* Counting on by one and going on by one SN are the same.
LEMMA NextNumber ==
  ASSUME NEW n \in Nat
  PROVE  SnAdd(n % SnModulus, 1) = (n + 1) % SnModulus
<1>1. n <= (n + 1) + SnModulus /\ n + 1 < n + SnModulus /\ n <= n + 1
  BY Window
<1>2. /\ n % SnModulus \in Sn /\ (n + 1) % SnModulus \in Sn
      /\ Modulus(n % SnModulus, (n + 1) % SnModulus) = 1
  BY <1>1, SnDistance
<1> QED BY Zenon, <1>2, SnAddModulus

\* What discard_sdu leaves of a list.
LEMMA WithoutElement ==
  ASSUME NEW S, NEW s \in Seq(S), NEW i \in DOMAIN s
  PROVE  LET r == SubSeq(s, 1, i - 1) \o SubSeq(s, i + 1, Len(s))
         IN  /\ r \in Seq(S) /\ DOMAIN r = 1 .. (Len(s) - 1)
             /\ \A j \in DOMAIN r : r[j] = IF j < i THEN s[j] ELSE s[j + 1]
<1> DEFINE a == SubSeq(s, 1, i - 1)
           b == SubSeq(s, i + 1, Len(s))
<1>1. i \in Nat /\ i >= 1 /\ i <= Len(s) /\ Len(s) \in Nat
  OBVIOUS
<1>2. a \in Seq(S) /\ Len(a) = i - 1 /\ \A j \in 1..(i-1) : a[j] = s[j]
  BY <1>1
<1>3. b \in Seq(S)
  BY <1>1
<1>4. Len(b) = Len(s) - i
  BY <1>1
<1>5. \A j \in 1..(Len(s) - i) : b[j] = s[j + i]
  BY SMTT(30), <1>1
<1> HIDE DEF a, b
<1>6. a \o b \in Seq(S) /\ DOMAIN (a \o b) = 1 .. (Len(s) - 1)
  BY SMTT(30), <1>1, <1>2, <1>3, <1>4
<1>7. ASSUME NEW j \in 1..(Len(s) - 1)
      PROVE  (a \o b)[j] = IF j < i THEN s[j] ELSE s[j + 1]
  <2>1. CASE j < i
    BY SMTT(30), <1>1, <1>2, <1>3, <1>4, <2>1
  <2>2. CASE j >= i
    <3>1. j \in 1..(Len(a) + Len(b)) /\ ~(j <= Len(a))
      BY <1>1, <1>2, <1>4, <2>2
    <3>2. (a \o b)[j] = b[j - Len(a)]
      BY SMTT(30), <1>2, <1>3, <3>1
    <3>3. (a \o b)[j] = b[j - (i - 1)]
      BY Zenon, <1>2, <3>2
    <3>4. j - (i - 1) \in 1..(Len(s) - i) /\ j - (i - 1) + i = j + 1
      BY <1>1, <2>2
    <3>5. b[j - (i - 1)] = s[j - (i - 1) + i]
      BY Zenon, <1>5, <3>4
    <3>6. ~(j < i)
      BY <1>1, <2>2
    <3> QED BY Zenon, <3>3, <3>4, <3>5, <3>6
  <2>3. j < i \/ j >= i
    BY <1>1
  <2> QED BY Zenon, <2>1, <2>2, <2>3
<1> QED BY Zenon, <1>6, <1>7 DEF a, b

-----------------------------------------------------------------------------
(* The bytes of SDUs                                                       *)

\* A segment as the receiver knows it, and one that lies within its SDU
RxSegment == [data : Sdu, so : Nat, size : Nat \ {0}, is_last : BOOLEAN, sn : Sn]

Part(s) ==
  /\ s \in RxSegment
  /\ s.so + s.size <= SduSize[s.data]
  /\ s.is_last = (s.so + s.size = SduSize[s.data])

TxSegment == [data : Sdu, so : Nat, size : Nat \ {0}]

\* The bytes of a set of segments, one by one
LEMMA ReassembledIs ==
  ASSUME NEW S, NEW d, NEW b
  PROVE  <<d, b>> \in Reassembled(S) <=> \E s \in S : s.data = d /\ b \in Bytes(s)
BY DEF Reassembled

\* Segments of one SDU that leave no byte out are put together to this SDU, and
\* to no other.
LEMMA WholeIs ==
  ASSUME NEW S, NEW d \in Sdu,
         \A s \in S : Part(s) /\ s.data = d,
         \A b \in 0 .. (SduSize[d] - 1) : \E s \in S : b \in Bytes(s)
  PROVE  \A e \in Sdu : Reassembled(S) = WholeSdu(e) <=> e = d
<1>1. SduSize[d] \in Nat \ {0}
  BY Zenon, SduSizeAssumption
<1>2. Reassembled(S) = WholeSdu(d)
  <2>1. \A s \in S : \A b \in Bytes(s) : <<s.data, b>> \in WholeSdu(d)
    BY <1>1 DEF Part, RxSegment, Bytes, WholeSdu
  <2>2. Reassembled(S) \subseteq WholeSdu(d)
    BY <2>1 DEF Reassembled
  <2>3. WholeSdu(d) \subseteq Reassembled(S)
    BY ReassembledIs DEF WholeSdu
  <2> QED BY Zenon, <2>2, <2>3
<1>3. <<d, 0>> \in WholeSdu(d)
  BY <1>1 DEF WholeSdu
<1>4. \A e \in Sdu : <<d, 0>> \in WholeSdu(e) => e = d
  BY Zenon DEF WholeSdu
<1> QED BY Zenon, <1>2, <1>3, <1>4

-----------------------------------------------------------------------------
(* The inductive invariant                                                 *)

\* The number, without wrap-around, of an SN within reach of the window
Abs(sn) == rx_top - WindowSize + Off(sn)

\* A segment of rx_list as the PDU that brought it, and the PDUs that are under
\* way or held: those that the transmitter has produced and nobody has dropped
Stored(s) == [seg |-> s, whole |-> FALSE, abs |-> Abs(s.sn)]

Outside == channel \cup {Stored(s) : s \in rx_list}

IsPdu(p) ==
  /\ p \in [seg : RxSegment, whole : BOOLEAN, abs : Nat]
  /\ Part(p.seg)
  /\ p.whole = (p.seg.so = 0 /\ p.seg.is_last)

\* Two segments have no byte in common.
Apart(s, t) == s.so + s.size <= t.so \/ t.so + t.size <= s.so

TypeInv ==
  /\ rx_next_highest \in Sn /\ rx_next_reassembly \in Sn /\ rx_timer_trigger \in Sn
  /\ tx_count \in Nat /\ rx_top \in Nat /\ offered \in Nat
  /\ t_reassembly \in BOOLEAN /\ garbled = FALSE
  /\ rx_delivered \in SUBSET Sn
  /\ delivered \in [Sdu -> 0 .. 1]
  /\ tx_list \in Seq(TxSegment)
  /\ \A s \in rx_list : Part(s)
  /\ \A p \in channel : IsPdu(p)

\* SNs are numbers modulo sn_modulus, and those under way are not too far ahead.
Numbers ==
  /\ tx_next = tx_count % SnModulus /\ rx_next_highest = rx_top % SnModulus
  /\ \A p \in channel : ~p.whole => /\ p.seg.sn = p.abs % SnModulus
                                    /\ p.abs < rx_top + WindowSize

\* tx_list holds the ends of SDUs, all but the first of them whole.
Queue ==
  /\ \A i \in DOMAIN tx_list :
       /\ tx_list[i].so + tx_list[i].size = SduSize[tx_list[i].data]
       /\ tx_list[i].data < offered /\ delivered[tx_list[i].data] = 0
       /\ i > 1 => tx_list[i].so = 0
  /\ \A i, j \in DOMAIN tx_list : tx_list[i].data = tx_list[j].data => i = j
  /\ \A d \in Sdu : d >= offered => delivered[d] = 0

\* What is outside was in front of what waits, and is not delivered; tx_count is
\* the number of the SDU being cut, which is the first of tx_list.
Sent ==
  \A k \in Outside :
    /\ k.seg.data < offered /\ delivered[k.seg.data] = 0
    /\ \A i \in DOMAIN tx_list :
         k.seg.data = tx_list[i].data => k.seg.so + k.seg.size <= tx_list[i].so
    /\ ~k.whole =>
         /\ k.abs <= tx_count
         /\ k.abs = tx_count => tx_list # <<>> /\ tx_list[1].data = k.seg.data
         /\ k.abs < tx_count =>
              \A i \in DOMAIN tx_list : tx_list[i].data # k.seg.data

\* A number stands for one SDU and an SDU has one number; no byte is outside twice.
Pairs ==
  /\ \A k, l \in Outside :
       /\ ~k.whole /\ ~l.whole => (k.abs = l.abs <=> k.seg.data = l.seg.data)
       /\ k # l /\ k.seg.data = l.seg.data => Apart(k.seg, l.seg)
  /\ \A s \in rx_list : Stored(s) \notin channel

\* Nothing is outside of an SDU that was put together.
Settled ==
  \A sn \in rx_delivered :
    /\ Abs(sn) < tx_count
    /\ \A k \in Outside : ~k.whole => k.abs # Abs(sn)

\* t_reassembly runs for an SN within the window.
Trigger ==
  t_reassembly => /\ Off(rx_next_reassembly) <= Off(rx_timer_trigger)
                  /\ Off(rx_timer_trigger) <= WindowSize

UmInv == /\ TypeInv /\ Numbers /\ Queue /\ Sent /\ Pairs /\ Settled
         /\ WindowOrder /\ Trigger

\* The invariant holds at first.
LEMMA InitUm == Init => UmInv
<1> SUFFICES ASSUME Init PROVE UmInv
  BY Zenon
<1>1. 0 \in Sn /\ 0 % SnModulus = 0
  BY Window DEF Sn
<1>2. TypeInv
  <2>1. <<>> \in Seq(TxSegment) /\ [d \in Sdu |-> 0] \in [Sdu -> 0 .. 1]
    OBVIOUS
  <2> QED BY Zenon, <1>1, <2>1 DEF Init, TypeInv
<1>3. Numbers /\ Queue /\ Sent /\ Pairs /\ Settled /\ Trigger
  BY <1>1 DEF Init, Numbers, Queue, Outside, Sent, Pairs, Settled, Trigger
<1>4. WindowOrder
  BY <1>1, OffsetFacts, Window DEF Init, WindowOrder, Off
<1> QED BY Zenon, <1>2, <1>3, <1>4 DEF UmInv

\* Re-establishment starts over; what was delivered stays so.
LEMMA ReestablishUm == UmInv /\ Reestablish => UmInv'
<1> SUFFICES ASSUME UmInv, Reestablish PROVE UmInv'
  BY Zenon
<1>1. 0 \in Sn /\ 0 % SnModulus = 0
  BY Window DEF Sn
<1>2. TypeInv'
  <2>1. <<>> \in Seq(TxSegment)
    BY SMTT(30)
  <2> QED BY Zenon, <1>1, <2>1 DEF Reestablish, TypeInv, UmInv, deliveries
<1>3. (Numbers /\ Queue /\ Sent /\ Pairs /\ Settled /\ Trigger)'
  BY SMTT(30), <1>1 DEF Reestablish, UmInv, Numbers, Queue, Outside, Sent, Pairs, Settled,
              Trigger, deliveries
<1>4. WindowOrder'
  BY SMTT(30), <1>1, OffsetFacts, Window DEF Reestablish, WindowOrder, Off
<1> QED BY Zenon, <1>2, <1>3, <1>4 DEF UmInv

\* What the transmitter does leaves the receiver's part of the invariant alone.
LEMMA RxSame ==
  ASSUME UmInv, UNCHANGED rx_vars
  PROVE  /\ WindowOrder' /\ Trigger'
         /\ Outside' = channel' \cup {Stored(s) : s \in rx_list}
         /\ \A s : Stored(s)' = Stored(s)
         /\ \A sn : Abs(sn)' = Abs(sn)
BY Zenon DEF UmInv, rx_vars, WindowOrder, Trigger, Off, Abs, Stored, Outside

\* What is outside is part of an SDU.
LEMMA OutsideIsPart ==
  ASSUME UmInv, NEW k \in Outside
  PROVE  Part(k.seg) /\ k.seg.data \in Sdu /\ k.seg.so \in Nat
         /\ k.seg.size \in Nat \ {0} /\ k.whole \in BOOLEAN
         /\ SduSize[k.seg.data] \in Nat \ {0} /\ k.seg.data \in Nat
<1>1. Part(k.seg) /\ k.whole \in BOOLEAN
  <2>1. CASE k \in channel
    BY Zenon, <2>1 DEF UmInv, TypeInv, IsPdu
  <2>2. CASE \E s \in rx_list : k = Stored(s)
    BY <2>2 DEF UmInv, TypeInv, Stored
  <2> QED BY Zenon, <2>1, <2>2 DEF Outside
<1>2. k.seg \in RxSegment
  BY Zenon, <1>1 DEF Part
<1> QED BY Zenon, <1>1, <1>2, SduSizeAssumption, UmAssumption DEF RxSegment

\* A PDU is lost: what is outside shrinks.
LEMMA LoseUm == UmInv /\ Lose => UmInv'
<1> SUFFICES ASSUME UmInv, Lose PROVE UmInv'
  BY Zenon
<1>1. /\ UNCHANGED <<tx_list, tx_next, tx_count, offered, delivered, garbled>>
      /\ UNCHANGED rx_vars
      /\ channel' \subseteq channel
  BY Zenon DEF Lose, tx_vars, deliveries
<1>2. /\ WindowOrder' /\ Trigger' /\ Outside' \subseteq Outside
      /\ \A s : Stored(s)' = Stored(s)
      /\ \A sn : Abs(sn)' = Abs(sn)
  BY Zenon, <1>1, RxSame DEF Outside
<1>3. TypeInv' /\ Numbers'
  BY Zenon, <1>1 DEF UmInv, TypeInv, Numbers, rx_vars
<1>4. Queue' /\ Sent'
  BY Zenon, <1>1, <1>2 DEF UmInv, Queue, Sent
<1>5. Pairs' /\ Settled'
  BY Zenon, <1>1, <1>2 DEF UmInv, Pairs, Settled, rx_vars
<1> QED BY Zenon, <1>2, <1>3, <1>4, <1>5 DEF UmInv

\* PDCP hands an SDU over: nothing of it is outside yet.
LEMMA RecvSduUm == ASSUME UmInv, NEW d \in Sdu, RecvSdu(d) PROVE UmInv'
<1>1. /\ UNCHANGED <<tx_next, tx_count, channel, delivered, garbled>>
      /\ UNCHANGED rx_vars
      /\ d = offered /\ offered' = d + 1
  BY Zenon DEF RecvSdu, tx_vars, deliveries
<1>2. /\ WindowOrder' /\ Trigger' /\ Outside' = Outside
      /\ \A s : Stored(s)' = Stored(s)
      /\ \A sn : Abs(sn)' = Abs(sn)
  BY Zenon, <1>1, RxSame DEF Outside
<1>3. Settled' /\ Numbers' /\ Pairs'
  BY Zenon, <1>1, <1>2 DEF UmInv, Numbers, Pairs, Settled, rx_vars
<1>4. Sdu \subseteq Nat /\ offered \in Nat /\ \A k \in Outside : k.seg.data < offered
  BY Zenon, UmAssumption DEF UmInv, TypeInv, Sent
<1>5. CASE tx_list' = tx_list
  <2>1. TypeInv'
    BY <1>1, <1>4, <1>5 DEF UmInv, TypeInv, rx_vars
  <2>2. \A i \in DOMAIN tx_list : tx_list[i] \in TxSegment
    BY DEF UmInv, TypeInv
  <2>3. \A e \in Nat : e < offered => e < offered'
    BY <1>1, <1>4
  <2>4. \A i \in DOMAIN tx_list : tx_list[i].data < offered'
    BY Zenon, <1>4, <2>2, <2>3 DEF UmInv, Queue, TxSegment
  <2>5. \A e \in Sdu : e >= offered' => e >= offered
    BY SMTT(30), <1>1, <1>4
  <2>6. Queue'
    BY Zenon, <1>1, <1>5, <2>4, <2>5 DEF UmInv, Queue
  <2>7. \A k \in Outside : k.seg.data < offered'
    BY Zenon, <1>4, <2>3, OutsideIsPart
  <2>8. Sent'
    BY ZenonT(60), <1>1, <1>2, <1>5, <2>7 DEF UmInv, Sent
  <2> QED BY Zenon, <1>2, <1>3, <2>1, <2>6, <2>8 DEF UmInv
<1>6. CASE tx_list' = Append(tx_list, Segment(d, 0, SduSize[d]))
  <2> DEFINE new == Segment(d, 0, SduSize[d])
             n == Len(tx_list)
  <2>1. tx_list \in Seq(TxSegment) /\ n \in Nat /\ DOMAIN tx_list = 1 .. n
    BY DEF UmInv, TypeInv
  <2>2. /\ new \in TxSegment /\ new.data = d /\ new.so = 0
        /\ new.so + new.size = SduSize[d]
    BY SduSizeAssumption DEF Segment, TxSegment
  <2>3. /\ tx_list' \in Seq(TxSegment) /\ DOMAIN tx_list' = 1 .. (n + 1)
        /\ tx_list'[n + 1] = new /\ \A i \in 1 .. n : tx_list'[i] = tx_list[i]
        /\ tx_list' # <<>>
    BY SMTT(30), <1>6, <2>1, <2>2
  <2> HIDE DEF new, n
  <2>4. TypeInv'
    BY SMTT(30), <1>1, <1>4, <2>3 DEF UmInv, TypeInv, rx_vars
  <2>5. \A i \in 1 .. (n + 1) : i = n + 1 \/ i \in 1 .. n
    BY <2>1
  <2>6. \A i \in 1 .. n : tx_list[i] \in TxSegment /\ tx_list[i].data < offered
    BY SMTT(30), <2>1 DEF UmInv, Queue
  <2>7. \A i \in 1 .. n : tx_list[i].data # d /\ tx_list[i].data \in Nat
    BY SMTT(30), <1>1, <1>4, <2>6 DEF TxSegment
  <2>8. Queue'
    <3>1. \A i \in DOMAIN tx_list' :
            /\ tx_list'[i].so + tx_list'[i].size = SduSize[tx_list'[i].data]
            /\ tx_list'[i].data < offered' /\ delivered[tx_list'[i].data] = 0
            /\ i > 1 => tx_list'[i].so = 0
      BY SMTT(30), <1>1, <1>4, <2>1, <2>2, <2>3, <2>5, <2>7 DEF UmInv, Queue
    <3>2. \A i, j \in DOMAIN tx_list' :
            tx_list'[i].data = tx_list'[j].data => i = j
      BY SMTT(30), <2>1, <2>2, <2>3, <2>5, <2>7 DEF UmInv, Queue
    <3>3. \A e \in Sdu : e >= offered' => delivered[e] = 0
      BY SMTT(30), <1>1, <1>4 DEF UmInv, Queue
    <3> QED BY ZenonT(60), <1>1, <3>1, <3>2, <3>3 DEF Queue
  <2>9. Sent'
    <3> SUFFICES ASSUME NEW k \in Outside
                 PROVE  /\ k.seg.data < offered'
                        /\ \A i \in DOMAIN tx_list' :
                             k.seg.data = tx_list'[i].data
                               => k.seg.so + k.seg.size <= tx_list'[i].so
                        /\ k.abs = tx_count /\ ~k.whole => tx_list'[1].data = k.seg.data
                        /\ k.abs < tx_count /\ ~k.whole =>
                             \A i \in DOMAIN tx_list' : tx_list'[i].data # k.seg.data
      BY Zenon, <1>1, <1>2, <2>3 DEF UmInv, Sent
    <3>1. k.seg.data < offered /\ k.seg.data # d /\ k.seg.data < offered'
      BY SMTT(30), <1>1, <1>4, OutsideIsPart
    <3>2. tx_list # <<>> => 1 \in 1 .. n
      BY <2>1 DEF n
    <3> QED BY SMTT(30), <2>1, <2>2, <2>3, <2>5, <3>1, <3>2 DEF UmInv, Sent
  <2> QED BY Zenon, <1>2, <1>3, <2>4, <2>8, <2>9 DEF UmInv
<1> QED BY Zenon, <1>5, <1>6 DEF RecvSdu

\* A whole SDU leaves tx_list: no part of it was outside.
LEMMA RemovalUm ==
  ASSUME UmInv,
         UNCHANGED <<tx_next, tx_count, channel, offered, delivered, garbled>>,
         UNCHANGED rx_vars,
         NEW i \in DOMAIN tx_list, tx_list[i].so = 0,
         tx_list' \in Seq(TxSegment), DOMAIN tx_list' = 1 .. (Len(tx_list) - 1),
         \A j \in DOMAIN tx_list' :
           tx_list'[j] = IF j < i THEN tx_list[j] ELSE tx_list[j + 1]
  PROVE  UmInv'
<1> DEFINE n == Len(tx_list)
           Old(j) == IF j < i THEN j ELSE j + 1
<1>1. /\ WindowOrder' /\ Trigger' /\ Outside' = Outside
      /\ \A s : Stored(s)' = Stored(s)
      /\ \A sn : Abs(sn)' = Abs(sn)
  BY Zenon, RxSame DEF Outside
<1>2. TypeInv' /\ Settled' /\ Numbers' /\ Pairs'
  BY Zenon, <1>1 DEF UmInv, TypeInv, Numbers, Pairs, Settled, rx_vars
<1>3. n \in Nat /\ DOMAIN tx_list = 1 .. n /\ i \in 1 .. n
  BY DEF UmInv, TypeInv
<1>4. /\ \A j \in DOMAIN tx_list' : /\ Old(j) \in DOMAIN tx_list
                                    /\ j > 1 => Old(j) > 1
                                    /\ tx_list'[j] = tx_list[Old(j)]
      /\ \A j, k \in DOMAIN tx_list' : Old(j) = Old(k) => j = k
  BY SMTT(30), <1>3
<1> HIDE DEF Old, n
<1>5. Queue'
  <2>1. \A j \in DOMAIN tx_list' :
          /\ tx_list'[j].so + tx_list'[j].size = SduSize[tx_list'[j].data]
          /\ tx_list'[j].data < offered /\ delivered[tx_list'[j].data] = 0
          /\ j > 1 => tx_list'[j].so = 0
    BY SMTT(30), <1>4 DEF UmInv, Queue
  <2>2. \A j, k \in DOMAIN tx_list' :
          tx_list'[j].data = tx_list'[k].data => j = k
    BY SMTT(30), <1>4 DEF UmInv, Queue
  <2> QED BY Zenon, <2>1, <2>2 DEF UmInv, Queue
<1>6. Sent'
  <2> SUFFICES ASSUME NEW k \in Outside
               PROVE  /\ \A j \in DOMAIN tx_list' :
                           k.seg.data = tx_list'[j].data
                             => k.seg.so + k.seg.size <= tx_list'[j].so
                      /\ k.abs = tx_count /\ ~k.whole =>
                           tx_list' # <<>> /\ tx_list'[1].data = k.seg.data
                      /\ k.abs < tx_count /\ ~k.whole =>
                           \A j \in DOMAIN tx_list' : tx_list'[j].data # k.seg.data
    BY Zenon, <1>1 DEF UmInv, Sent
  <2>1. k.seg.so \in Nat /\ k.seg.size \in Nat \ {0}
    BY Zenon, OutsideIsPart
  <2>2. k.seg.data # tx_list[i].data
    BY <2>1 DEF UmInv, Sent
  <2>3. ASSUME k.abs = tx_count, ~k.whole
        PROVE  tx_list' # <<>> /\ tx_list'[1].data = k.seg.data
    <3>1. tx_list[1].data = k.seg.data
      BY Zenon, <2>3 DEF UmInv, Sent
    <3>2. i # 1
      BY Zenon, <2>2, <3>1
    <3>3. 1 \in DOMAIN tx_list' /\ 1 < i
      BY <1>3, <3>2 DEF n
    <3> QED BY <3>1, <3>3
  <2>4. \A j \in DOMAIN tx_list' : \E l \in DOMAIN tx_list : tx_list'[j] = tx_list[l]
    BY Zenon, <1>4
  <2> QED BY SMTT(30), <2>3, <2>4 DEF UmInv, Sent
<1> QED BY Zenon, <1>1, <1>2, <1>5, <1>6 DEF UmInv

\* discard_sdu.
LEMMA DiscardUm == ASSUME UmInv, NEW d \in Sdu, DiscardSdu(d) PROVE UmInv'
<1>1. PICK i \in DOMAIN tx_list :
        /\ IsFirst(tx_list[i])
        /\ tx_list' = SubSeq(tx_list, 1, i - 1) \o SubSeq(tx_list, i + 1, Len(tx_list))
  BY Zenon DEF DiscardSdu
<1>2. /\ UNCHANGED <<tx_next, tx_count, channel, offered, delivered, garbled>>
      /\ UNCHANGED rx_vars
  BY Zenon DEF DiscardSdu, deliveries
<1>3. tx_list \in Seq(TxSegment) /\ tx_list[i].so = 0
  BY Zenon, <1>1 DEF UmInv, TypeInv, IsFirst
<1>4. /\ tx_list' \in Seq(TxSegment) /\ DOMAIN tx_list' = 1 .. (Len(tx_list) - 1)
      /\ \A j \in DOMAIN tx_list' :
           tx_list'[j] = IF j < i THEN tx_list[j] ELSE tx_list[j + 1]
  BY ZenonT(60), <1>1, <1>3, WithoutElement
<1> QED BY Zenon, <1>2, <1>3, <1>4, RemovalUm

\* Numbers are integers.
LEMMA AbsType ==
  ASSUME UmInv
  PROVE  /\ \A sn \in Sn : Abs(sn) \in Int
         /\ \A k \in Outside : k.abs \in Int
<1>1. \A sn \in Sn : Off(sn) \in Int
  BY OffsetFacts, Window DEF UmInv, TypeInv, Off
<1>2. \A sn \in Sn : Abs(sn) \in Int
  BY <1>1, Window DEF UmInv, TypeInv, Abs
<1>3. \A s \in rx_list : Stored(s).abs \in Int
  BY Zenon, <1>2 DEF UmInv, TypeInv, Part, RxSegment, Stored
<1>4. \A p \in channel : p.abs \in Int
  BY DEF UmInv, TypeInv, IsPdu
<1> QED BY Zenon, <1>2, <1>3, <1>4 DEF Outside

\* What is left of the first element goes back to the head of the list.
LEMMA PutBack ==
  ASSUME NEW S, NEW s \in Seq(S), s # <<>>, NEW r \in S
  PROVE  LET q == <<r>> \o Tail(s)
         IN  /\ q \in Seq(S) /\ DOMAIN q = 1 .. Len(s) /\ q[1] = r /\ q # <<>>
             /\ \A j \in 2 .. Len(s) : q[j] = s[j]
OBVIOUS

\* generate_tx_pdu puts the first m bytes of what waits first into a PDU.
LEMMA SendUm ==
  ASSUME UmInv, tx_list # <<>>, tx_count < rx_top + WindowSize,
         UNCHANGED <<offered, delivered, garbled>>, UNCHANGED rx_vars,
         NEW m \in Nat \ {0}, m <= tx_list[1].size,
         SendPart(Segment(tx_list[1].data, tx_list[1].so, m),
                  IF m = tx_list[1].size THEN <<>>
                  ELSE <<Segment(tx_list[1].data, tx_list[1].so + m, tx_list[1].size - m)>>)
  PROVE  UmInv'
<1> DEFINE n == Len(tx_list)
           h == tx_list[1]
           d == h.data
           s == Segment(d, h.so, m)
           k == PduOf(s)
           last == m = h.size
           left == Segment(d, h.so + m, h.size - m)
<1>1. /\ tx_list \in Seq(TxSegment) /\ n \in Nat \ {0} /\ DOMAIN tx_list = 1 .. n
      /\ 1 \in 1 .. n
  BY DEF UmInv, TypeInv
<1>2. h \in TxSegment
  BY <1>1
<1>3. /\ d \in Sdu /\ d \in Nat /\ h.so \in Nat /\ h.size \in Nat \ {0}
      /\ h.so + h.size = SduSize[d] /\ d < offered /\ delivered[d] = 0
      /\ tx_count \in Nat /\ rx_top \in Nat /\ tx_next = tx_count % SnModulus
      /\ SduSize[d] \in Nat \ {0} /\ tx_next \in Sn
  <2>1. h.so + h.size = SduSize[d] /\ d < offered /\ delivered[d] = 0
    BY Zenon, <1>1 DEF UmInv, Queue
  <2>2. tx_count \in Nat /\ rx_top \in Nat /\ tx_next = tx_count % SnModulus
    BY Zenon DEF UmInv, TypeInv, Numbers
  <2>3. tx_next \in Sn
    BY SMTT(30), <2>2, Window DEF Sn
  <2> QED BY Zenon, <1>2, <2>1, <2>2, <2>3, UmAssumption, SduSizeAssumption DEF TxSegment
<1>4. /\ k = [seg |-> [data |-> d, so |-> h.so, size |-> m, is_last |-> last,
                       sn |-> tx_next],
              whole |-> h.so = 0 /\ last, abs |-> tx_count]
      /\ MovesOn(s) = (h.so # 0 /\ last)
  <2>1. IsLast(s) = last
    BY SMTT(30), <1>3 DEF IsLast, Segment
  <2>2. IsFirst(s) = (h.so = 0) /\ s.data = d /\ s.so = h.so /\ s.size = m
    BY Zenon DEF IsFirst, Segment
  <2> QED BY Zenon, <2>1, <2>2 DEF PduOf, MovesOn
<1>5. /\ tx_list' = (IF last THEN <<>> ELSE <<left>>) \o Tail(tx_list)
      /\ tx_next' = IF MovesOn(s) THEN SnAdd(tx_next, 1) ELSE tx_next
      /\ tx_count' = IF MovesOn(s) THEN tx_count + 1 ELSE tx_count
      /\ channel' = channel \cup {k}
  BY Zenon DEF SendPart
<1>6. last => /\ tx_list' \in Seq(TxSegment) /\ DOMAIN tx_list' = 1 .. (n - 1)
              /\ \A j \in 1 .. (n - 1) : tx_list'[j] = tx_list[j + 1]
  <2>1. last => tx_list' = <<>> \o Tail(tx_list)
    BY Zenon, <1>5
  <2> QED BY SMTT(30), <1>1, <2>1
<1>7. left \in TxSegment \/ last
  <2>1. last \/ (h.size - m \in Nat \ {0} /\ h.so + m \in Nat)
    <3>1. \A a, b \in Nat : m <= b => m = b \/ (b - m \in Nat \ {0} /\ a + m \in Nat)
      OBVIOUS
    <3>2. m <= h.size /\ h.so \in Nat /\ h.size \in Nat
      BY Zenon, <1>3
    <3> HIDE DEF h
    <3> QED BY Zenon, <3>1, <3>2
  <2>2. d \in Sdu
    BY Zenon, <1>3
  <2> HIDE DEF h, d, last
  <2> QED BY Zenon, <2>1, <2>2 DEF Segment, TxSegment
<1>8. ~last => /\ tx_list' \in Seq(TxSegment) /\ DOMAIN tx_list' = 1 .. n
               /\ tx_list'[1] = left /\ tx_list' # <<>>
               /\ \A j \in 2 .. n : tx_list'[j] = tx_list[j]
  <2>1. ~last => tx_list' = <<left>> \o Tail(tx_list)
    BY Zenon, <1>5
  <2> HIDE DEF left, last
  <2> QED BY SMTT(30), <1>1, <1>7, <2>1, PutBack
<1>9. left.data = d /\ left.so = h.so + m /\ left.size = h.size - m
  BY ZenonT(60) DEF left, Segment
<1>10. /\ k.abs = tx_count /\ k.whole = (h.so = 0 /\ last) /\ k.seg.data = d
       /\ k.seg.so = h.so /\ k.seg.size = m /\ k.seg.sn = tx_next
       /\ k.seg.is_last = last
  BY <1>4
<1>11. IsPdu(k)
  <2>1. k.seg \in RxSegment /\ k \in [seg : RxSegment, whole : BOOLEAN, abs : Nat]
    BY SMTT(30), <1>3, <1>4 DEF RxSegment
  <2>2. h.so + m <= SduSize[d] /\ (last <=> h.so + m = SduSize[d])
    BY SMTT(30), <1>3
  <2>3. Part(k.seg)
    BY Zenon, <1>10, <2>1, <2>2 DEF Part
  <2> QED BY ZenonT(60), <1>10, <2>1, <2>3 DEF IsPdu
<1>12. m = h.size <=> last
  BY Zenon
<1> HIDE DEF k, s, left, h, n, last
<1> DEFINE moved == MovesOn(s)
<1>13. moved = (h.so # 0 /\ last) /\ tx_count' \in Nat /\ tx_count <= tx_count'
  BY SMTT(30), <1>3, <1>4, <1>5
<1>14. /\ WindowOrder' /\ Trigger' /\ Outside' = Outside \cup {k}
       /\ \A t : Stored(t)' = Stored(t)
       /\ \A sn : Abs(sn)' = Abs(sn)
  BY Zenon, <1>5, RxSame DEF Outside
<1>15. TypeInv'
  BY Zenon, <1>5, <1>6, <1>8, <1>11, <1>13 DEF UmInv, TypeInv, rx_vars
<1>16. Numbers'
  <2>1. tx_next' = tx_count' % SnModulus
    BY Zenon, <1>3, <1>5, NextNumber
  <2> QED BY Zenon, <1>3, <1>5, <1>10, <2>1 DEF UmInv, Numbers, rx_vars
<1>17. \A l \in Outside : l.seg.data = d => l.seg.so + l.seg.size <= h.so
  BY Zenon, <1>1 DEF UmInv, Sent, h
<1>18. \A l \in Outside : ~l.whole => (l.abs = tx_count <=> l.seg.data = d)
  <2>1. \A l \in Outside : ~l.whole => l.abs <= tx_count
    BY Zenon DEF UmInv, Sent
  <2>2. \A l \in Outside : ~l.whole => l.abs \in Int
    BY Zenon, OutsideIsPart, AbsType
  <2>3. \A l \in Outside : ~l.whole /\ l.abs < tx_count => l.seg.data # d
    BY Zenon, <1>1 DEF UmInv, Sent, h
  <2>4. \A l \in Outside : ~l.whole /\ l.abs = tx_count => l.seg.data = d
    BY Zenon DEF UmInv, Sent, h
  <2> QED BY SMTT(30), <1>3, <2>1, <2>2, <2>3, <2>4
<1>19. \A l \in Outside : l # k /\ (l.seg.data = d => Apart(l.seg, k.seg) /\ Apart(k.seg, l.seg))
  BY SMTT(30), <1>3, <1>10, <1>17, OutsideIsPart DEF Apart
<1>20. Pairs'
  <2>1. ASSUME NEW a \in Outside \cup {k}, NEW b \in Outside \cup {k}
        PROVE  /\ ~a.whole /\ ~b.whole => (a.abs = b.abs <=> a.seg.data = b.seg.data)
               /\ a # b /\ a.seg.data = b.seg.data => Apart(a.seg, b.seg)
    <3>1. CASE a \in Outside /\ b \in Outside
      BY Zenon, <3>1 DEF UmInv, Pairs
    <3>2. CASE a \in Outside /\ b = k
      BY Zenon, <1>10, <1>18, <1>19, <3>2
    <3>3. CASE a = k /\ b \in Outside
      BY Zenon, <1>10, <1>18, <1>19, <3>3
    <3>4. CASE a = k /\ b = k
      BY Zenon, <3>4
    <3> QED BY Zenon, <3>1, <3>2, <3>3, <3>4
  <2>2. \A t \in rx_list : Stored(t) \in Outside /\ Stored(t) \notin channel
    BY Zenon DEF UmInv, Pairs, Outside
  <2>3. \A t \in rx_list' : Stored(t)' \notin channel'
    BY ZenonT(60), <1>5, <1>14, <1>19, <2>2 DEF rx_vars
  <2> QED BY Zenon, <1>14, <2>1, <2>3 DEF Pairs
<1>21. Settled'
  <2>1. \A sn \in rx_delivered : Abs(sn) < tx_count /\ Abs(sn) \in Int
    BY Zenon, AbsType DEF UmInv, Settled, TypeInv
  <2> QED BY SMTT(30), <1>3, <1>10, <1>13, <1>14, <2>1 DEF UmInv, Settled, rx_vars
<1>22. /\ \A i \in DOMAIN tx_list :
            /\ tx_list[i].so + tx_list[i].size = SduSize[tx_list[i].data]
            /\ tx_list[i].data < offered /\ delivered[tx_list[i].data] = 0
            /\ i > 1 => tx_list[i].so = 0
       /\ \A i, j \in DOMAIN tx_list : tx_list[i].data = tx_list[j].data => i = j
  BY Zenon DEF UmInv, Queue
<1>23. Queue'
  <2>1. \A i \in DOMAIN tx_list' :
          /\ tx_list'[i].so + tx_list'[i].size = SduSize[tx_list'[i].data]
          /\ tx_list'[i].data < offered /\ delivered[tx_list'[i].data] = 0
          /\ i > 1 => tx_list'[i].so = 0
    <3>1. CASE last
      <4>1. \A i \in 1 .. (n - 1) : i + 1 \in 1 .. n /\ i + 1 > 1
        BY <1>1
      <4> QED BY SMTT(30), <1>1, <1>6, <1>22, <3>1, <4>1
    <3>2. CASE ~last
      <4>1. \A i \in 1 .. n : (i = 1 /\ ~(i > 1)) \/ i \in 2 .. n
        BY SMTT(30), <1>1
      <4>2. left.so + left.size = SduSize[left.data]
        BY SMTT(30), <1>3, <1>9
      <4>3. \A i \in 2 .. n : i \in DOMAIN tx_list
        BY <1>1
      <4> SUFFICES ASSUME NEW i \in 1 .. n
                   PROVE  /\ tx_list'[i].so + tx_list'[i].size = SduSize[tx_list'[i].data]
                          /\ tx_list'[i].data < offered
                          /\ delivered[tx_list'[i].data] = 0
                          /\ i > 1 => tx_list'[i].so = 0
        BY Zenon, <1>8, <3>2
      <4>4. CASE i = 1
        BY SMTT(30), <1>3, <1>8, <1>9, <3>2, <4>1, <4>2, <4>4
      <4>5. CASE i \in 2 .. n
        BY ZenonT(60), <1>8, <1>22, <3>2, <4>3, <4>5
      <4> QED BY Zenon, <4>1, <4>4, <4>5
    <3> QED BY Zenon, <3>1, <3>2
  <2>2. \A i, j \in DOMAIN tx_list' : tx_list'[i].data = tx_list'[j].data => i = j
    <3>1. CASE last
      <4>1. \A i \in 1 .. (n - 1) : i + 1 \in 1 .. n
        BY <1>1
      <4>2. \A i, j \in 1 .. (n - 1) :
              tx_list[i + 1].data = tx_list[j + 1].data => i + 1 = j + 1
        BY Zenon, <1>1, <1>22, <4>1
      <4>3. \A i, j \in 1 .. (n - 1) : i + 1 = j + 1 => i = j
        BY <1>1
      <4> QED BY SMTT(30), <1>6, <3>1, <4>2, <4>3
    <3>2. CASE ~last
      <4>1. \A i \in 1 .. n : tx_list'[i].data = tx_list[i].data
        <5>1. \A i \in 1 .. n : i = 1 \/ i \in 2 .. n
          BY <1>1
        <5> QED BY Zenon, <1>8, <1>9, <3>2, <5>1 DEF h
      <4> QED BY Zenon, <1>1, <1>8, <1>22, <3>2, <4>1
    <3> QED BY Zenon, <3>1, <3>2
  <2> QED BY Zenon, <2>1, <2>2 DEF UmInv, Queue
<1>24. Sent'
  <2>1. ASSUME NEW l \in Outside \cup {k}
        PROVE  /\ l.seg.data < offered /\ delivered[l.seg.data] = 0
               /\ \A i \in DOMAIN tx_list :
                    i > 1 /\ l.seg.data = tx_list[i].data
                      => l.seg.so + l.seg.size <= tx_list[i].so
               /\ l.seg.data = d => l.seg.so + l.seg.size <= h.so + m
               /\ ~l.whole => /\ l.abs \in Int /\ l.abs <= tx_count
                              /\ l.abs = tx_count <=> l.seg.data = d
                              /\ \A i \in DOMAIN tx_list : i > 1 =>
                                   tx_list[i].data # l.seg.data
    <3>1. CASE l \in Outside
      <4>1. /\ l.seg.data < offered /\ delivered[l.seg.data] = 0
            /\ \A i \in DOMAIN tx_list : l.seg.data = tx_list[i].data
                                           => l.seg.so + l.seg.size <= tx_list[i].so
            /\ ~l.whole => /\ l.abs <= tx_count
                           /\ l.abs < tx_count =>
                                \A i \in DOMAIN tx_list : tx_list[i].data # l.seg.data
        BY Zenon, <3>1 DEF UmInv, Sent
      <4>2. l.seg.data = d => l.seg.so + l.seg.size <= h.so + m
        <5>1. l.seg.so + l.seg.size \in Nat
          BY <3>1, OutsideIsPart
        <5>2. l.seg.data = d => l.seg.so + l.seg.size <= h.so
          BY Zenon, <1>17, <3>1
        <5> QED BY SMTT(30), <1>3, <5>1, <5>2
      <4>3. l.abs \in Int /\ (~l.whole => (l.abs = tx_count <=> l.seg.data = d))
        BY ZenonT(60), <1>18, <3>1, AbsType
      <4>4. ~l.whole => \A i \in DOMAIN tx_list : i > 1 => tx_list[i].data # l.seg.data
        <5>1. \A i \in DOMAIN tx_list : i > 1 => tx_list[i].data # d
          BY SMTT(30), <1>1, <1>22 DEF h
        <5> QED BY SMTT(30), <1>3, <4>1, <4>3, <5>1
      <4> QED BY Zenon, <4>1, <4>2, <4>3, <4>4
    <3>2. CASE l = k
      <4>1. \A i \in DOMAIN tx_list : i > 1 => tx_list[i].data # d
        BY <1>1, <1>22 DEF h
      <4> QED BY SMTT(30), <1>3, <1>10, <3>2, <4>1
    <3> QED BY Zenon, <3>1, <3>2
  <2>2. CASE last
    <3>1. \A j \in DOMAIN tx_list' : /\ j + 1 \in DOMAIN tx_list /\ j + 1 > 1
                                     /\ tx_list'[j] = tx_list[j + 1]
      BY SMTT(30), <1>1, <1>6, <2>2
    <3>2. \A l \in Outside \cup {k} : ~l.whole => l.abs < tx_count'
      <4>1. CASE h.so = 0
        <5>1. k.whole
          BY Zenon, <1>10, <2>2, <4>1
        <5>2. \A l \in Outside : l.seg.data # d
          BY SMTT(30), <1>17, <4>1, OutsideIsPart
        <5> QED BY SMTT(30), <1>3, <1>13, <2>1, <5>1, <5>2
      <4>2. CASE h.so # 0
        <5>1. tx_count' = tx_count + 1
          BY ZenonT(60), <1>5, <1>13, <2>2, <4>2
        <5> QED BY SMTT(30), <1>3, <2>1, <5>1
      <4> QED BY ZenonT(60), <4>1, <4>2
    <3>3. \A l \in Outside \cup {k} : ~l.whole => l.abs <= tx_count' /\ l.abs # tx_count'
      BY SMTT(30), <1>13, <2>1, <3>2
    <3> QED BY SMTT(30), <1>14, <2>1, <3>1, <3>2, <3>3 DEF Sent
  <2>3. CASE ~last
    <3>1. tx_count' = tx_count
      BY Zenon, <1>5, <1>13, <2>3
    <3>2. \A j \in DOMAIN tx_list' :
            (j = 1 /\ tx_list'[j].data = d /\ tx_list'[j].so = h.so + m)
              \/ (j \in DOMAIN tx_list /\ j > 1 /\ tx_list'[j] = tx_list[j])
      BY SMTT(30), <1>1, <1>8, <1>9, <2>3
    <3>3. tx_list' # <<>> /\ tx_list'[1].data = d
      BY ZenonT(60), <1>8, <1>9, <2>3
    <3>4. \A l \in Outside \cup {k} : ~l.whole /\ l.abs < tx_count => l.abs # tx_count
      BY SMTT(30), <1>3, <2>1
    <3> QED BY SMTT(30), <1>14, <2>1, <3>1, <3>2, <3>3, <3>4 DEF Sent
  <2> QED BY Zenon, <2>2, <2>3
<1> QED BY ZenonT(60), <1>14, <1>15, <1>16, <1>20, <1>21, <1>23, <1>24 DEF UmInv

\* generate_tx_pdu: a segment goes off whole or in part, or a whole SDU is dropped
\* for lack of room.
LEMMA GrantIs ==
  ASSUME UmInv, Transmit
  PROVE  /\ tx_list # <<>> /\ 1 \in DOMAIN tx_list
         /\ UNCHANGED <<offered, delivered, garbled>> /\ UNCHANGED rx_vars
         /\ tx_count < rx_top + WindowSize
         /\ \/ \E m \in Nat \ {0} :
                 /\ m <= tx_list[1].size
                 /\ SendPart(Segment(tx_list[1].data, tx_list[1].so, m),
                             IF m = tx_list[1].size THEN <<>>
                             ELSE <<Segment(tx_list[1].data, tx_list[1].so + m,
                                            tx_list[1].size - m)>>)
            \/ /\ tx_list[1].so = 0 /\ tx_list' = Tail(tx_list)
               /\ UNCHANGED <<tx_next, tx_count, channel>>
               /\ bstatus_tx' = bstatus_tx - PduSize(tx_list[1])
<1>1. PICK size \in Grants : tx_count < rx_top + WindowSize /\ GenerateTxPdu(size)
  BY Zenon DEF Transmit
<1> DEFINE h == tx_list[1]
           n == size - CutHeader(h)
<1>2. size \in Nat /\ SnHeader \in {0, 1}
  BY Zenon, UmAssumption
<1>3. /\ UNCHANGED <<offered, delivered, garbled>> /\ UNCHANGED rx_vars
      /\ tx_list # <<>> /\ tx_list \in Seq(TxSegment) /\ Head(tx_list) = h
      /\ 1 \in DOMAIN tx_list
  <2>1. tx_list # <<>> /\ tx_list \in Seq(TxSegment)
    BY Zenon, <1>1 DEF GenerateTxPdu, UmInv, TypeInv
  <2> QED BY <1>1, <2>1 DEF GenerateTxPdu, deliveries
<1>4. h \in TxSegment /\ h.so + h.size = SduSize[h.data]
  BY <1>3 DEF UmInv, Queue
<1>5. h.so \in Nat /\ h.size \in Nat \ {0} /\ IsLast(h) /\ IsFirst(h) = (h.so = 0)
  BY Zenon, <1>4 DEF TxSegment, IsFirst, IsLast
<1>6. h = Segment(h.data, h.so, h.size)
  BY Zenon, <1>4 DEF Segment, TxSegment
<1>7. /\ HeaderSize(IsFirst(h), IsLast(h)) + 1 <= size
      /\ \/ PduSize(h) <= size /\ SendPart(h, <<>>)
         \/ /\ ~(PduSize(h) <= size) /\ n >= 1
            /\ SendPart(Segment(h.data, h.so, n),
                        <<Segment(h.data, h.so + n, h.size - n)>>)
         \/ /\ ~(n >= 1) /\ tx_list' = Tail(tx_list)
            /\ UNCHANGED <<tx_next, tx_count, channel>>
            /\ bstatus_tx' = bstatus_tx - PduSize(h)
  <2> HIDE DEF h
  <2> QED BY Zenon, <1>1, <1>3 DEF GenerateTxPdu
<1> HIDE DEF h
<1> DEFINE all == HeaderSize(IsFirst(h), IsLast(h))
           cut == CutHeader(h)
<1>8. all \in Nat /\ cut \in Nat /\ all <= cut /\ (h.so # 0 => all = cut)
  <2>1. CASE h.so = 0
    <3>1. all = 1 + 0 + 0 /\ cut = 1 + SnHeader + 0
      BY Zenon, <1>5, <2>1 DEF HeaderSize, CutHeader
    <3> QED BY SMTT(30), <1>2, <2>1, <3>1
  <2>2. CASE h.so # 0
    <3>1. all = 1 + SnHeader + 2 /\ cut = 1 + SnHeader + 2
      BY Zenon, <1>5, <2>2 DEF HeaderSize, CutHeader
    <3> QED BY <1>2, <3>1
  <2> QED BY Zenon, <2>1, <2>2
<1>12. n = size - cut /\ all + 1 <= size /\ PduSize(h) = all + h.size
  BY Zenon, <1>7 DEF PduSize
<1> HIDE DEF all, cut
<1>9. CASE SendPart(h, <<>>)
  <2>1. SendPart(Segment(h.data, h.so, h.size),
                 IF h.size = h.size THEN <<>>
                 ELSE <<Segment(h.data, h.so + h.size, h.size - h.size)>>)
    BY Zenon, <1>6, <1>9
  <2>2. h.size \in Nat \ {0} /\ h.size <= h.size
    BY <1>5
  <2> QED BY Zenon, <1>1, <1>3, <2>1, <2>2 DEF h
<1>10. CASE /\ ~(PduSize(h) <= size) /\ n >= 1
            /\ SendPart(Segment(h.data, h.so, n),
                        <<Segment(h.data, h.so + n, h.size - n)>>)
  <2>1. n \in Nat \ {0} /\ n <= h.size /\ n # h.size
    <3> HIDE DEF n
    <3> QED BY SMTT(30), <1>2, <1>5, <1>8, <1>10, <1>12
  <2> HIDE DEF n
  <2>2. SendPart(Segment(h.data, h.so, n),
                 IF n = h.size THEN <<>>
                 ELSE <<Segment(h.data, h.so + n, h.size - n)>>)
    BY Zenon, <1>10, <2>1
  <2> QED BY Zenon, <1>1, <1>3, <2>1, <2>2 DEF h
<1>11. CASE /\ ~(n >= 1) /\ tx_list' = Tail(tx_list)
            /\ UNCHANGED <<tx_next, tx_count, channel>>
            /\ bstatus_tx' = bstatus_tx - PduSize(h)
  <2>1. h.so = 0
    <3> HIDE DEF n
    <3> QED BY SMTT(30), <1>2, <1>5, <1>8, <1>11, <1>12
  <2> QED BY Zenon, <1>1, <1>3, <1>11, <2>1 DEF h
<1> QED BY Zenon, <1>7, <1>9, <1>10, <1>11

\* It keeps the invariant.
LEMMA TransmitUm == UmInv /\ Transmit => UmInv'
<1> SUFFICES ASSUME UmInv, Transmit PROVE UmInv'
  BY Zenon
<1>1. CASE \E m \in Nat \ {0} :
             /\ m <= tx_list[1].size
             /\ SendPart(Segment(tx_list[1].data, tx_list[1].so, m),
                         IF m = tx_list[1].size THEN <<>>
                         ELSE <<Segment(tx_list[1].data, tx_list[1].so + m,
                                        tx_list[1].size - m)>>)
  BY Zenon, <1>1, GrantIs, SendUm
<1>2. CASE /\ tx_list[1].so = 0 /\ tx_list' = Tail(tx_list)
           /\ UNCHANGED <<tx_next, tx_count, channel>>
  <2>1. tx_list # <<>> /\ tx_list \in Seq(TxSegment)
    BY Zenon, GrantIs DEF UmInv, TypeInv
  <2>2. /\ tx_list' \in Seq(TxSegment) /\ DOMAIN tx_list' = 1 .. (Len(tx_list) - 1)
        /\ \A j \in DOMAIN tx_list' :
             tx_list'[j] = IF j < 1 THEN tx_list[j] ELSE tx_list[j + 1]
    BY SMTT(30), <1>2, <2>1
  <2> QED BY Zenon, <1>2, <2>2, GrantIs, RemovalUm
<1> QED BY Zenon, <1>1, <1>2, GrantIs

\* rx_next_highest itself is not delivered.
LEMMA HighestOpen ==
  ASSUME UmInv
  PROVE  rx_next_highest \notin rx_delivered /\ Off(rx_next_highest) = WindowSize
<1>1. Off(rx_next_highest) = WindowSize
  BY Zenon, OffsetFacts DEF UmInv, TypeInv, Off
<1> QED BY <1>1, Window DEF UmInv, WindowOrder

\* Where check_t_reassembly moves rx_next_reassembly to.
LEMMA ExpiryIs ==
  ASSUME UmInv, t_reassembly
  PROVE  LET next == FirstUndelivered(rx_timer_trigger, rx_delivered)
         IN  /\ next \in Sn /\ next \notin rx_delivered
             /\ Off(rx_next_reassembly) <= Off(next) /\ Off(next) <= WindowSize
<1>1. /\ rx_next_highest \in Sn /\ rx_timer_trigger \in Sn /\ rx_delivered \in SUBSET Sn
      /\ rx_next_reassembly \in Sn
      /\ Offset(rx_next_highest, rx_timer_trigger) <= WindowSize
      /\ Off(rx_next_reassembly) <= Off(rx_timer_trigger)
  BY Zenon DEF UmInv, TypeInv, Trigger, Off
<1> DEFINE next == FirstUndelivered(rx_timer_trigger, rx_delivered)
<1>2. /\ next \in Sn /\ next \notin rx_delivered
      /\ Off(rx_timer_trigger) <= Off(next) /\ Off(next) <= WindowSize
  BY Zenon, <1>1, HighestOpen, FirstUndeliveredIs DEF Off
<1> HIDE DEF next
<1>3. /\ Off(rx_next_reassembly) \in Int /\ Off(rx_timer_trigger) \in Int
      /\ Off(next) \in Int
  BY SMTT(30), <1>1, <1>2, OffsetFacts, Window DEF Off
<1> QED BY SMTT(30), <1>1, <1>2, <1>3 DEF next

\* check_t_reassembly gives SDUs up and moves rx_next_reassembly on.
LEMMA ExpireUm == UmInv /\ Expire => UmInv'
<1> SUFFICES ASSUME UmInv, Expire PROVE UmInv'
  BY Zenon
<1> DEFINE next == FirstUndelivered(rx_timer_trigger, rx_delivered)
<1>1. /\ next \in Sn /\ next \notin rx_delivered
      /\ Off(rx_next_reassembly) <= Off(next) /\ Off(next) <= WindowSize
  BY Zenon, ExpiryIs DEF Expire, TReassemblyExpires
<1>2. /\ UNCHANGED <<tx_list, tx_next, tx_count, channel, offered, delivered, garbled>>
      /\ UNCHANGED <<rx_next_highest, rx_top>>
      /\ rx_next_reassembly' = next
      /\ rx_list' = {s \in rx_list : ~(Off(s.sn) < Off(next))}
      /\ rx_delivered' \subseteq rx_delivered
      /\ \/ rx_timer_trigger' = rx_next_highest
         \/ t_reassembly' = FALSE /\ rx_timer_trigger' = rx_timer_trigger
      /\ t_reassembly' \in BOOLEAN
  BY Zenon DEF Expire, TReassemblyExpires, tx_vars, deliveries, Off
<1> HIDE DEF next
<1>3. /\ \A sn : Off(sn)' = Off(sn) /\ Abs(sn)' = Abs(sn)
      /\ \A s : Stored(s)' = Stored(s)
      /\ Outside' \subseteq Outside
  BY Zenon, <1>2 DEF Off, Abs, Stored, Outside
<1>4. TypeInv' /\ Numbers'
  BY Zenon, <1>1, <1>2 DEF UmInv, TypeInv, Numbers
<1>5. Queue' /\ Sent'
  BY Zenon, <1>2, <1>3 DEF UmInv, Queue, Sent
<1>6. Pairs' /\ Settled'
  BY Zenon, <1>2, <1>3 DEF UmInv, Pairs, Settled
<1>7. WindowOrder'
  <2>1. \A s \in rx_list : Off(s.sn) \in Off(rx_next_reassembly) .. (WindowSize - 1)
    BY Zenon DEF UmInv, WindowOrder
  <2>2. Off(next) \in Int
    BY SMTT(30), <1>1, OffsetFacts, Window DEF UmInv, TypeInv, Off
  <2>3. \A s \in rx_list' : Off(s.sn) \in Off(next) .. (WindowSize - 1)
    BY SMTT(30), <1>2, <2>1, <2>2, Window
  <2> QED BY Zenon, <1>1, <1>2, <1>3, <2>3 DEF UmInv, WindowOrder
<1>8. Trigger'
  BY SMTT(30), <1>1, <1>2, <1>3, HighestOpen, Window DEF Trigger
<1> QED BY Zenon, <1>4, <1>5, <1>6, <1>7, <1>8 DEF UmInv

\* The deliver_sdu callback gets one whole SDU that was not delivered before.
LEMMA DeliverIs ==
  ASSUME UmInv, NEW S, NEW d \in Sdu, delivered[d] = 0, DeliverSdu(S),
         \A s \in S : Part(s) /\ s.data = d,
         \A b \in 0 .. (SduSize[d] - 1) : \E s \in S : b \in Bytes(s)
  PROVE  /\ delivered' = [delivered EXCEPT ![d] = 1] /\ garbled' = FALSE
         /\ delivered' \in [Sdu -> 0 .. 1]
<1>1. \A e \in Sdu : Reassembled(S) = WholeSdu(e) <=> e = d
  BY Zenon, WholeIs
<1>2. delivered \in [Sdu -> 0 .. 1] /\ garbled = FALSE
  BY Zenon DEF UmInv, TypeInv
<1>3. garbled' = FALSE
  BY Zenon, <1>1, <1>2 DEF DeliverSdu
<1>4. delivered' = [e \in Sdu |-> IF e = d THEN delivered[e] + 1 ELSE delivered[e]]
  BY Zenon, <1>1 DEF DeliverSdu
<1>5. delivered' = [e \in Sdu |-> IF e = d THEN 1 ELSE delivered[e]]
  BY <1>4
<1>6. delivered' = [delivered EXCEPT ![d] = 1]
  BY Zenon, <1>2, <1>5
<1>7. delivered' \in [Sdu -> 0 .. 1]
  BY <1>2, <1>5
<1> QED BY Zenon, <1>3, <1>6, <1>7

\* The invariant's part on what waits and what is outside, once an SDU that is
\* nowhere any more is delivered.
LEMMA DeliveryUm ==
  ASSUME UmInv, NEW d \in Sdu, d < offered,
         UNCHANGED <<tx_list, tx_next, tx_count, offered>>,
         delivered' = [delivered EXCEPT ![d] = 1],
         Outside' \subseteq Outside,
         \A k \in Outside' : k.seg.data # d,
         \A i \in DOMAIN tx_list : tx_list[i].data # d
  PROVE  Queue' /\ Sent'
<1>1. delivered \in [Sdu -> 0 .. 1] /\ d \in Nat /\ offered \in Nat /\ Sdu \subseteq Nat
  BY Zenon, UmAssumption DEF UmInv, TypeInv
<1>2. \A e \in Sdu : e # d => delivered'[e] = delivered[e]
  BY Zenon, <1>1
<1>3. \A i \in DOMAIN tx_list : tx_list[i].data \in Sdu
  <2>1. \A i \in DOMAIN tx_list : tx_list[i] \in TxSegment
    BY DEF UmInv, TypeInv
  <2> QED BY Zenon, <2>1 DEF TxSegment
<1>4. \A i \in DOMAIN tx_list : delivered'[tx_list[i].data] = 0
  BY Zenon, <1>2, <1>3 DEF UmInv, Queue
<1>5. \A e \in Sdu : e >= offered => delivered'[e] = 0
  <2>1. \A e \in Sdu : e >= offered => delivered[e] = 0
    BY Zenon DEF UmInv, Queue
  <2>2. \A e \in Sdu : e >= offered => e # d
    BY <1>1
  <2> QED BY Zenon, <1>2, <2>1, <2>2
<1>6. Queue'
  BY Zenon, <1>4, <1>5 DEF UmInv, Queue
<1>7. \A k \in Outside' : delivered'[k.seg.data] = 0
  BY Zenon, <1>2, OutsideIsPart DEF UmInv, Sent
<1>8. Sent'
  BY Zenon, <1>7 DEF UmInv, Sent
<1> QED BY Zenon, <1>6, <1>8

\* A PDU with a whole SDU is delivered at once.
LEMMA WholeUm ==
  ASSUME UmInv, NEW p \in channel, p.whole, DeliverSdu({p.seg}), UNCHANGED rx_vars,
         channel' = channel \ {p},
         UNCHANGED <<tx_list, tx_next, tx_count, offered>>
  PROVE  UmInv'
<1> DEFINE d == p.seg.data
<1>1. p \in Outside /\ IsPdu(p)
  BY Zenon DEF Outside, UmInv, TypeInv
<1>2. /\ d \in Sdu /\ SduSize[d] \in Nat \ {0} /\ p.seg.so = 0 /\ Part(p.seg)
      /\ p.seg.size = SduSize[d] /\ d < offered /\ delivered[d] = 0
  <2>1. Part(p.seg) /\ p.seg \in RxSegment /\ p.seg.so = 0 /\ p.seg.is_last
    BY Zenon, <1>1 DEF IsPdu, Part
  <2>2. d \in Sdu /\ SduSize[d] \in Nat \ {0} /\ p.seg.size \in Nat
    BY Zenon, <2>1, SduSizeAssumption DEF RxSegment
  <2>3. p.seg.size = SduSize[d]
    <3>1. p.seg.so + p.seg.size = SduSize[d]
      BY Zenon, <2>1 DEF Part
    <3> QED BY <2>1, <2>2, <3>1
  <2> QED BY Zenon, <1>1, <2>1, <2>2, <2>3 DEF UmInv, Sent
<1>3. \A b \in 0 .. (SduSize[d] - 1) : b \in Bytes(p.seg)
  BY <1>2 DEF Bytes
<1>4. /\ delivered' = [delivered EXCEPT ![d] = 1] /\ garbled' = FALSE
      /\ delivered' \in [Sdu -> 0 .. 1]
  BY Zenon, <1>2, <1>3, DeliverIs
<1>5. /\ WindowOrder' /\ Trigger'
      /\ Outside' \subseteq Outside /\ p \notin Outside'
      /\ \A s : Stored(s)' = Stored(s)
      /\ \A sn : Abs(sn)' = Abs(sn)
  BY Zenon, RxSame DEF Outside, UmInv, Pairs
<1>6. \A k \in Outside' : k.seg.data # d
  <2> SUFFICES ASSUME NEW k \in Outside, k # p, k.seg.data = d PROVE FALSE
    BY Zenon, <1>5
  <2>1. Apart(p.seg, k.seg)
    BY Zenon, <1>1 DEF UmInv, Pairs
  <2>2. /\ k.seg.so \in Nat /\ k.seg.size \in Nat \ {0}
        /\ k.seg.so + k.seg.size <= SduSize[d]
    BY Zenon, OutsideIsPart DEF Part
  <2> QED BY <1>2, <2>1, <2>2 DEF Apart
<1>7. \A i \in DOMAIN tx_list : tx_list[i].data # d
  <2> SUFFICES ASSUME NEW i \in DOMAIN tx_list, tx_list[i].data = d PROVE FALSE
    BY Zenon
  <2>1. /\ tx_list[i].so + tx_list[i].size = SduSize[d]
        /\ p.seg.so + p.seg.size <= tx_list[i].so
    BY Zenon, <1>1 DEF UmInv, Queue, Sent
  <2>2. tx_list[i] \in TxSegment
    BY DEF UmInv, TypeInv
  <2>3. tx_list[i].so \in Nat /\ tx_list[i].size \in Nat \ {0}
    BY Zenon, <2>2 DEF TxSegment
  <2> QED BY <1>2, <2>1, <2>3
<1>8. Queue' /\ Sent'
  BY Zenon, <1>2, <1>4, <1>5, <1>6, <1>7, DeliveryUm
<1>9. TypeInv' /\ Numbers'
  BY Zenon, <1>4 DEF UmInv, TypeInv, Numbers, rx_vars
<1>10. Pairs' /\ Settled'
  BY Zenon, <1>5 DEF UmInv, Pairs, Settled, rx_vars
<1> QED BY Zenon, <1>5, <1>8, <1>9, <1>10 DEF UmInv

\* reception_actions leaves t_reassembly running for an SN above
\* rx_next_reassembly.
LEMMA TriggerUm ==
  ASSUME UmInv, NEW next \in Sn, NEW highest \in Sn, NEW list, NEW done,
         UpdateReassembly(next, highest, list, done),
         rx_next_highest' = highest, rx_next_reassembly' = next,
         Offset(highest, next) <= WindowSize
  PROVE  Trigger' /\ t_reassembly' \in BOOLEAN /\ rx_timer_trigger' \in Sn
<1>1. t_reassembly \in BOOLEAN /\ rx_timer_trigger \in Sn
  BY Zenon DEF UmInv, TypeInv
<1>2. /\ \A y \in Sn : Offset(highest, y) \in Int
      /\ Offset(highest, highest) = WindowSize /\ WindowSize \in Int
  BY OffsetFacts, Window
<1>3. /\ t_reassembly' \in BOOLEAN
      /\ t_reassembly' => \/ rx_timer_trigger' = highest
                          \/ /\ rx_timer_trigger' = rx_timer_trigger
                             /\ ~ReassemblyOver(next, highest, list, done)
      /\ rx_timer_trigger' \in {highest, rx_timer_trigger}
  BY Zenon, <1>1 DEF UpdateReassembly
<1>4. ~ReassemblyOver(next, highest, list, done) =>
        /\ Offset(highest, next) <= Offset(highest, rx_timer_trigger)
        /\ Offset(highest, rx_timer_trigger) <= WindowSize
  BY <1>1, <1>2 DEF ReassemblyOver
<1> QED BY SMTT(30), <1>1, <1>2, <1>3, <1>4 DEF Trigger, Off

\* A PDU with a segment that is not too far behind has the number its SN says: it
\* becomes what is stored of it.
LEMMA ArrivalIs ==
  ASSUME UmInv, NEW p \in channel, ~p.whole, p.abs >= rx_top - WindowSize
  PROVE  /\ p \in Outside /\ p.seg.sn \in Sn /\ Part(p.seg) /\ p.abs \in Nat
         /\ Off(p.seg.sn) = p.abs - rx_top + WindowSize
         /\ Abs(p.seg.sn) = p.abs /\ Stored(p.seg) = p
         /\ \A s \in rx_list \cup {p.seg} : Stored(s) \in Outside /\ Part(s) /\ s.sn \in Sn
<1>1. /\ p \in Outside /\ IsPdu(p) /\ rx_top \in Nat
      /\ p.seg.sn = p.abs % SnModulus /\ p.abs < rx_top + WindowSize
      /\ rx_next_highest = rx_top % SnModulus
  BY Zenon DEF UmInv, TypeInv, Numbers, Outside
<1>2. p \in [seg : RxSegment, whole : BOOLEAN, abs : Nat] /\ Part(p.seg)
  BY Zenon, <1>1 DEF IsPdu
<1>3. /\ p.seg.sn \in Sn
      /\ Offset(rx_next_highest, p.seg.sn) = p.abs - rx_top + WindowSize
  BY Zenon, <1>1, <1>2, OffsetOfNumber
<1>4. p.abs \in Nat /\ Abs(p.seg.sn) = p.abs
  BY SMTT(30), <1>1, <1>2, <1>3, Window DEF Abs, Off
<1>5. p = [seg |-> p.seg, whole |-> p.whole, abs |-> p.abs] /\ p.whole = FALSE
  BY Zenon, <1>2
<1>6. Stored(p.seg) = p
  BY Zenon, <1>4, <1>5 DEF Stored
<1>7. \A s \in rx_list : Stored(s) \in Outside /\ Part(s) /\ s.sn \in Sn
  BY Zenon DEF UmInv, TypeInv, Outside, Part, RxSegment
<1> QED BY Zenon, <1>1, <1>2, <1>3, <1>4, <1>6, <1>7 DEF Off

\* When sdu_full says so, the segments of the SN make up the SDU of this number,
\* nothing else of it is outside or waits, and the SN was in the window.
LEMMA FullIs ==
  ASSUME UmInv, NEW p \in channel, ~p.whole, p.abs >= rx_top - WindowSize,
         SduFull(rx_list \cup {p.seg}, rx_delivered, p.seg.sn)
  PROVE  LET S == SegmentsOf(rx_list \cup {p.seg}, p.seg.sn)
             d == p.seg.data
         IN  /\ \A s \in S : Part(s) /\ s.data = d
             /\ \A b \in 0 .. (SduSize[d] - 1) : \E s \in S : b \in Bytes(s)
             /\ \A k \in Outside : k.seg.data = d => \E s \in S : k = Stored(s)
             /\ \A i \in DOMAIN tx_list : tx_list[i].data # d
             /\ p.abs < tx_count
             /\ \E s \in rx_list : s.sn = p.seg.sn
<1> DEFINE list == rx_list \cup {p.seg}
           x == p.seg.sn
           S == SegmentsOf(list, x)
           d == p.seg.data
<1>1. /\ p \in Outside /\ x \in Sn /\ Part(p.seg) /\ p.abs \in Nat
      /\ Abs(x) = p.abs /\ Stored(p.seg) = p
      /\ \A s \in list : Stored(s) \in Outside /\ Part(s) /\ s.sn \in Sn
  BY Zenon, ArrivalIs
<1>2. \A s \in S : s \in list /\ s.sn = x
  BY Zenon DEF SegmentsOf
<1>3. \A s : /\ Stored(s).seg = s /\ ~Stored(s).whole
             /\ s.sn = x => Stored(s).abs = Abs(x)
  BY Zenon DEF Stored
<1>4. \A s \in S : Part(s) /\ s.data = d
  <2> SUFFICES ASSUME NEW s \in S PROVE Part(s) /\ s.data = d
    BY Zenon
  <2>1. s \in list /\ s.sn = x
    BY Zenon, <1>2
  <2>2. /\ Part(s) /\ Stored(s) \in Outside /\ Stored(s).seg = s /\ ~Stored(s).whole
        /\ Stored(s).abs = p.abs
    BY Zenon, <1>1, <1>3, <2>1
  <2>3. Stored(s).seg.data = p.seg.data
    BY Zenon, <1>1, <2>2 DEF UmInv, Pairs
  <2> QED BY Zenon, <2>2, <2>3
<1>5. PICK l \in S : l.is_last /\ (0 .. (l.so - 1)) \subseteq Received(list, x)
  BY Zenon DEF SduFull
<1>6. d \in Sdu /\ SduSize[d] \in Nat \ {0} /\ p.seg.so \in Nat /\ p.seg.size \in Nat \ {0}
      /\ p.seg.is_last \in BOOLEAN
  BY Zenon, <1>1, SduSizeAssumption DEF Part, RxSegment
<1>7. l.so \in Nat /\ l.size \in Nat \ {0} /\ l.so + l.size = SduSize[d]
  BY Zenon, <1>4, <1>5 DEF Part, RxSegment
<1>8. \A b \in 0 .. (SduSize[d] - 1) : \E s \in S : b \in Bytes(s)
  <2> SUFFICES ASSUME NEW b \in 0 .. (SduSize[d] - 1) PROVE \E s \in S : b \in Bytes(s)
    BY Zenon
  <2>1. CASE b < l.so
    <3>1. b \in 0 .. (l.so - 1)
      BY SMTT(30), <1>6, <1>7, <2>1
    <3> QED BY Zenon, <1>5, <3>1 DEF Received
  <2>2. CASE b >= l.so
    <3>1. b \in Bytes(l)
      BY SMTT(30), <1>6, <1>7, <2>2 DEF Bytes
    <3> QED BY Zenon, <3>1
  <2>3. b < l.so \/ b >= l.so
    BY <1>7
  <2> QED BY Zenon, <2>1, <2>2, <2>3
<1>9. \A k \in Outside : k.seg.data = d => \E s \in S : k = Stored(s)
  <2> SUFFICES ASSUME NEW k \in Outside, k.seg.data = d PROVE \E s \in S : k = Stored(s)
    BY Zenon
  <2>1. /\ k.seg.so \in Nat /\ k.seg.size \in Nat \ {0}
        /\ k.seg.so + k.seg.size <= SduSize[d]
    BY Zenon, OutsideIsPart DEF Part
  <2>2. PICK s \in S : k.seg.so \in Bytes(s)
    <3>1. k.seg.so \in 0 .. (SduSize[d] - 1)
      BY <1>6, <2>1
    <3> QED BY Zenon, <1>8, <3>1
  <2>3. s.so \in Nat /\ s.size \in Nat \ {0}
    BY Zenon, <1>4 DEF Part, RxSegment
  <2>4. ~Apart(k.seg, s)
    <3>1. s.so <= k.seg.so /\ k.seg.so < s.so + s.size
      BY <2>1, <2>2, <2>3 DEF Bytes
    <3> QED BY SMTT(30), <2>1, <2>3, <3>1 DEF Apart
  <2>5. Stored(s) \in Outside /\ Stored(s).seg = s /\ s.data = d
    BY Zenon, <1>1, <1>2, <1>3, <1>4
  <2>6. k = Stored(s)
    BY Zenon, <2>4, <2>5 DEF UmInv, Pairs
  <2> QED BY Zenon, <2>6
<1>10. \A i \in DOMAIN tx_list : tx_list[i].data # d
  <2> SUFFICES ASSUME NEW i \in DOMAIN tx_list, tx_list[i].data = d PROVE FALSE
    BY Zenon
  <2>1. Stored(l) \in Outside /\ Stored(l).seg = l /\ l.data = d
    BY Zenon, <1>1, <1>2, <1>3, <1>4
  <2>2. /\ tx_list[i].so + tx_list[i].size = SduSize[d]
        /\ l.so + l.size <= tx_list[i].so
    <3>1. tx_list[i].so + tx_list[i].size = SduSize[tx_list[i].data]
      BY Zenon DEF UmInv, Queue
    <3>2. Stored(l).seg.data = tx_list[i].data
            => Stored(l).seg.so + Stored(l).seg.size <= tx_list[i].so
      BY Zenon, <2>1 DEF UmInv, Sent
    <3> QED BY Zenon, <2>1, <3>1, <3>2
  <2>3. tx_list[i] \in TxSegment
    <3>1. tx_list \in Seq(TxSegment)
      BY Zenon DEF UmInv, TypeInv
    <3> QED BY SMTT(30), <3>1
  <2>4. tx_list[i].so \in Nat /\ tx_list[i].size \in Nat \ {0}
    BY Zenon, <2>3 DEF TxSegment
  <2> QED BY SMTT(30), <1>6, <1>7, <2>2, <2>4
<1>11. p.abs < tx_count
  <2>1. p.abs <= tx_count /\ (p.abs = tx_count => tx_list # <<>> /\ tx_list[1].data = d)
    BY Zenon, <1>1 DEF UmInv, Sent
  <2>2. tx_list # <<>> => 1 \in DOMAIN tx_list
    BY DEF UmInv, TypeInv
  <2>3. tx_count \in Nat
    BY Zenon DEF UmInv, TypeInv
  <2> QED BY SMTT(30), <1>1, <1>10, <2>1, <2>2, <2>3
<1>12. \E s \in rx_list : s.sn = x
  <2>1. p.seg.so # 0 \/ ~p.seg.is_last
    BY Zenon DEF UmInv, TypeInv, IsPdu
  <2>2. CASE ~p.seg.is_last
    BY Zenon, <1>2, <1>5, <2>2
  <2>3. CASE p.seg.so # 0
    <3>1. 0 \in 0 .. (SduSize[d] - 1)
      BY <1>6
    <3>2. PICK s \in S : 0 \in Bytes(s)
      BY Zenon, <1>8, <3>1
    <3>3. s # p.seg
      BY SMTT(30), <1>6, <2>3, <3>2 DEF Bytes
    <3> QED BY Zenon, <1>2, <3>3
  <2> QED BY Zenon, <2>1, <2>2, <2>3
<1> QED BY Zenon, <1>4, <1>8, <1>9, <1>10, <1>11, <1>12

\* The last segment of an SDU arrives: the SDU is put together and delivered.
LEMMA FullUm ==
  ASSUME UmInv, NEW p \in channel, ~p.whole, p.abs >= rx_top - WindowSize,
         SduFull(rx_list \cup {p.seg}, rx_delivered, p.seg.sn),
         ReceptionActions(p.seg), channel' = channel \ {p},
         UNCHANGED <<tx_list, tx_next, tx_count, offered>>
  PROVE  UmInv' /\ Abs(rx_next_reassembly) <= Abs(rx_next_reassembly)'
<1> DEFINE list == rx_list \cup {p.seg}
           x == p.seg.sn
           S == SegmentsOf(list, x)
           d == p.seg.data
           done == rx_delivered \cup {x}
<1>1. /\ p \in Outside /\ x \in Sn /\ Part(p.seg) /\ p.abs \in Nat
      /\ Abs(x) = p.abs /\ Stored(p.seg) = p
      /\ \A s \in list : Stored(s) \in Outside /\ Part(s) /\ s.sn \in Sn
  BY Zenon, ArrivalIs
<1>2. /\ \A s \in S : Part(s) /\ s.data = d
      /\ \A b \in 0 .. (SduSize[d] - 1) : \E s \in S : b \in Bytes(s)
      /\ \A k \in Outside : k.seg.data = d => \E s \in S : k = Stored(s)
      /\ \A i \in DOMAIN tx_list : tx_list[i].data # d
      /\ p.abs < tx_count
      /\ \E s \in rx_list : s.sn = x
  BY Zenon, FullIs
<1>3. /\ rx_next_highest' = rx_next_highest
      /\ rx_top' = rx_top + ((rx_next_highest - rx_next_highest) % SnModulus)
      /\ rx_list' = list \ S /\ rx_delivered' = done
      /\ rx_next_reassembly' = IF x = rx_next_reassembly THEN FirstUndelivered(x, done)
                               ELSE rx_next_reassembly
      /\ DeliverSdu(S)
      /\ UpdateReassembly(rx_next_reassembly', rx_next_highest, list \ S, done)
  BY Zenon DEF ReceptionActions, NextReassembly
<1>4. /\ rx_next_highest \in Sn /\ rx_next_reassembly \in Sn /\ rx_top \in Nat
      /\ rx_delivered \in SUBSET Sn
  BY ZenonT(60) DEF UmInv, TypeInv
<1>5. rx_top' = rx_top
  <2>1. rx_next_highest - rx_next_highest = 0
    BY <1>4 DEF Sn
  <2> QED BY SMTT(30), <1>3, <1>4, <2>1, Window
<1>6. /\ \A sn : Off(sn)' = Off(sn) /\ Abs(sn)' = Abs(sn)
      /\ \A s : Stored(s)' = Stored(s)
  BY Zenon, <1>3, <1>5 DEF Off, Abs, Stored
<1>7. /\ \A s \in S : s \in list /\ s.sn = x
      /\ \A s \in list : s \notin S => s.sn # x
      /\ \A s : Stored(s).seg = s
  BY Zenon DEF SegmentsOf, Stored
<1> HIDE DEF S
<1>8. Outside' \subseteq Outside /\ \A k \in Outside' : k.seg.data # d
  <2> SUFFICES ASSUME NEW k \in Outside' PROVE k \in Outside /\ k.seg.data # d
    BY Zenon
  <2>1. CASE k \in channel'
    <3>1. k \in Outside
      BY Zenon, <2>1 DEF Outside
    <3>2. k # p /\ \A s \in rx_list : k # Stored(s)
      BY ZenonT(60), <2>1 DEF UmInv, Pairs
    <3> QED BY Zenon, <1>1, <1>2, <1>7, <3>1, <3>2
  <2>2. CASE \E s \in rx_list' : k = Stored(s)
    <3>1. PICK t \in list \ S : k = Stored(t)
      BY Zenon, <1>3, <2>2
    <3> QED BY SMTT(30), <1>1, <1>2, <1>7, <3>1
  <2> QED BY Zenon, <1>6, <2>1, <2>2 DEF Outside
<1>9. d \in Sdu /\ d < offered /\ delivered[d] = 0
  BY Zenon, <1>1, OutsideIsPart DEF UmInv, Sent
<1>10. /\ delivered' = [delivered EXCEPT ![d] = 1] /\ garbled' = FALSE
       /\ delivered' \in [Sdu -> 0 .. 1]
  BY Zenon, <1>2, <1>3, <1>9, DeliverIs
<1>11. Queue' /\ Sent'
  BY Zenon, <1>2, <1>8, <1>9, <1>10, DeliveryUm
<1>12. Pairs'
  <2>1. \A s \in rx_list' : Stored(s)' \notin channel'
    BY Zenon, <1>1, <1>3, <1>6 DEF UmInv, Pairs
  <2> QED BY Zenon, <1>8, <2>1 DEF UmInv, Pairs
<1>13. Settled'
  <2>1. \A k \in Outside' : ~k.whole => k.abs # p.abs
    BY Zenon, <1>1, <1>8 DEF UmInv, Pairs
  <2> QED BY Zenon, <1>1, <1>2, <1>3, <1>6, <1>8, <2>1 DEF UmInv, Settled
<1>14. /\ Off(x) < WindowSize /\ done \in SUBSET Sn /\ rx_next_highest \notin done
       /\ \A sn \in done : Off(sn) < WindowSize
  <2>1. Off(x) \in Off(rx_next_reassembly) .. (WindowSize - 1)
    BY Zenon, <1>2 DEF UmInv, WindowOrder
  <2>2. \A sn \in rx_delivered : Off(sn) < WindowSize
    BY Zenon DEF UmInv, WindowOrder
  <2>3. Off(x) < WindowSize
    BY SMTT(30), <2>1, Window
  <2>4. rx_next_highest \notin rx_delivered /\ Off(rx_next_highest) = WindowSize
    BY Zenon, HighestOpen
  <2>5. rx_next_highest # x
    BY SMTT(30), <2>3, <2>4, Window
  <2> QED BY Zenon, <1>1, <1>4, <2>2, <2>3, <2>4, <2>5
<1>15. /\ rx_next_reassembly' \in Sn /\ rx_next_reassembly' \notin done
       /\ Off(rx_next_reassembly) <= Off(rx_next_reassembly')
       /\ Off(rx_next_reassembly') <= WindowSize
       /\ \A y \in Sn : Off(rx_next_reassembly) <= Off(y)
                        /\ Off(y) < Off(rx_next_reassembly') => y \in done
  <2>1. /\ Off(rx_next_reassembly) <= WindowSize /\ rx_next_reassembly \notin rx_delivered
        /\ \A y \in Sn : Off(y) \in Int
    BY SMTT(30), <1>4, OffsetFacts, Window DEF UmInv, WindowOrder, Off
  <2>2. CASE x = rx_next_reassembly
    <3> HIDE DEF done
    <3>1. rx_next_reassembly' = FirstUndelivered(x, done) /\ x = rx_next_reassembly
      BY Zenon, <1>3, <2>2
    <3>2. Offset(rx_next_highest, x) <= WindowSize
      BY Zenon, <2>1, <2>2 DEF Off
    <3>3. LET f == FirstUndelivered(x, done)
          IN  /\ f \in Sn /\ f \notin done
              /\ Off(x) <= Off(f) /\ Off(f) <= WindowSize
              /\ \A y \in Sn : Off(x) <= Off(y) /\ Off(y) < Off(f) => y \in done
      BY ZenonT(60), <1>1, <1>4, <1>14, <3>2, FirstUndeliveredIs DEF Off
    <3> QED BY Zenon, <3>1, <3>3
  <2>3. CASE x # rx_next_reassembly
    <3>1. rx_next_reassembly' = rx_next_reassembly
      BY Zenon, <1>3, <2>3
    <3>2. Off(rx_next_reassembly) \in Int
      BY Zenon, <1>4, <2>1
    <3>3. \A y \in Sn : ~(/\ Off(rx_next_reassembly) <= Off(y)
                          /\ Off(y) < Off(rx_next_reassembly))
      BY SMTT(30), <2>1, <3>2
    <3> QED BY SMTT(30), <1>4, <2>1, <2>3, <3>1, <3>2, <3>3
  <2> QED BY Zenon, <2>2, <2>3
<1>16. WindowOrder'
  <2>1. ASSUME NEW s \in rx_list' PROVE Off(s.sn) \in Off(rx_next_reassembly') .. (WindowSize - 1)
    <3>1. s \in rx_list /\ s.sn \in Sn /\ Stored(s) \in Outside' /\ s \in list
      BY Zenon, <1>1, <1>3, <1>6, <1>7, <2>1 DEF Outside
    <3>2. Off(s.sn) \in Off(rx_next_reassembly) .. (WindowSize - 1)
      BY Zenon, <3>1 DEF UmInv, WindowOrder
    <3>3. Stored(s).abs = Abs(s.sn) /\ ~Stored(s).whole
      BY Zenon DEF Stored
    <3>4. s.sn \notin done
      BY ZenonT(60), <1>3, <1>6, <1>13, <3>1, <3>3 DEF Settled
    <3>5. Off(s.sn) \in Int /\ Off(rx_next_reassembly) \in Int
          /\ Off(rx_next_reassembly') \in Int
      BY SMTT(30), <1>4, <1>15, <3>1, OffsetFacts, Window DEF Off
    <3>6. ~(Off(s.sn) < Off(rx_next_reassembly'))
      BY SMTT(30), <1>15, <3>1, <3>2, <3>4, <3>5
    <3> QED BY SMTT(30), <3>2, <3>5, <3>6, Window
  <2> QED BY ZenonT(60), <1>3, <1>6, <1>14, <1>15, <2>1 DEF WindowOrder
<1>17. Trigger' /\ t_reassembly' \in BOOLEAN /\ rx_timer_trigger' \in Sn
  BY Zenon, <1>3, <1>4, <1>15, TriggerUm DEF Off
<1>18. TypeInv' /\ Numbers'
  BY ZenonT(60), <1>1, <1>3, <1>4, <1>5, <1>10, <1>14, <1>15, <1>17 DEF UmInv, TypeInv, Numbers
<1>19. Abs(rx_next_reassembly) <= Abs(rx_next_reassembly')
  <2>1. Off(rx_next_reassembly) \in Int /\ Off(rx_next_reassembly') \in Int
    BY SMTT(30), <1>4, <1>15, OffsetFacts, Window DEF Off
  <2> QED BY SMTT(30), <1>4, <1>15, <2>1, Window DEF Abs
<1>20. Abs(rx_next_reassembly)' = Abs(rx_next_reassembly')
  BY Zenon, <1>3, <1>5 DEF Abs, Off
<1> QED BY Zenon, <1>11, <1>12, <1>13, <1>16, <1>17, <1>18, <1>19, <1>20 DEF UmInv

\* A segment is kept, and the window with it.
LEMMA KeepUm ==
  ASSUME UmInv, NEW p \in channel, ~p.whole, p.abs >= rx_top - WindowSize,
         ~SduFull(rx_list \cup {p.seg}, rx_delivered, p.seg.sn),
         ~TooLate(p.seg.sn), InWindow(rx_next_highest, p.seg.sn),
         ReceptionActions(p.seg), channel' = channel \ {p},
         UNCHANGED <<tx_list, tx_next, tx_count, offered>>
  PROVE  UmInv' /\ Abs(rx_next_reassembly) <= Abs(rx_next_reassembly)'
<1> DEFINE list == rx_list \cup {p.seg}
           x == p.seg.sn
<1>1. /\ p \in Outside /\ x \in Sn /\ Part(p.seg) /\ p.abs \in Nat
      /\ Abs(x) = p.abs /\ Stored(p.seg) = p
      /\ \A s \in list : Stored(s) \in Outside /\ Part(s) /\ s.sn \in Sn
  BY Zenon, ArrivalIs
<1>2. /\ rx_next_highest' = rx_next_highest
      /\ rx_top' = rx_top + ((rx_next_highest - rx_next_highest) % SnModulus)
      /\ rx_list' = list /\ rx_delivered' = rx_delivered
      /\ rx_next_reassembly' = rx_next_reassembly
      /\ UNCHANGED <<delivered, garbled>>
      /\ UpdateReassembly(rx_next_reassembly, rx_next_highest, list, rx_delivered)
  BY Zenon DEF ReceptionActions, NextReassembly, deliveries
<1>3. /\ rx_next_highest \in Sn /\ rx_next_reassembly \in Sn /\ rx_top \in Nat
      /\ Off(rx_next_reassembly) <= WindowSize
  BY Zenon DEF UmInv, TypeInv, WindowOrder
<1>4. rx_top' = rx_top
  <2>1. rx_next_highest - rx_next_highest = 0
    BY <1>3 DEF Sn
  <2> QED BY SMTT(30), <1>2, <1>3, <2>1, Window
<1>5. /\ \A sn : Off(sn)' = Off(sn) /\ Abs(sn)' = Abs(sn)
      /\ \A s : Stored(s)' = Stored(s)
  BY Zenon, <1>2, <1>4 DEF Off, Abs, Stored
<1>6. Outside' \subseteq Outside
  BY Zenon, <1>1, <1>2, <1>5 DEF Outside
<1>7. Queue' /\ Sent'
  BY Zenon, <1>2, <1>6 DEF UmInv, Queue, Sent
<1>8. Pairs'
  <2>1. \A s \in rx_list' : Stored(s)' \notin channel'
    BY Zenon, <1>1, <1>2, <1>5 DEF UmInv, Pairs
  <2> QED BY Zenon, <1>6, <2>1 DEF UmInv, Pairs
<1>9. Settled'
  BY Zenon, <1>2, <1>5, <1>6 DEF UmInv, Settled
<1>10. Off(x) \in Off(rx_next_reassembly) .. (WindowSize - 1)
  <2>1. Off(x) \in Int /\ Off(rx_next_reassembly) \in Int
    BY SMTT(30), <1>1, <1>3, OffsetFacts, Window DEF Off
  <2>2. Off(x) < WindowSize /\ ~(Off(x) < Off(rx_next_reassembly))
    BY Zenon DEF InWindow, TooLate, Off
  <2> QED BY SMTT(30), <2>1, <2>2, Window
<1>11. WindowOrder'
  BY Zenon, <1>2, <1>5, <1>10 DEF UmInv, WindowOrder
<1>12. Trigger' /\ t_reassembly' \in BOOLEAN /\ rx_timer_trigger' \in Sn
  BY Zenon, <1>2, <1>3, TriggerUm DEF Off
<1>13. TypeInv' /\ Numbers'
  BY Zenon, <1>1, <1>2, <1>4, <1>12 DEF UmInv, TypeInv, Numbers
<1>14. Abs(rx_next_reassembly) <= Abs(rx_next_reassembly)'
  <2>1. Abs(rx_next_reassembly)' = Abs(rx_next_reassembly)
    BY Zenon, <1>2, <1>4 DEF Abs, Off
  <2>2. Abs(rx_next_reassembly) \in Int
    BY Zenon, <1>3, AbsType
  <2> QED BY <2>1, <2>2
<1> QED BY ZenonT(60), <1>7, <1>8, <1>9, <1>11, <1>12, <1>13, <1>14 DEF UmInv

\* A segment above the window moves the window up.
LEMMA MoveUm ==
  ASSUME UmInv, NEW p \in channel, ~p.whole, p.abs >= rx_top - WindowSize,
         ~SduFull(rx_list \cup {p.seg}, rx_delivered, p.seg.sn),
         ~InWindow(rx_next_highest, p.seg.sn),
         ReceptionActions(p.seg), channel' = channel \ {p},
         UNCHANGED <<tx_list, tx_next, tx_count, offered>>
  PROVE  UmInv' /\ Abs(rx_next_reassembly) <= Abs(rx_next_reassembly)'
<1> DEFINE list == rx_list \cup {p.seg}
           x == p.seg.sn
           top == SnAdd(x, 1)
           delta == Off(x) - WindowSize + 1
           kept == {s \in list : InWindow(top, s.sn)}
           done == {n \in rx_delivered : InWindow(top, n)}
           R == rx_next_reassembly
<1>1. /\ p \in Outside /\ x \in Sn /\ Part(p.seg) /\ p.abs \in Nat
      /\ Off(x) = p.abs - rx_top + WindowSize
      /\ Abs(x) = p.abs /\ Stored(p.seg) = p
      /\ \A s \in list : Stored(s) \in Outside /\ Part(s) /\ s.sn \in Sn
  BY Zenon, ArrivalIs
<1>2. /\ rx_next_highest \in Sn /\ R \in Sn /\ rx_top \in Nat
      /\ Off(R) <= WindowSize /\ R \notin rx_delivered
      /\ rx_delivered \in SUBSET Sn
      /\ \A s \in rx_list : Off(s.sn) \in Off(R) .. (WindowSize - 1)
  BY Zenon DEF UmInv, TypeInv, WindowOrder
<1>3. /\ top \in Sn /\ delta \in 1 .. WindowSize
      /\ (top - rx_next_highest) % SnModulus = delta
      /\ \A y \in Sn : Offset(top, y) = IF Off(y) >= delta THEN Off(y) - delta
                                        ELSE Off(y) - delta + SnModulus
  BY ZenonT(60), <1>1, <1>2, WindowMoves DEF Off
<1>4. top # rx_next_highest
  <2>1. top = rx_next_highest => top - rx_next_highest = 0
    BY <1>2 DEF Sn
  <2> QED BY SMTT(30), <1>3, <2>1, Window
<1>5. /\ rx_next_highest' = top /\ rx_top' = rx_top + delta
      /\ rx_list' = kept /\ rx_delivered' = done
      /\ R' = IF InWindow(top, R) THEN R
              ELSE FirstUndelivered(SnAdd(top, SnModulus - WindowSize), done)
      /\ UNCHANGED <<delivered, garbled>>
      /\ UpdateReassembly(R', top, kept, done)
  <2> HIDE DEF top, delta
  <2>1. /\ rx_next_highest' = top
        /\ rx_top' = rx_top + ((top - rx_next_highest) % SnModulus)
        /\ rx_list' = kept /\ rx_delivered' = done
        /\ R' = NextReassembly(x, SduFull(list, rx_delivered, x), top, done)
        /\ UNCHANGED <<delivered, garbled>>
        /\ UpdateReassembly(R', top, kept, done)
    BY Zenon DEF ReceptionActions, deliveries, top
  <2>2. NextReassembly(x, SduFull(list, rx_delivered, x), top, done)
          = IF InWindow(top, R) THEN R
            ELSE FirstUndelivered(SnAdd(top, SnModulus - WindowSize), done)
    BY Zenon, <1>4 DEF NextReassembly
  <2> QED BY Zenon, <1>3, <2>1, <2>2
<1>6. /\ \A y \in Sn : Off(y) \in 0 .. (SnModulus - 1)
      /\ \A y \in Sn : Offset(top, y) \in 0 .. (SnModulus - 1)
      /\ Offset(top, top) = WindowSize
      /\ WindowSize \in Nat /\ WindowSize >= 2 /\ SnModulus = 2 * WindowSize
  BY ZenonT(60), <1>2, <1>3, OffsetFacts, Window DEF Off
<1> HIDE DEF top, delta
<1>7. \A y \in Sn : InWindow(top, y) => /\ Offset(top, y) = Off(y) - delta
                                        /\ Offset(top, y) < WindowSize
  BY SMTT(30), <1>3, <1>6 DEF InWindow
<1>8. \A y : Off(y)' = Offset(top, y)
  BY ZenonT(60), <1>5 DEF Off
<1>9. \A y \in Sn : InWindow(top, y) => Abs(y)' = Abs(y)
  <2> SUFFICES ASSUME NEW y \in Sn, InWindow(top, y) PROVE Abs(y)' = Abs(y)
    BY Zenon
  <2>1. Abs(y)' = ((rx_top + delta) - WindowSize) + (Off(y) - delta)
    <3>1. Abs(y)' = rx_top' - WindowSize + Off(y)'
      BY Zenon DEF Abs
    <3> QED BY Zenon, <1>5, <1>7, <1>8, <3>1
  <2> QED BY SMTT(30), <1>2, <1>3, <1>6, <2>1 DEF Abs
<1>10. \A s \in kept : s \in list /\ s.sn \in Sn /\ InWindow(top, s.sn)
  BY Zenon, <1>1
<1>11. \A s \in kept : Stored(s)' = Stored(s)
  BY Zenon, <1>9, <1>10 DEF Stored
<1>12. Outside' \subseteq Outside
  BY Zenon, <1>1, <1>5, <1>10, <1>11 DEF Outside
<1>13. Queue' /\ Sent'
  BY Zenon, <1>5, <1>12 DEF UmInv, Queue, Sent
<1>14. Pairs'
  <2>1. \A s \in rx_list' : Stored(s)' \notin channel'
    BY Zenon, <1>1, <1>5, <1>10, <1>11 DEF UmInv, Pairs
  <2> QED BY Zenon, <1>12, <2>1 DEF UmInv, Pairs
<1>15. Settled'
  <2>1. \A n \in done : n \in rx_delivered /\ n \in Sn /\ Abs(n)' = Abs(n)
    BY Zenon, <1>2, <1>9
  <2> QED BY Zenon, <1>5, <1>12, <2>1 DEF UmInv, Settled
<1>16. rx_top' = p.abs + 1 /\ rx_top' \in Nat /\ rx_top <= rx_top'
  <2>1. delta = p.abs - rx_top + 1
    BY SMTT(30), <1>1, <1>2, <1>6 DEF delta
  <2>2. rx_top' = rx_top + delta /\ rx_top \in Nat /\ p.abs \in Nat /\ delta \in 1 .. WindowSize
    BY Zenon, <1>1, <1>2, <1>3, <1>5
  <2> HIDE DEF delta
  <2> QED BY SMTT(30), <2>1, <2>2, Window
<1>17. Numbers'
  <2>1. x = p.abs % SnModulus
    BY Zenon DEF UmInv, Numbers
  <2>2. rx_next_highest' = rx_top' % SnModulus
    BY ZenonT(60), <1>1, <1>5, <1>16, <2>1, NextNumber DEF top
  <2>3. \A q \in channel' : ~q.whole => /\ q.seg.sn = q.abs % SnModulus
                                        /\ q.abs < rx_top' + WindowSize
    <3>1. \A q \in channel' : ~q.whole => /\ q.seg.sn = q.abs % SnModulus
                                          /\ q.abs < rx_top + WindowSize /\ q.abs \in Nat
      BY Zenon DEF UmInv, TypeInv, Numbers, IsPdu
    <3> QED BY SMTT(30), <1>2, <1>6, <1>16, <3>1
  <2> QED BY Zenon, <2>2, <2>3 DEF UmInv, Numbers
<1>18. done \in SUBSET Sn /\ top \notin done /\ \A n \in done : Offset(top, n) < WindowSize
  BY SMTT(30), <1>2, <1>6, <1>7
<1>19. /\ R' \in Sn /\ R' \notin done /\ Offset(top, R') <= WindowSize
       /\ \A s \in kept : Offset(top, R') <= Offset(top, s.sn)
       /\ Off(R) <= delta + Offset(top, R')
  <2>1. CASE InWindow(top, R)
    <3>1. R' = R /\ Offset(top, R) = Off(R) - delta /\ Offset(top, R) < WindowSize
      BY ZenonT(60), <1>2, <1>5, <1>7, <2>1
    <3>2. \A s \in kept : Off(R) <= Off(s.sn)
      <4>1. Off(R) <= Off(x)
        BY SMTT(30), <1>1, <1>2, <1>6 DEF InWindow, Off
      <4> QED BY SMTT(30), <1>2, <1>6, <1>10, <4>1
    <3>3. \A s \in kept : Offset(top, s.sn) = Off(s.sn) - delta /\ Off(s.sn) \in Int
      BY SMTT(30), <1>6, <1>7, <1>10
    <3> QED BY SMTT(30), <1>2, <1>3, <1>6, <3>1, <3>2, <3>3
  <2>2. CASE ~InWindow(top, R)
    <3> DEFINE base == SnAdd(top, SnModulus - WindowSize)
    <3>1. base \in Sn /\ Offset(top, base) = 0
      <4>1. SnModulus - WindowSize = WindowSize /\ WindowSize \in Sn
        BY SMTT(30), <1>6 DEF Sn
      <4>2. base \in Sn /\ Modulus(top, base) = WindowSize
        BY SMTT(30), <1>3, <1>6, <4>1, SnAddType, ModulusSnAdd
      <4> QED BY SMTT(30), <1>3, <1>6, <4>2, OffsetIs
    <3>2. R' = FirstUndelivered(base, done)
      BY Zenon, <1>5, <2>2
    <3> HIDE DEF base
    <3>3. Offset(top, base) <= WindowSize
      BY SMTT(30), <1>6, <3>1
    <3>4. /\ R' \in Sn /\ R' \notin done /\ Offset(top, R') <= WindowSize
          /\ \A y \in Sn : Offset(top, base) <= Offset(top, y)
                           /\ Offset(top, y) < Offset(top, R') => y \in done
      BY Zenon, <1>3, <1>18, <3>1, <3>2, <3>3, FirstUndeliveredIs
    <3>5. \A s \in kept : s.sn \notin done
      <4>1. \A s \in kept : Stored(s) \in Outside' /\ Stored(s).abs = Abs(s.sn)
                            /\ ~Stored(s).whole
        BY Zenon, <1>5, <1>11 DEF Outside, Stored
      <4> QED BY Zenon, <1>1, <1>2, <1>12, <4>1 DEF UmInv, Settled
    <3>6. \A s \in kept : Offset(top, R') <= Offset(top, s.sn)
      BY SMTT(30), <1>6, <1>10, <3>1, <3>4, <3>5
    <3>7. Off(R) <= delta
      BY SMTT(30), <1>2, <1>3, <1>6, <2>2 DEF InWindow
    <3> QED BY SMTT(30), <1>2, <1>3, <1>6, <3>4, <3>6, <3>7
  <2> QED BY ZenonT(60), <2>1, <2>2
<1>20. WindowOrder'
  <2>1. \A s \in kept : Offset(top, s.sn) \in Offset(top, R') .. (WindowSize - 1)
    BY SMTT(30), <1>6, <1>7, <1>10, <1>19
  <2> QED BY ZenonT(60), <1>5, <1>8, <1>18, <1>19, <2>1 DEF WindowOrder, Off
<1>21. Trigger' /\ t_reassembly' \in BOOLEAN /\ rx_timer_trigger' \in Sn
  BY Zenon, <1>3, <1>5, <1>19, TriggerUm
<1>22. TypeInv'
  BY ZenonT(60), <1>1, <1>3, <1>5, <1>10, <1>16, <1>18, <1>19, <1>21 DEF UmInv, TypeInv
<1>23. Abs(R) <= Abs(R)'
  <2>1. Abs(R)' = ((rx_top + delta) - WindowSize) + Offset(top, R')
    <3>1. Abs(R)' = rx_top' - WindowSize + Offset(rx_next_highest', R')
      BY Zenon DEF Abs, Off
    <3> QED BY Zenon, <1>5, <3>1
  <2> QED BY SMTT(30), <1>2, <1>3, <1>6, <1>19, <2>1 DEF Abs
<1> QED BY ZenonT(60), <1>13, <1>14, <1>15, <1>17, <1>20, <1>21, <1>22, <1>23 DEF UmInv

\* nr_rlc_entity_um_recv_pdu.  A PDU that is refused is lost.
LEMMA ReceiveUm == UmInv /\ Receive => UmInv'
<1> SUFFICES ASSUME UmInv, Receive PROVE UmInv'
  BY Zenon
<1>1. PICK p \in channel :
        /\ p.whole \/ p.abs >= rx_top - WindowSize
        /\ RecvPdu(p)
        /\ channel' = channel \ {p}
        /\ UNCHANGED <<tx_vars, offered, clears>>
  BY Zenon DEF Receive
<1>2. UNCHANGED <<tx_list, tx_next, tx_count, offered>>
  BY Zenon, <1>1 DEF tx_vars
<1>3. CASE p.whole
  BY Zenon, <1>1, <1>2, <1>3, WholeUm DEF RecvPdu
<1>4. CASE UNCHANGED <<rx_vars, deliveries>>
  BY Zenon, <1>1, <1>4, LoseUm DEF Lose
<1>5. CASE ~p.whole /\ ~TooLate(p.seg.sn) /\ ReceptionActions(p.seg)
  BY Zenon, <1>1, <1>2, <1>5, FullUm, KeepUm, MoveUm
<1> QED BY Zenon, <1>1, <1>3, <1>4, <1>5 DEF RecvPdu

\* Every step keeps the invariant.
LEMMA NextUm == UmInv /\ [Next]_vars => UmInv'
<1> SUFFICES ASSUME UmInv, [Next]_vars PROVE UmInv'
  BY Zenon
<1>1. CASE UNCHANGED vars
  <2>1. /\ UNCHANGED <<tx_list, tx_next, tx_count, channel, offered, delivered, garbled>>
        /\ UNCHANGED rx_vars
    BY Zenon, <1>1 DEF vars, tx_vars, deliveries
  <2>2. /\ WindowOrder' /\ Trigger' /\ Outside' = Outside
        /\ \A s : Stored(s)' = Stored(s)
        /\ \A sn : Abs(sn)' = Abs(sn)
    BY Zenon, <2>1, RxSame DEF Outside
  <2>3. (TypeInv /\ Numbers /\ Queue /\ Sent)'
    BY Zenon, <2>1, <2>2 DEF UmInv, TypeInv, Numbers, Queue, Sent, rx_vars
  <2>4. (Pairs /\ Settled)'
    BY Zenon, <2>1, <2>2 DEF UmInv, Pairs, Settled, rx_vars
  <2> QED BY Zenon, <2>2, <2>3, <2>4 DEF UmInv
<1>2. CASE Next
  BY ZenonT(60), <1>2, RecvSduUm, DiscardUm, TransmitUm, ReceiveUm, LoseUm, ExpireUm,
     ReestablishUm DEF Next
<1> QED BY Zenon, <1>1, <1>2

\* It holds in every reachable state.
LEMMA UmInvariant == Spec => []UmInv
<1>1. Init => UmInv
  BY Zenon, InitUm
<1>2. UmInv /\ [Next]_vars => UmInv'
  BY Zenon, NextUm
<1> QED BY <1>1, <1>2, PTL DEF Spec

\* Whatever is lost and overtakes within the window, rx_next_reassembly stays on an
\* SDU that is not delivered within the window below rx_next_highest, and
\* reception_actions and check_t_reassembly keep nothing below it or above the
\* window.
THEOREM UmWindowOrder == Spec => []WindowOrder
<1>1. UmInv => WindowOrder
  BY Zenon DEF UmInv
<1> QED BY <1>1, UmInvariant, PTL

\* The receiver hands over whole SDUs only, each of them once.
THEOREM UmDeliveredOnce == Spec => []DeliveredOnce
<1>1. UmInv => DeliveredOnce
  BY DEF UmInv, TypeInv, DeliveredOnce
<1> QED BY <1>1, UmInvariant, PTL

-----------------------------------------------------------------------------
(* The service                                                             *)

\* The bytes under way, of a list that waits, segments that are held, and PDUs
\* whose number is not below floor
Under(tx, rx, air, floor) ==
  Reassembled({tx[i] : i \in DOMAIN tx} \cup rx
              \cup {p.seg : p \in {q \in air : q.whole \/ q.abs >= floor}})

\* BytesUnderway, before and after a step
LEMMA UnderwayIs ==
  /\ BytesUnderway = Under(tx_list, rx_list, channel, Abs(rx_next_reassembly))
  /\ BytesUnderway' = Under(tx_list', rx_list', channel', Abs(rx_next_reassembly)')
BY ZenonT(60) DEF BytesUnderway, Under, NotTooLate, Range, Abs

\* A byte under way is in one of three places.
LEMMA UnderIs ==
  ASSUME NEW tx, NEW rx, NEW air, NEW floor, NEW d, NEW b
  PROVE  <<d, b>> \in Under(tx, rx, air, floor) <=>
           \/ \E i \in DOMAIN tx : tx[i].data = d /\ b \in Bytes(tx[i])
           \/ \E s \in rx : s.data = d /\ b \in Bytes(s)
           \/ \E p \in air : /\ p.whole \/ p.abs >= floor
                             /\ p.seg.data = d /\ b \in Bytes(p.seg)
BY SMTT(30), ReassembledIs DEF Under

\* What a step may do to the service: the SDUs offered grow, none gets a byte
\* back, and one SDU at most is delivered, of which every byte was under way.
NoneBack(n) ==
  \A d \in Sdu : d < n =>
    \A b : <<d, b>> \in BytesUnderway' => <<d, b>> \in BytesUnderway

OneDelivered ==
  \/ delivered' = delivered
  \/ \E d \in Sdu : /\ delivered' = [delivered EXCEPT ![d] = 1]
                    /\ d < offered /\ delivered[d] = 0
                    /\ WholeSdu(d) \subseteq BytesUnderway

ServiceStep == offered <= offered' /\ NoneBack(offered) /\ OneDelivered

\* Bytes only leave when the segments that wait are among those that waited, or
\* parts of them, what is held was held or has arrived, and the floor rises.
LEMMA BytesLeave ==
  ASSUME NEW tx, NEW rx, NEW air, NEW floor \in Int,
         NEW tx2, NEW rx2, NEW air2, NEW floor2 \in Int, floor <= floor2,
         \A p \in air : p.abs \in Int,
         \A i \in DOMAIN tx2 : \E j \in DOMAIN tx :
           tx2[i].data = tx[j].data /\ Bytes(tx2[i]) \subseteq Bytes(tx[j]),
         \A s \in rx2 : s \in rx \/ \E p \in air : p.abs >= floor /\ p.seg = s,
         \A p \in air2 : p \in air \/ \E j \in DOMAIN tx :
           p.seg.data = tx[j].data /\ Bytes(p.seg) \subseteq Bytes(tx[j])
  PROVE  \A d, b : <<d, b>> \in Under(tx2, rx2, air2, floor2)
                     => <<d, b>> \in Under(tx, rx, air, floor)
<1> SUFFICES ASSUME NEW d, NEW b, <<d, b>> \in Under(tx2, rx2, air2, floor2)
             PROVE  <<d, b>> \in Under(tx, rx, air, floor)
  BY Zenon
<1>1. CASE \E i \in DOMAIN tx2 : tx2[i].data = d /\ b \in Bytes(tx2[i])
  <2>1. \E j \in DOMAIN tx : tx[j].data = d /\ b \in Bytes(tx[j])
    BY Zenon, <1>1
  <2> QED BY Zenon, <2>1, UnderIs
<1>2. CASE \E s \in rx2 : s.data = d /\ b \in Bytes(s)
  <2>1. \/ \E s \in rx : s.data = d /\ b \in Bytes(s)
        \/ \E p \in air : p.abs >= floor /\ p.seg.data = d /\ b \in Bytes(p.seg)
    BY Zenon, <1>2
  <2> QED BY Zenon, <2>1, UnderIs
<1>3. CASE \E p \in air2 : /\ p.whole \/ p.abs >= floor2
                           /\ p.seg.data = d /\ b \in Bytes(p.seg)
  <2>1. PICK p \in air2 : /\ p.whole \/ p.abs >= floor2
                          /\ p.seg.data = d /\ b \in Bytes(p.seg)
    BY Zenon, <1>3
  <2>2. CASE p \in air
    <3>1. p.whole \/ p.abs >= floor
      BY SMTT(30), <2>1, <2>2
    <3> QED BY ZenonT(60), <2>1, <2>2, <3>1, UnderIs
  <2>3. CASE \E j \in DOMAIN tx :
               p.seg.data = tx[j].data /\ Bytes(p.seg) \subseteq Bytes(tx[j])
    <3>1. \E j \in DOMAIN tx : tx[j].data = d /\ b \in Bytes(tx[j])
      BY Zenon, <2>1, <2>3
    <3> QED BY Zenon, <3>1, UnderIs
  <2> QED BY Zenon, <2>2, <2>3
<1> QED BY SMTT(30), <1>1, <1>2, <1>3, UnderIs

\* Such a step is one of the service when nothing is offered or delivered.
LEMMA LeavingStep ==
  ASSUME UmInv, UNCHANGED <<offered, delivered>>,
         Abs(rx_next_reassembly)' \in Int,
         Abs(rx_next_reassembly) <= Abs(rx_next_reassembly)',
         \A i \in DOMAIN tx_list' : \E j \in DOMAIN tx_list :
           /\ tx_list'[i].data = tx_list[j].data
           /\ Bytes(tx_list'[i]) \subseteq Bytes(tx_list[j]),
         rx_list' \subseteq rx_list,
         \A p \in channel' : p \in channel \/ \E j \in DOMAIN tx_list :
           p.seg.data = tx_list[j].data /\ Bytes(p.seg) \subseteq Bytes(tx_list[j])
  PROVE  ServiceStep
<1>1. Abs(rx_next_reassembly) \in Int /\ \A p \in channel : p.abs \in Int
  BY Zenon, AbsType DEF UmInv, TypeInv, Outside
<1>2. \A d, b : <<d, b>> \in BytesUnderway' => <<d, b>> \in BytesUnderway
  BY ZenonT(60), <1>1, UnderwayIs, BytesLeave
<1>3. offered <= offered'
  BY DEF UmInv, TypeInv
<1> QED BY Zenon, <1>2, <1>3 DEF ServiceStep, NoneBack, OneDelivered

\* The floor does not move while the receiver rests.
LEMMA FloorSame ==
  ASSUME UmInv, UNCHANGED rx_vars
  PROVE  /\ Abs(rx_next_reassembly)' \in Int
         /\ Abs(rx_next_reassembly) <= Abs(rx_next_reassembly)'
<1>1. Abs(rx_next_reassembly)' = Abs(rx_next_reassembly)
  BY Zenon DEF rx_vars, Abs, Off
<1>2. Abs(rx_next_reassembly) \in Int
  BY Zenon, AbsType DEF UmInv, TypeInv
<1> QED BY SMTT(30), <1>1, <1>2

\* A lost PDU, or one that is refused.
LEMMA LoseStep == ASSUME UmInv, Lose PROVE ServiceStep
<1>1. /\ UNCHANGED <<tx_list, offered, delivered>> /\ UNCHANGED rx_vars
      /\ channel' \subseteq channel /\ rx_list' = rx_list
  BY Zenon DEF Lose, tx_vars, deliveries, rx_vars
<1> QED BY Zenon, <1>1, FloorSame, LeavingStep

\* An SDU is offered.
LEMMA OfferStep == ASSUME UmInv, NEW d \in Sdu, RecvSdu(d) PROVE ServiceStep
<1>1. /\ UNCHANGED <<channel, delivered>> /\ UNCHANGED rx_vars /\ rx_list' = rx_list
      /\ d = offered /\ offered' = d + 1
      /\ tx_list' = tx_list \/ tx_list' = Append(tx_list, Segment(d, 0, SduSize[d]))
  BY Zenon DEF RecvSdu, deliveries, rx_vars
<1>2. offered \in Nat /\ offered <= offered'
  BY SMTT(30), <1>1 DEF UmInv, TypeInv
<1>3. \A i \in DOMAIN tx_list' : tx_list'[i].data = d \/
        (i \in DOMAIN tx_list /\ tx_list'[i] = tx_list[i])
  <2>1. tx_list \in Seq(TxSegment) /\ Segment(d, 0, SduSize[d]) \in TxSegment
    BY Zenon, SduSizeAssumption DEF UmInv, TypeInv, Segment, TxSegment
  <2>2. Segment(d, 0, SduSize[d]).data = d
    BY Zenon DEF Segment
  <2> QED BY SMTT(30), <1>1, <2>1, <2>2
<1>4. Abs(rx_next_reassembly)' = Abs(rx_next_reassembly)
  BY ZenonT(60), <1>1 DEF rx_vars, Abs, Off
<1>5. NoneBack(offered)
  <2> SUFFICES ASSUME NEW e \in Sdu, e < offered, NEW b, <<e, b>> \in BytesUnderway'
               PROVE  <<e, b>> \in BytesUnderway
    BY Zenon DEF NoneBack
  <2>1. e # d
    BY SMTT(30), <1>1, <1>2
  <2> QED BY SMTT(30), <1>1, <1>3, <1>4, <2>1, UnderwayIs, UnderIs
<1> QED BY Zenon, <1>1, <1>2, <1>5 DEF ServiceStep, OneDelivered

\* An SDU is discarded.
LEMMA DiscardStep == ASSUME UmInv, NEW d \in Sdu, DiscardSdu(d) PROVE ServiceStep
<1>1. PICK i \in DOMAIN tx_list :
        tx_list' = SubSeq(tx_list, 1, i - 1) \o SubSeq(tx_list, i + 1, Len(tx_list))
  BY Zenon DEF DiscardSdu
<1>2. UNCHANGED <<channel, offered, delivered>> /\ UNCHANGED rx_vars /\ rx_list' = rx_list
  BY Zenon DEF DiscardSdu, deliveries, rx_vars
<1>3. tx_list \in Seq(TxSegment)
  BY Zenon DEF UmInv, TypeInv
<1>4. /\ DOMAIN tx_list' = 1 .. (Len(tx_list) - 1)
      /\ \A j \in DOMAIN tx_list' :
           tx_list'[j] = IF j < i THEN tx_list[j] ELSE tx_list[j + 1]
  BY Zenon, <1>1, <1>3, WithoutElement
<1>5. \A j \in DOMAIN tx_list' : j \in DOMAIN tx_list /\ j + 1 \in DOMAIN tx_list
  BY <1>3, <1>4
<1>6. \A j \in DOMAIN tx_list' : \E l \in DOMAIN tx_list : tx_list'[j] = tx_list[l]
  BY Zenon, <1>4, <1>5
<1> QED BY Zenon, <1>2, <1>6, FloorSame, LeavingStep

\* A grant moves bytes from the list to a PDU, or drops them.
LEMMA TransmitStep == ASSUME UmInv, Transmit PROVE ServiceStep
<1> DEFINE h == tx_list[1]
           n == Len(tx_list)
<1>1. /\ tx_list # <<>> /\ 1 \in DOMAIN tx_list
      /\ UNCHANGED <<offered, delivered>> /\ UNCHANGED rx_vars /\ rx_list' = rx_list
  BY Zenon, GrantIs DEF rx_vars
<1>2. tx_list \in Seq(TxSegment) /\ n \in Nat \ {0} /\ DOMAIN tx_list = 1 .. n
  BY <1>1 DEF UmInv, TypeInv
<1>3. CASE \E m \in Nat \ {0} :
             /\ m <= h.size
             /\ SendPart(Segment(h.data, h.so, m),
                         IF m = h.size THEN <<>>
                         ELSE <<Segment(h.data, h.so + m, h.size - m)>>)
  <2>1. PICK m \in Nat \ {0} :
          /\ m <= h.size
          /\ SendPart(Segment(h.data, h.so, m),
                      IF m = h.size THEN <<>>
                      ELSE <<Segment(h.data, h.so + m, h.size - m)>>)
    BY Zenon, <1>3
  <2> DEFINE s == Segment(h.data, h.so, m)
             left == Segment(h.data, h.so + m, h.size - m)
  <2>2. h \in TxSegment
    BY SMTT(30), <1>1, <1>2
  <2>3. h.data \in Sdu /\ h.so \in Nat /\ h.size \in Nat \ {0}
    BY Zenon, <2>2 DEF TxSegment
  <2>4. /\ channel' = channel \cup {PduOf(s)}
        /\ tx_list' = (IF m = h.size THEN <<>> ELSE <<left>>) \o Tail(tx_list)
    BY Zenon, <2>1 DEF SendPart
  <2>5. PduOf(s).seg.data = h.data /\ PduOf(s).seg.so = h.so /\ PduOf(s).seg.size = m
    BY Zenon DEF PduOf, Segment
  <2>6. left.data = h.data /\ left.so = h.so + m /\ left.size = h.size - m
    BY ZenonT(60) DEF Segment
  <2> HIDE DEF s, left, h
  <2>7. Bytes(PduOf(s).seg) \subseteq Bytes(h)
    BY SMTT(30), <2>1, <2>3, <2>5 DEF Bytes
  <2>8. Bytes(left) \subseteq Bytes(h)
    BY SMTT(30), <2>1, <2>3, <2>6 DEF Bytes
  <2>9. \A p \in channel' : p \in channel \/ \E j \in DOMAIN tx_list :
          p.seg.data = tx_list[j].data /\ Bytes(p.seg) \subseteq Bytes(tx_list[j])
    BY Zenon, <1>1, <2>4, <2>5, <2>7 DEF h
  <2>10. \A i \in DOMAIN tx_list' : \E j \in DOMAIN tx_list :
           /\ tx_list'[i].data = tx_list[j].data
           /\ Bytes(tx_list'[i]) \subseteq Bytes(tx_list[j])
    <3>1. CASE m = h.size
      <4>1. tx_list' = <<>> \o Tail(tx_list)
        BY Zenon, <2>4, <3>1
      <4>2. /\ DOMAIN tx_list' = 1 .. (n - 1)
            /\ \A j \in 1 .. (n - 1) : tx_list'[j] = tx_list[j + 1]
        BY SMTT(30), <1>1, <1>2, <4>1
      <4>3. \A j \in 1 .. (n - 1) : j + 1 \in DOMAIN tx_list
        BY <1>2
      <4> QED BY Zenon, <4>2, <4>3
    <3>2. CASE m # h.size
      <4>1. tx_list' = <<left>> \o Tail(tx_list)
        BY Zenon, <2>4, <3>2
      <4>2. left \in TxSegment
        <5>1. h.so + m \in Nat /\ h.size - m \in Nat \ {0}
          BY SMTT(30), <2>1, <2>3, <3>2
        <5> QED BY Zenon, <2>3, <5>1 DEF left, Segment, TxSegment
      <4>3. /\ DOMAIN tx_list' = 1 .. n /\ tx_list'[1] = left
            /\ \A j \in 2 .. n : tx_list'[j] = tx_list[j]
        BY SMTT(30), <1>1, <1>2, <4>1, <4>2, PutBack
      <4>4. \A j \in 1 .. n : j = 1 \/ j \in 2 .. n
        BY <1>2
      <4> QED BY ZenonT(60), <1>1, <1>2, <2>6, <2>8, <4>3, <4>4 DEF h
    <3> QED BY Zenon, <3>1, <3>2
  <2> QED BY Zenon, <1>1, <2>9, <2>10, FloorSame, LeavingStep
<1>4. CASE tx_list' = Tail(tx_list) /\ UNCHANGED <<tx_next, tx_count, channel>>
  <2>1. /\ DOMAIN tx_list' = 1 .. (n - 1)
        /\ \A j \in 1 .. (n - 1) : tx_list'[j] = tx_list[j + 1]
    BY SMTT(30), <1>1, <1>2, <1>4
  <2>2. \A j \in 1 .. (n - 1) : j + 1 \in DOMAIN tx_list
    BY <1>2
  <2>3. \A i \in DOMAIN tx_list' : \E j \in DOMAIN tx_list : tx_list'[i] = tx_list[j]
    BY Zenon, <2>1, <2>2
  <2> QED BY ZenonT(60), <1>1, <1>4, <2>3, FloorSame, LeavingStep
<1> QED BY Zenon, <1>3, <1>4, GrantIs

\* Re-establishment: nothing is under way any more.
LEMMA ReestablishStep == ASSUME UmInv, Reestablish PROVE ServiceStep
<1>1. /\ UNCHANGED <<offered, delivered>> /\ offered \in Nat
      /\ tx_list' = <<>> /\ rx_list' = {} /\ channel' = {}
  BY Zenon DEF UmInv, TypeInv, Reestablish, deliveries
<1>2. NoneBack(offered)
  <2>1. DOMAIN <<>> = {}
    OBVIOUS
  <2>2. \A d, b : <<d, b>> \notin BytesUnderway'
    BY Zenon, <1>1, <2>1, UnderwayIs, UnderIs
  <2> QED BY Zenon, <2>2 DEF NoneBack
<1> QED BY SMTT(30), <1>1, <1>2 DEF ServiceStep, OneDelivered

\* Expiry: the floor rises, and what it passes is given up.
LEMMA ExpireStep == ASSUME UmInv, Expire PROVE ServiceStep
<1> DEFINE next == FirstUndelivered(rx_timer_trigger, rx_delivered)
<1>1. /\ next \in Sn /\ Off(rx_next_reassembly) <= Off(next)
      /\ rx_next_reassembly \in Sn /\ rx_top \in Nat /\ rx_next_highest \in Sn
  BY Zenon, ExpiryIs DEF Expire, TReassemblyExpires, UmInv, TypeInv
<1>2. /\ UNCHANGED <<tx_list, channel, offered, delivered, rx_next_highest, rx_top>>
      /\ rx_next_reassembly' = next /\ rx_list' \subseteq rx_list
  BY Zenon DEF Expire, TReassemblyExpires, tx_vars, deliveries
<1> HIDE DEF next
<1>3. Off(next) \in Int /\ Off(rx_next_reassembly) \in Int
  BY SMTT(30), <1>1, OffsetFacts, Window DEF Off
<1>4. Abs(rx_next_reassembly)' = Abs(next)
  BY Zenon, <1>2 DEF Abs, Off
<1>5. Abs(next) \in Int /\ Abs(rx_next_reassembly) <= Abs(next)
  BY SMTT(30), <1>1, <1>3, Window DEF Abs
<1> QED BY Zenon, <1>2, <1>4, <1>5, LeavingStep

\* A PDU arrives.
LEMMA ReceiveStep == ASSUME UmInv, UmInv', Receive PROVE ServiceStep
<1>1. PICK p \in channel :
        /\ p.whole \/ p.abs >= rx_top - WindowSize
        /\ RecvPdu(p)
        /\ channel' = channel \ {p}
        /\ UNCHANGED <<tx_vars, offered, clears>>
  BY Zenon DEF Receive
<1>2. UNCHANGED <<tx_list, tx_next, tx_count, offered>> /\ offered \in Nat
  BY Zenon, <1>1 DEF tx_vars, UmInv, TypeInv
<1> DEFINE floor == Abs(rx_next_reassembly)
           floor2 == Abs(rx_next_reassembly)'
           d == p.seg.data
<1>3. floor \in Int /\ floor2 \in Int /\ \A q \in channel : q.abs \in Int
  <2>1. floor \in Int /\ \A q \in channel : q.abs \in Int
    BY Zenon, AbsType DEF UmInv, TypeInv, Outside
  <2>2. rx_next_highest' \in Sn /\ rx_next_reassembly' \in Sn /\ rx_top' \in Nat
    BY Zenon DEF UmInv, TypeInv
  <2>3. Offset(rx_next_highest', rx_next_reassembly') \in Int
    BY SMTT(30), <2>2, OffsetFacts
  <2>4. floor2 \in Int
    BY SMTT(30), <2>2, <2>3, Window DEF Abs, Off
  <2> QED BY Zenon, <2>1, <2>4
<1>4. p \in Outside
  BY Zenon DEF Outside
<1>5. d \in Sdu /\ d < offered /\ delivered[d] = 0 /\ Part(p.seg)
      /\ SduSize[d] \in Nat \ {0} /\ p.seg.so \in Nat /\ p.seg.size \in Nat \ {0}
  BY Zenon, <1>4, OutsideIsPart DEF UmInv, Sent
<1> HIDE DEF floor, floor2
<1>6. ASSUME floor <= floor2,
             \A s \in rx_list' : s \in rx_list \/ (p.abs >= floor /\ p.seg = s)
      PROVE  NoneBack(offered)
  <2>1. \A e, b : <<e, b>> \in BytesUnderway' => <<e, b>> \in BytesUnderway
    BY SMTT(30), <1>1, <1>2, <1>3, <1>6, UnderwayIs, BytesLeave DEF floor, floor2
  <2> QED BY ZenonT(60), <2>1 DEF NoneBack
<1>7. ASSUME NEW S, DeliverSdu(S), \A s \in S : Part(s) /\ s.data = d,
             \A b \in 0 .. (SduSize[d] - 1) : \E s \in S : b \in Bytes(s),
             \A s \in S : s \in rx_list \/ ((p.whole \/ p.abs >= floor) /\ p.seg = s)
      PROVE  OneDelivered
  <2>1. delivered' = [delivered EXCEPT ![d] = 1]
    BY ZenonT(60), <1>5, <1>7, DeliverIs
  <2>2. \A b \in 0 .. (SduSize[d] - 1) : <<d, b>> \in BytesUnderway
    BY SMTT(30), <1>7, UnderwayIs, UnderIs DEF floor
  <2>3. WholeSdu(d) \subseteq BytesUnderway
    BY SMTT(30), <2>2 DEF WholeSdu
  <2> QED BY Zenon, <1>5, <2>1, <2>3 DEF OneDelivered
<1>8. CASE p.whole
  <2>1. DeliverSdu({p.seg}) /\ UNCHANGED rx_vars /\ rx_list' = rx_list
    BY Zenon, <1>1, <1>8 DEF RecvPdu, rx_vars
  <2>2. NoneBack(offered)
    BY Zenon, <1>6, <2>1, FloorSame DEF floor, floor2
  <2>3. p.seg.so = 0 /\ p.seg.so + p.seg.size = SduSize[d]
    BY ZenonT(60), <1>8 DEF UmInv, TypeInv, IsPdu, Part
  <2>4. \A b \in 0 .. (SduSize[d] - 1) : b \in Bytes(p.seg)
    BY SMTT(30), <1>5, <2>3 DEF Bytes
  <2>5. OneDelivered
    BY Zenon, <1>5, <1>7, <1>8, <2>1, <2>4
  <2> QED BY SMTT(30), <1>2, <2>2, <2>5 DEF ServiceStep
<1>9. CASE UNCHANGED <<rx_vars, deliveries>>
  BY Zenon, <1>1, <1>9, LoseStep DEF Lose
<1>10. CASE ~p.whole /\ ~TooLate(p.seg.sn) /\ ReceptionActions(p.seg)
  <2>1. floor <= floor2
    BY ZenonT(60), <1>1, <1>2, <1>10, FullUm, KeepUm, MoveUm DEF floor, floor2
  <2>2. p.abs >= floor
    <3>1. p.seg.sn \in Sn /\ Abs(p.seg.sn) = p.abs
      BY Zenon, <1>1, <1>10, ArrivalIs
    <3>2. rx_next_highest \in Sn /\ rx_next_reassembly \in Sn /\ rx_top \in Nat
      BY Zenon DEF UmInv, TypeInv
    <3>3. Off(p.seg.sn) \in Int /\ Off(rx_next_reassembly) \in Int
      BY SMTT(30), <3>1, <3>2, OffsetFacts, Window DEF Off
    <3>4. ~(Off(p.seg.sn) < Off(rx_next_reassembly))
      BY Zenon, <1>10 DEF TooLate, Off
    <3> QED BY SMTT(30), <3>1, <3>2, <3>3, <3>4, Window DEF Abs, floor
  <2>3. \A s \in rx_list' : s \in rx_list \/ p.seg = s
    BY Zenon, <1>10 DEF ReceptionActions
  <2>4. NoneBack(offered)
    BY Zenon, <1>6, <2>1, <2>2, <2>3
  <2> DEFINE list == rx_list \cup {p.seg}
  <2>5. CASE SduFull(list, rx_delivered, p.seg.sn)
    <3> DEFINE S == SegmentsOf(list, p.seg.sn)
    <3>1. DeliverSdu(S)
      BY Zenon, <1>10, <2>5 DEF ReceptionActions
    <3>2. /\ \A s \in S : Part(s) /\ s.data = d
          /\ \A b \in 0 .. (SduSize[d] - 1) : \E s \in S : b \in Bytes(s)
      BY Zenon, <1>1, <1>10, <2>5, FullIs
    <3>3. \A s \in S : s \in rx_list \/ p.seg = s
      BY Zenon DEF SegmentsOf
    <3> HIDE DEF S
    <3>4. OneDelivered
      BY ZenonT(60), <1>7, <2>2, <3>1, <3>2, <3>3
    <3> QED BY <1>2, <2>4, <3>4 DEF ServiceStep
  <2>6. CASE ~SduFull(list, rx_delivered, p.seg.sn)
    <3>1. delivered' = delivered
      BY Zenon, <1>10, <2>6 DEF ReceptionActions, deliveries
    <3> QED BY SMTT(30), <1>2, <2>4, <3>1 DEF ServiceStep, OneDelivered
  <2> QED BY Zenon, <2>5, <2>6
<1> QED BY Zenon, <1>1, <1>8, <1>9, <1>10 DEF RecvPdu

\* Every step of the bearer is one of those.
LEMMA StepIsServiceStep ==
  ASSUME UmInv, UmInv', Next
  PROVE  ServiceStep
BY ZenonT(60), OfferStep, DiscardStep, TransmitStep, ReceiveStep, LoseStep, ExpireStep,
   ReestablishStep DEF Next

\* And those are steps of the service.
LEMMA ServiceStepIs ==
  ASSUME UmInv, UmInv', ServiceStep
  PROVE  Service!Next
<1>1. /\ offered \in Nat /\ offered' \in Nat /\ offered <= offered' /\ Sdu \subseteq Nat
      /\ delivered \in [Sdu -> 0 .. 1] /\ delivered' \in [Sdu -> 0 .. 1]
      /\ \A d \in Sdu : d >= offered => delivered[d] = 0
  BY Zenon, UmAssumption DEF UmInv, TypeInv, ServiceStep, Queue
<1> DEFINE Before(d) == SduStatus[d]
           After(d) == SduStatus'[d]
<1>2. \A d \in Sdu :
        /\ Before(d) = IF d >= offered THEN "new"
                       ELSE IF delivered[d] > 0 THEN "delivered"
                       ELSE IF WholeSdu(d) \subseteq BytesUnderway THEN "underway" ELSE "lost"
        /\ After(d) = IF d >= offered' THEN "new"
                      ELSE IF delivered'[d] > 0 THEN "delivered"
                      ELSE IF WholeSdu(d) \subseteq BytesUnderway' THEN "underway" ELSE "lost"
  BY Zenon DEF SduStatus
<1>3. SduStatus' \in [Sdu -> {"new", "underway", "delivered", "lost"}]
  BY Zenon DEF SduStatus
<1> HIDE DEF Before, After
<1>4. \A d \in Sdu : d < offered /\ WholeSdu(d) \subseteq BytesUnderway'
                       => WholeSdu(d) \subseteq BytesUnderway
  BY DEF ServiceStep, NoneBack, WholeSdu
<1>5. \E e \in Nat : \A d \in Sdu :
        \/ delivered'[d] = delivered[d]
        \/ /\ d = e /\ d < offered /\ delivered[d] = 0 /\ delivered'[d] = 1
           /\ WholeSdu(d) \subseteq BytesUnderway
  <2>1. CASE delivered' = delivered
    <3>1. 0 \in Nat
      BY Zenon
    <3> QED BY Zenon, <2>1, <3>1
  <2>2. CASE delivered' # delivered
    <3>1. PICK e \in Sdu : /\ delivered' = [delivered EXCEPT ![e] = 1]
                           /\ e < offered /\ delivered[e] = 0
                           /\ WholeSdu(e) \subseteq BytesUnderway
      BY Zenon, <2>2 DEF ServiceStep, OneDelivered
    <3>2. \A d \in Sdu : delivered'[d] = IF d = e THEN 1 ELSE delivered[d]
      BY Zenon, <1>1, <3>1
    <3> QED BY SMTT(30), <1>1, <3>1, <3>2
  <2> QED BY Zenon, <2>1, <2>2
<1>6. PICK e \in Nat : \A d \in Sdu :
        \/ delivered'[d] = delivered[d]
        \/ /\ d = e /\ d < offered /\ delivered[d] = 0 /\ delivered'[d] = 1
           /\ WholeSdu(d) \subseteq BytesUnderway
  BY Zenon, <1>5
<1>7. ASSUME NEW d \in Sdu
      PROVE  /\ Service!Follows(Before(d), After(d))
             /\ Before(d) # "delivered" /\ After(d) = "delivered" => d = e
  <2>1. d \in Nat /\ delivered[d] \in 0 .. 1 /\ delivered'[d] \in 0 .. 1
    BY Zenon, <1>1
  <2>2. CASE d >= offered
    <3>1. delivered[d] = 0 /\ Before(d) = "new" /\ ~(d < offered)
      BY SMTT(30), <1>1, <1>2, <2>1, <2>2
    <3>2. delivered'[d] = 0
      BY Zenon, <1>6, <3>1
    <3>3. After(d) \in {"new", "underway", "lost"}
      BY SMTT(30), <1>2, <3>2
    <3> QED BY Zenon, <3>1, <3>3 DEF Service!Follows
  <2>3. CASE d < offered
    <3>1. ~(d >= offered) /\ ~(d >= offered')
      BY SMTT(30), <1>1, <2>1, <2>3
    <3>2. CASE delivered[d] > 0
      <4>1. delivered'[d] = delivered[d]
        BY SMTT(30), <1>6, <2>1, <3>2
      <4> QED BY ZenonT(60), <1>2, <3>1, <3>2, <4>1 DEF Service!Follows
    <3>3. CASE ~(delivered[d] > 0) /\ delivered'[d] = delivered[d]
      BY ZenonT(60), <1>2, <1>4, <2>3, <3>1, <3>3 DEF Service!Follows
    <3>4. CASE delivered'[d] # delivered[d]
      <4>1. /\ d = e /\ ~(delivered[d] > 0) /\ delivered'[d] > 0
            /\ WholeSdu(d) \subseteq BytesUnderway
        BY SMTT(30), <1>6, <2>1, <3>4
      <4> QED BY ZenonT(60), <1>2, <3>1, <4>1 DEF Service!Follows
    <3> QED BY Zenon, <3>2, <3>3, <3>4
  <2> QED BY SMTT(30), <1>1, <2>1, <2>2, <2>3
<1> QED BY Zenon, <1>3, <1>7 DEF Service!Next, Service!Status, Before, After

\* The bearer implements UmService: an SDU of which a byte was lost or dropped, or
\* whose number rx_next_reassembly has passed, is never delivered, and none is
\* delivered twice.
THEOREM UmImplementsService == Spec => ImplementsService
<1>1. Init => Service!Init
  <2> SUFFICES ASSUME Init PROVE Service!Init
    BY Zenon
  <2>1. \A d \in Sdu : d >= offered
    BY UmAssumption DEF Init
  <2> QED BY Zenon, <2>1 DEF Service!Init, SduStatus
<1>2. UmInv /\ UmInv' /\ [Next]_vars => [Service!Next]_SduStatus
  <2> SUFFICES ASSUME UmInv, UmInv', [Next]_vars PROVE [Service!Next]_SduStatus
    BY Zenon
  <2>1. CASE Next
    BY Zenon, <2>1, StepIsServiceStep, ServiceStepIs
  <2>2. CASE UNCHANGED vars
    <3>1. /\ UNCHANGED <<tx_list, rx_list, channel, offered, delivered>>
          /\ UNCHANGED <<rx_top, rx_next_highest, rx_next_reassembly>>
      BY Zenon, <2>2 DEF vars, tx_vars, rx_vars, deliveries
    <3>2. BytesUnderway' = BytesUnderway
      BY Zenon, <3>1, UnderwayIs DEF Abs, Off
    <3>3. SduStatus' = SduStatus
      BY Zenon, <3>1, <3>2 DEF SduStatus
    <3> QED BY Zenon, <3>3
  <2> QED BY Zenon, <2>1, <2>2
<1> QED BY <1>1, <1>2, UmInvariant, PTL DEF Spec, ImplementsService, Service!Spec

-----------------------------------------------------------------------------
(* The buffer status                                                       *)

Sizes(list) == [i \in DOMAIN list |-> PduSize(list[i])]

\* The size of the PDU of a segment
LEMMA PduSizeType ==
  ASSUME NEW s \in TxSegment
  PROVE  PduSize(s) \in Nat
<1>1. SnHeader \in Nat /\ s.size \in Nat
  BY SMTT(30), UmAssumption DEF TxSegment
<1>2. \A first, last : HeaderSize(first, last) \in Nat
  BY SMTT(30), <1>1 DEF HeaderSize
<1> QED BY SMTT(30), <1>1, <1>2 DEF PduSize

\* A list that differs by one element
LEMMA SizesWithout ==
  ASSUME NEW s \in Seq(TxSegment), NEW r \in Seq(TxSegment), NEW i \in 1 .. Len(s),
         Len(s) = Len(r) + 1,
         \A j \in 1 .. Len(r) : r[j] = IF j < i THEN s[j] ELSE s[j + 1]
  PROVE  /\ Total(Sizes(s)) = Total(Sizes(r)) + PduSize(s[i])
         /\ Total(Sizes(r)) \in Nat /\ PduSize(s[i]) \in Nat
<1> DEFINE f == Sizes(s)
           g == Sizes(r)
           D == (1 .. Len(s)) \ {i}
           rest == [x \in D |-> f[x]]
           one == [x \in {i} |-> f[x]]
           b == [j \in 1 .. Len(r) |-> IF j < i THEN j ELSE j + 1]
<1>1. /\ Len(s) \in Nat /\ Len(r) \in Nat /\ DOMAIN f = 1 .. Len(s) /\ DOMAIN g = 1 .. Len(r)
      /\ \A j \in 1 .. Len(s) : s[j] \in TxSegment /\ f[j] = PduSize(s[j])
      /\ \A j \in 1 .. Len(r) : r[j] \in TxSegment /\ g[j] = PduSize(r[j])
  BY DEF Sizes
<1> HIDE DEF f, g
<1>2. (\A x \in DOMAIN f : f[x] \in Nat) /\ \A x \in DOMAIN g : g[x] \in Nat
  BY ZenonT(60), <1>1, PduSizeType
<1>3. IsFiniteSet(DOMAIN f) /\ IsFiniteSet(DOMAIN g)
  BY SMTT(30), <1>1, FS_Interval
<1>4. IsFiniteSet(Units(f)) /\ IsFiniteSet(Units(g))
  BY ZenonT(60), <1>2, <1>3, UnitsFinite
<1>5. Combines(f, rest, one)
  BY SMTT(30), <1>1 DEF Combines
<1>6. Total(f) = Total(rest) + Total(one) /\ Total(rest) \in Nat
  BY SMTT(30), <1>4, <1>5, TotalSplit
<1>7. Total(one) = f[i]
  <2>1. DOMAIN one = {i} /\ one[i] = f[i] /\ f[i] \in Nat
    BY SMTT(30), <1>1, <1>2
  <2> HIDE DEF one
  <2> QED BY ZenonT(60), <2>1, TotalOne
<1>8. b \in Bijection(DOMAIN g, DOMAIN rest)
  <2>1. b \in [1 .. Len(r) -> D]
    BY SMTT(30), <1>1
  <2>2. \A j, k \in 1 .. Len(r) : b[j] = b[k] => j = k
    BY SMTT(30), <1>1
  <2>3. ASSUME NEW x \in D PROVE \E j \in 1 .. Len(r) : b[j] = x
    <3>1. CASE x < i
      <4>1. x \in 1 .. Len(r)
        BY SMTT(30), <1>1, <3>1
      <4>2. b[x] = x
        BY SMTT(30), <3>1, <4>1
      <4> QED BY ZenonT(60), <4>1, <4>2
    <3>2. CASE ~(x < i)
      <4>1. x - 1 \in 1 .. Len(r) /\ ~(x - 1 < i) /\ x - 1 + 1 = x
        BY SMTT(30), <1>1, <3>2
      <4>2. b[x - 1] = x
        BY <4>1
      <4> QED BY ZenonT(60), <4>1, <4>2
    <3> QED BY Zenon, <3>1, <3>2
  <2>4. DOMAIN g = 1 .. Len(r) /\ DOMAIN rest = D
    BY Zenon, <1>1
  <2> HIDE DEF b, D, rest
  <2> QED BY ZenonT(60), <2>1, <2>2, <2>3, <2>4 DEF Bijection, Injection, Surjection, IsInjective
<1>9. \A j \in DOMAIN g : g[j] = rest[b[j]]
  <2>1. ASSUME NEW j \in 1 .. Len(r) PROVE b[j] \in D /\ s[b[j]] = r[j]
    BY SMTT(30), <1>1
  <2>2. \A x \in D : rest[x] = f[x] /\ x \in 1 .. Len(s)
    OBVIOUS
  <2> HIDE DEF b, rest, D
  <2>3. ASSUME NEW j \in 1 .. Len(r) PROVE g[j] = rest[b[j]]
    <3>1. rest[b[j]] = f[b[j]] /\ b[j] \in 1 .. Len(s)
      BY Zenon, <2>1, <2>2
    <3>2. f[b[j]] = PduSize(s[b[j]]) /\ g[j] = PduSize(r[j])
      BY Zenon, <1>1, <3>1
    <3>3. s[b[j]] = r[j]
      BY Zenon, <2>1
    <3> QED BY Zenon, <3>1, <3>2, <3>3
  <2> QED BY ZenonT(60), <1>1, <2>3
<1>10. Total(g) = Total(rest)
  <2> HIDE DEF b, rest
  <2> QED BY Zenon, <1>4, <1>8, <1>9, TotalMoved
<1>11. f[i] = PduSize(s[i]) /\ f[i] \in Nat
  BY Zenon, <1>1, <1>2
<1> HIDE DEF rest, one
<1> QED BY ZenonT(60), <1>6, <1>7, <1>10, <1>11 DEF f, g

\* MAC is told what the PDUs of the list need.
LEMMA ListStep ==
  ASSUME UmInv, UmInv', BufferStatusExact, Next
  PROVE  BufferStatusExact'
<1> DEFINE n == Len(tx_list)
           t == Tail(tx_list)
<1>1. /\ tx_list \in Seq(TxSegment) /\ tx_list' \in Seq(TxSegment)
      /\ n \in Nat /\ DOMAIN tx_list = 1 .. n
  BY DEF UmInv, TypeInv
<1>2. /\ BufferStatusExact <=> bstatus_tx = Total(Sizes(tx_list))
      /\ BufferStatusExact' <=> bstatus_tx' = Total(Sizes(tx_list'))
  BY Zenon DEF BufferStatusExact, Sizes
<1>3. CASE UNCHANGED <<tx_list, bstatus_tx>>
  BY Zenon, <1>2, <1>3
<1>4. CASE tx_list' = <<>> /\ bstatus_tx' = 0
  <2>1. DOMAIN Sizes(tx_list') = {}
    BY SMTT(30), <1>4 DEF Sizes
  <2> QED BY Zenon, <1>2, <1>4, <2>1, TotalEmpty
<1>5. ASSUME NEW i \in 1 .. n, Len(tx_list') = n - 1,
             \A j \in 1 .. (n - 1) : tx_list'[j] = IF j < i THEN tx_list[j] ELSE tx_list[j + 1],
             bstatus_tx' = bstatus_tx - PduSize(tx_list[i])
      PROVE  BufferStatusExact'
  <2>1. n = Len(tx_list') + 1 /\ n - 1 = Len(tx_list')
    BY SMTT(30), <1>1, <1>5
  <2>2. /\ Total(Sizes(tx_list)) = Total(Sizes(tx_list')) + PduSize(tx_list[i])
        /\ Total(Sizes(tx_list')) \in Nat /\ PduSize(tx_list[i]) \in Nat
    BY ZenonT(60), <1>1, <1>5, <2>1, SizesWithout
  <2> QED BY SMTT(30), <1>2, <1>5, <2>2
<1>6. ASSUME NEW d \in Sdu, RecvSdu(d) PROVE BufferStatusExact'
  <2> DEFINE s == Segment(d, 0, SduSize[d])
  <2>1. CASE tx_list' = Append(tx_list, s) /\ bstatus_tx' = bstatus_tx + PduSize(s)
    <3>1. s \in TxSegment
      BY ZenonT(60), SduSizeAssumption DEF Segment, TxSegment
    <3> HIDE DEF s
    <3>2. /\ Len(tx_list') = n + 1 /\ n + 1 \in 1 .. (n + 1) /\ tx_list'[n + 1] = s
          /\ \A j \in 1 .. n : tx_list[j] = IF j < n + 1 THEN tx_list'[j] ELSE tx_list'[j + 1]
      BY SMTT(30), <1>1, <2>1, <3>1
    <3>3. /\ Total(Sizes(tx_list')) = Total(Sizes(tx_list)) + PduSize(tx_list'[n + 1])
          /\ Total(Sizes(tx_list)) \in Nat
      BY ZenonT(60), <1>1, <3>2, SizesWithout
    <3> QED BY Zenon, <1>2, <2>1, <3>2, <3>3
  <2> QED BY Zenon, <1>3, <1>6, <2>1 DEF RecvSdu
<1>7. ASSUME NEW d \in Sdu, DiscardSdu(d) PROVE BufferStatusExact'
  <2>1. PICK i \in DOMAIN tx_list :
          /\ tx_list' = SubSeq(tx_list, 1, i - 1) \o SubSeq(tx_list, i + 1, Len(tx_list))
          /\ bstatus_tx' = bstatus_tx - PduSize(tx_list[i])
    BY Zenon, <1>7 DEF DiscardSdu
  <2>2. /\ DOMAIN tx_list' = 1 .. (n - 1)
        /\ \A j \in DOMAIN tx_list' : tx_list'[j] = IF j < i THEN tx_list[j] ELSE tx_list[j + 1]
    BY ZenonT(60), <1>1, <2>1, WithoutElement
  <2>3. Len(tx_list') = n - 1
    BY SMTT(30), <1>1, <2>1, <2>2
  <2> QED BY ZenonT(60), <1>1, <1>5, <2>1, <2>2, <2>3
<1>8. CASE Transmit
  <2>1. tx_list # <<>> /\ 1 \in 1 .. n
    BY Zenon, <1>1, <1>8, GrantIs
  <2>2. /\ t \in Seq(TxSegment) /\ Len(t) = n - 1 /\ Head(tx_list) = tx_list[1]
        /\ \A j \in 1 .. (n - 1) : t[j] = IF j < 1 THEN tx_list[j] ELSE tx_list[j + 1]
    BY SMTT(30), <1>1, <2>1
  <2> HIDE DEF t
  <2>3. CASE tx_list' = t /\ bstatus_tx' = bstatus_tx - PduSize(tx_list[1])
    BY Zenon, <1>5, <2>1, <2>2, <2>3
  <2>4. ASSUME NEW m \in Nat \ {0}, m <= tx_list[1].size,
               SendPart(Segment(tx_list[1].data, tx_list[1].so, m),
                        IF m = tx_list[1].size THEN <<>>
                        ELSE <<Segment(tx_list[1].data, tx_list[1].so + m, tx_list[1].size - m)>>)
        PROVE  BufferStatusExact'
    <3>1. CASE m = tx_list[1].size
      <4>1. /\ tx_list' = <<>> \o t
            /\ bstatus_tx' = bstatus_tx - PduSize(Head(tx_list)) + 0
        BY Zenon, <2>4, <3>1 DEF SendPart, t
      <4>2. PduSize(tx_list[1]) \in Nat /\ bstatus_tx \in Int
        <5>1. tx_list[1] \in TxSegment
          BY SMTT(30), <1>1, <2>1
        <5>2. n = Len(t) + 1 /\ n - 1 = Len(t)
          BY SMTT(30), <1>1, <2>2
        <5>3. /\ Total(Sizes(tx_list)) = Total(Sizes(t)) + PduSize(tx_list[1])
              /\ Total(Sizes(t)) \in Nat
          BY ZenonT(60), <1>1, <2>1, <2>2, <5>2, SizesWithout
        <5>4. PduSize(tx_list[1]) \in Nat
          BY Zenon, <5>1, PduSizeType
        <5> QED BY SMTT(30), <1>2, <5>3, <5>4
      <4>3. <<>> \o t = t
        BY SMTT(30), <2>2
      <4> QED BY SMTT(30), <2>2, <2>3, <4>1, <4>2, <4>3
    <3>2. CASE m # tx_list[1].size
      <4> DEFINE r == Segment(tx_list[1].data, tx_list[1].so + m, tx_list[1].size - m)
      <4>1. /\ tx_list' = <<r>> \o t
            /\ bstatus_tx' = bstatus_tx - PduSize(tx_list[1]) + PduSize(r)
        <5>1. /\ tx_list' = <<r>> \o t
              /\ bstatus_tx' = bstatus_tx - PduSize(Head(tx_list))
                               + (IF <<r>> = <<>> THEN 0 ELSE PduSize(<<r>>[1]))
          BY Zenon, <2>4, <3>2 DEF SendPart, t
        <5> HIDE DEF r
        <5>2. <<r>> # <<>> /\ <<r>>[1] = r
          BY SMTT(30)
        <5> QED BY Zenon, <5>1, <5>2, <2>2
      <4>2. r \in TxSegment
        <5>1. tx_list[1] \in TxSegment
          BY <1>1, <2>1
        <5> QED BY SMTT(30), <2>4, <3>2, <5>1 DEF Segment, TxSegment
      <4> HIDE DEF r
      <4>3. /\ Len(tx_list') = Len(t) + 1 /\ n = Len(t) + 1 /\ tx_list'[1] = r
            /\ 1 \in 1 .. Len(tx_list')
            /\ \A j \in 1 .. Len(t) : t[j] = IF j < 1 THEN tx_list'[j] ELSE tx_list'[j + 1]
            /\ \A j \in 1 .. Len(t) : t[j] = IF j < 1 THEN tx_list[j] ELSE tx_list[j + 1]
        <5>1. n = Len(t) + 1 /\ n - 1 = Len(t) /\ Len(t) \in Nat
          BY SMTT(30), <1>1, <2>1, <2>2
        <5>2. /\ Len(<<r>> \o t) = Len(t) + 1 /\ (<<r>> \o t)[1] = r
              /\ \A j \in 1 .. Len(t) : (<<r>> \o t)[j + 1] = t[j]
          BY SMTT(30), <2>2, <4>2
        <5>3. 1 \in 1 .. (Len(t) + 1) /\ \A j \in 1 .. Len(t) : ~(j < 1)
          BY SMTT(30), <5>1
        <5> QED BY ZenonT(60), <2>2, <4>1, <5>1, <5>2, <5>3
      <4>4. /\ Total(Sizes(tx_list)) = Total(Sizes(t)) + PduSize(tx_list[1])
            /\ Total(Sizes(t)) \in Nat /\ PduSize(tx_list[1]) \in Nat
        BY ZenonT(60), <1>1, <2>1, <2>2, <4>3, SizesWithout
      <4>5. /\ Total(Sizes(tx_list')) = Total(Sizes(t)) + PduSize(tx_list'[1])
            /\ PduSize(tx_list'[1]) \in Nat
        BY ZenonT(60), <1>1, <2>2, <4>3, SizesWithout
      <4>6. PduSize(tx_list'[1]) = PduSize(r)
        BY Zenon, <4>3
      <4> QED BY SMTT(30), <1>2, <4>1, <4>4, <4>5, <4>6
    <3> QED BY ZenonT(60), <3>1, <3>2
  <2> QED BY Zenon, <1>8, <2>3, <2>4, GrantIs DEF t
<1>9. CASE Receive \/ Lose \/ Expire
  BY Zenon, <1>3, <1>9 DEF Receive, Lose, Expire, tx_vars
<1>10. CASE Reestablish
  BY Zenon, <1>4, <1>10 DEF Reestablish
<1> QED BY ZenonT(60), <1>6, <1>7, <1>8, <1>9, <1>10 DEF Next

\* bstatus.tx_size, which MAC schedules by, is what the PDUs of tx_list need, while
\* SDUs are queued, cut, put back, dropped for lack of room and discarded.
THEOREM UmBufferStatus == Spec => []BufferStatusExact
<1>1. Init => BufferStatusExact
  <2> SUFFICES ASSUME Init PROVE BufferStatusExact
    BY SMTT(30)
  <2>1. DOMAIN [i \in DOMAIN tx_list |-> PduSize(tx_list[i])] = {} /\ bstatus_tx = 0
    <3>1. tx_list = <<>> /\ bstatus_tx = 0
      BY Zenon DEF Init
    <3>2. DOMAIN tx_list = {}
      BY SMTT(30), <3>1
    <3> QED BY Zenon, <3>1, <3>2
  <2> QED BY Zenon, <2>1, TotalEmpty DEF BufferStatusExact
<1>2. UmInv /\ UmInv' /\ BufferStatusExact /\ [Next]_vars => BufferStatusExact'
  <2>1. UNCHANGED vars /\ BufferStatusExact => BufferStatusExact'
    BY Zenon DEF vars, tx_vars, BufferStatusExact
  <2> QED BY Zenon, <2>1, ListStep
<1> QED BY <1>1, <1>2, UmInvariant, PTL DEF Spec

=============================================================================
