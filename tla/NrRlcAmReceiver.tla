-------------------------- MODULE NrRlcAmReceiver ---------------------------
(***************************************************************************)
(* The receiving side of NrRlcAmRx closed with the most general peer and   *)
(* channel: any segment of any SDU of the peer's transmission window, in   *)
(* any order, any number of times, and segments delayed in the MAC until   *)
(* their SDU is up to a window behind rx_next.                             *)
(***************************************************************************)
EXTENDS NrRlcAmRx

CONSTANT MaxClears   \* bound: number of re-establishments

VARIABLES rx_base,   \* history: the SDU that has SN 0 since the last clear
          clears     \* history: number of re-establishments

vars == <<rx_vars, rx_base, clears>>

\* SDUs are numbered in the order in which the peer gives them a SN.
ASSUME ReceiverAssumption == /\ Sdu \subseteq Nat
                             /\ \A d \in Sdu : d = 0 \/ d - 1 \in Sdu
                             /\ MaxClears \in Nat

SegmentOf(d, so, size) ==
  [data |-> d, sn |-> (d - rx_base) % SnModulus, so |-> so, size |-> size,
   is_last |-> so + size = SduSize[d]]

\* The peer transmits within a window of the oldest SDU not acknowledged, which
\* is not beyond rx_next.
InFlight(d) == /\ d >= rx_base
               /\ d - rx_base >= rx_count - WindowSize
               /\ d - rx_base < rx_count + WindowSize

Init == RxInit /\ rx_base = 0 /\ clears = 0

Receive ==
  \E d \in Sdu, p \in BOOLEAN :
    /\ InFlight(d)
    /\ \E so \in 0 .. (SduSize[d] - 1) : \E size \in 1 .. (SduSize[d] - so) :
         RecvPdu(SegmentOf(d, so, size), p)
    /\ UNCHANGED <<rx_base, clears>>

ReceiveBad ==
  \E p \in BOOLEAN : RecvBadPdu(p) /\ UNCHANGED <<rx_base, clears>>

Timer == /\ TReassemblyExpires \/ TStatusProhibitExpires
         /\ UNCHANGED <<rx_base, clears>>

Report == \E k \in Fitting : GenerateStatus(k) /\ UNCHANGED <<rx_base, clears>>

\* nr_rlc_entity_am_reestablishment: the peer starts again from SN 0 with an
\* SDU it has not transmitted before.
Reestablish ==
  /\ clears < MaxClears
  /\ RxClear
  /\ clears' = clears + 1
  /\ rx_base' = rx_base + rx_count + WindowSize

Next == Receive \/ ReceiveBad \/ Timer \/ Report \/ Reestablish

Spec == Init /\ [][Next]_vars

\* A running t_reassembly is checked by every set_time, so it expires in the end
\* unless a reception stops it.
FairSpec == Spec /\ WF_vars(TReassemblyExpires /\ UNCHANGED <<rx_base, clears>>)

-----------------------------------------------------------------------------
(* Properties                                                              *)

Off(sn) == Modulus(rx_next, sn)

\* SDU d is in the present numbering, at distance Dist(d) from rx_next.
Dist(d) == d - rx_base - rx_count

\* Types of the entity's fields (nr_rlc_entity_am_t, receiving side).
TypeOK ==
  /\ {rx_next, rx_next_highest, rx_highest_status, rx_next_status_trigger} \subseteq Sn
  /\ {t_reassembly, status_triggered, t_status_prohibit, garbled} \subseteq BOOLEAN
  /\ \A s \in rx_list : /\ s.sn \in Sn /\ s.so \in Nat /\ s.size \in Nat \ {0}
                        /\ s.is_last \in BOOLEAN
  /\ rx_delivered \subseteq Sn
  /\ {rx_count, rx_base, clears} \subseteq Nat
  /\ delivered \in [Sdu -> Nat]

\* The receive window is never overrun and its markers stay in order:
\* rx_next <= rx_highest_status <= rx_next_highest <= rx_next + window.
\* Everything buffered lies below rx_next_highest, and the two markers that
\* reception_actions and check_t_reassembly move past delivered SDUs rest on
\* SDUs that are not delivered.
WindowOrder ==
  /\ Off(rx_highest_status) <= Off(rx_next_highest)
  /\ Off(rx_next_highest) <= WindowSize
  /\ \A s \in rx_list : Off(s.sn) < Off(rx_next_highest)
  /\ rx_delivered \subseteq {s.sn : s \in rx_list}
  /\ rx_next \notin rx_delivered /\ rx_highest_status \notin rx_delivered

\* A running t_reassembly waits for an SN of the window above rx_next, and
\* rx_highest_status has overtaken it only over delivered SDUs, so that its
\* expiry cannot take rx_highest_status back.
TriggerInWindow ==
  t_reassembly =>
    /\ Off(rx_next_status_trigger) \in 1 .. Off(rx_next_highest)
    /\ \A sn \in Sn : Off(rx_next_status_trigger) <= Off(sn)
                      /\ Off(sn) < Off(rx_highest_status) => sn \in rx_delivered

\* rx_next never passes an SDU that was not delivered, and rx_delivered is
\* exactly the delivered part of the window.
NothingSkipped ==
  \A d \in Sdu : d >= rx_base =>
    /\ Dist(d) < 0 => delivered[d] = 1
    /\ Dist(d) \in 0 .. (WindowSize - 1) =>
         (delivered[d] = 1 <=> SnAdd(rx_next, Dist(d)) \in rx_delivered)

\* rx_size is the number of bytes held, so that the "RX buffer full" test
\* of nr_rlc_entity_am_recv_pdu recovers when SDUs are delivered, and stays
\* within rx_maxsize.
RxSizeExact ==
  /\ rx_size = SizeOf({s \in rx_list : s.sn \notin rx_delivered})
  /\ rx_size <= RxMaxSize

\* Whatever is truncated, a status report never acknowledges a byte that was
\* not received: what lies below ack_sn and under no NACK is there.
StatusHonest ==
  \A k \in Fitting : LET st == StatusOf(k) IN
    \A d \in Sdu : Dist(d) \in 0 .. (Off(st.ack_sn) - 1) =>
      \A b \in 0 .. (SduSize[d] - 1) :
        \/ b \in Received(rx_list, SnAdd(rx_next, Dist(d)))
        \/ \E n \in st.nacks : /\ n.sn = SnAdd(rx_next, Dist(d))
                               /\ n.so_start <= b
                               /\ n.so_end = ToEnd \/ b <= n.so_end

\* The walk of next_missing, whatever overlaps, gaps and delivered SDUs it meets,
\* returns exactly what is missing, each part in one range, and its ranges end
\* where Fitting has a report end.
NextMissingExact ==
  LET ranges == NextMissing
  IN  /\ UNION {Expanded(r[1], r[2]) : r \in ranges} = Missing
      /\ {r[2] : r \in ranges} =
           {<<a.sn, a.so_end>> : a \in {a \in Missing : ~Joined(a, Missing)}}

\* Between re-establishments the markers never move back.
MarkersMonotone ==
  [][clears' = clears =>
       /\ rx_count' >= rx_count
       /\ rx_count' + Off(rx_highest_status)' >= rx_count + Off(rx_highest_status)
       /\ rx_count' + Off(rx_next_highest)' >= rx_count + Off(rx_next_highest)]_vars

\* Something of SDU d is missing below what has been seen.
Gap(d) ==
  /\ delivered[d] = 0
  /\ \/ Dist(d) \in 0 .. (Off(rx_next_highest) - 2)
     \/ /\ Dist(d) >= 0 /\ Dist(d) = Off(rx_next_highest) - 1
        /\ SduHasMissingBytes(rx_list, rx_delivered, SnAdd(rx_next, Dist(d)))

\* A gap is filled, or t_reassembly takes rx_highest_status past it, and then
\* every status report asks for it (reception_actions, check_t_reassembly).
GapReported ==
  \A d \in Sdu : Gap(d) ~> (~Gap(d) \/ Dist(d) < Off(rx_highest_status))

=============================================================================
