------------------------------ MODULE NrRlcUm -------------------------------
(***************************************************************************)
(* One direction of an NR RLC UM bearer: the transmitting side of one      *)
(* entity, the MAC in between, and the receiving side of the other         *)
(* (openair2/LAYER2/nr_rlc/nr_rlc_entity_um.c).                            *)
(*                                                                         *)
(* rx_list holds the segments that still have data; an SN of which the     *)
(* code keeps only entries without data (data == NULL, size 0) is in       *)
(* rx_delivered.  The code keeps the list sorted by distance from          *)
(* rx_next_highest - window_size and drops prefixes of it; as a set, these *)
(* are the elements that compare below a bound.                            *)
(***************************************************************************)
EXTENDS NrRlcCommon, FiniteSets, FiniteSetsExt, Functions, Sequences

CONSTANTS SnHeader,    \* bytes that an SN adds to a header: 0 (6 bits) or 1 (12)
          RxMaxSize,   \* entity->rx_maxsize
          TxMaxSize,   \* entity->tx_maxsize
          Grants,      \* sizes MAC calls generate_pdu with
          MaxData,     \* bound: PDUs under way
          MaxClears,   \* bound: re-establishments
          Discards     \* whether discard_sdu is called

ASSUME UmAssumption ==
  /\ SnHeader \in {0, 1} /\ RxMaxSize \in Nat /\ TxMaxSize \in Nat
  /\ Grants \subseteq Nat /\ MaxData \in Nat /\ MaxClears \in Nat
  /\ Discards \in BOOLEAN
  /\ Sdu \subseteq Nat /\ \A d \in Sdu : d = 0 \/ d - 1 \in Sdu

VARIABLES tx_list, tx_next, tx_size, bstatus_tx,
          rx_next_highest, rx_next_reassembly, rx_timer_trigger, t_reassembly,
          rx_list, rx_delivered, rx_size,
          channel,     \* PDUs between the two MACs
          offered,     \* history: SDUs that PDCP has handed over, in this order
          delivered,   \* history: how often each SDU was handed to PDCP
          garbled,     \* history: something else than one whole SDU was
          tx_count,    \* history: cut SDUs that tx_next has passed
          rx_top,      \* history: rx_next_highest without wrap-around
          clears       \* history: number of re-establishments

tx_vars == <<tx_list, tx_next, tx_size, bstatus_tx, tx_count>>
rx_vars == <<rx_next_highest, rx_next_reassembly, rx_timer_trigger,
             t_reassembly, rx_list, rx_delivered, rx_size, rx_top>>
deliveries == <<delivered, garbled>>
vars == <<tx_vars, rx_vars, channel, offered, deliveries, clears>>

-----------------------------------------------------------------------------
(* Transmitting side                                                       *)

Segment(d, so, size) == [data |-> d, so |-> so, size |-> size]

IsFirst(s) == s.so = 0
IsLast(s) == s.so + s.size = SduSize[s.data]

\* compute_pdu_header_size, for a segment that is, or is not, the last one
HeaderSize(first, last) ==
  1 + (IF first /\ last THEN 0 ELSE SnHeader) + (IF first THEN 0 ELSE 2)

PduSize(s) == HeaderSize(IsFirst(s), IsLast(s)) + s.size

\* nr_rlc_entity_um_recv_sdu
RecvSdu(d) ==
  /\ d = offered
  /\ offered' = d + 1
  /\ IF tx_size + SduSize[d] > TxMaxSize
       THEN UNCHANGED <<tx_list, tx_size, bstatus_tx>>
       ELSE LET s == Segment(d, 0, SduSize[d])
            IN  /\ tx_list' = Append(tx_list, s)
                /\ tx_size' = tx_size + s.size
                /\ bstatus_tx' = bstatus_tx + PduSize(s)
  /\ UNCHANGED <<tx_next, tx_count, rx_vars, channel, deliveries, clears>>

\* What serialize_sdu encodes.  A whole SDU carries no SN.  abs is history.
PduOf(s) ==
  [seg |-> [data |-> s.data, so |-> s.so, size |-> s.size,
            is_last |-> IsLast(s), sn |-> tx_next],
   whole |-> IsFirst(s) /\ IsLast(s), abs |-> tx_count]

\* "update tx_next if the SDU is an SDU segment and is the last"
MovesOn(s) == ~IsFirst(s) /\ IsLast(s)

\* Mutant: the header of the rest is not in the buffer status.
SendPartMutant(s, rest) ==
  /\ tx_list' = rest \o Tail(tx_list)
  /\ tx_size' = tx_size - s.size
  /\ bstatus_tx' = bstatus_tx - PduSize(Head(tx_list))
                   + (IF rest = <<>> THEN 0 ELSE rest[1].size)
  /\ tx_next' = IF MovesOn(s) THEN SnAdd(tx_next, 1) ELSE tx_next
  /\ tx_count' = IF MovesOn(s) THEN tx_count + 1 ELSE tx_count
  /\ channel' = channel \cup {PduOf(s)}

\* The part of s that generate_tx_pdu transmits and the rest that it puts back
SendPart(s, rest) ==
  /\ tx_list' = rest \o Tail(tx_list)
  /\ tx_size' = tx_size - s.size
  /\ bstatus_tx' = bstatus_tx - PduSize(Head(tx_list))
                   + (IF rest = <<>> THEN 0 ELSE PduSize(rest[1]))
  /\ tx_next' = IF MovesOn(s) THEN SnAdd(tx_next, 1) ELSE tx_next
  /\ tx_count' = IF MovesOn(s) THEN tx_count + 1 ELSE tx_count
  /\ channel' = channel \cup {PduOf(s)}

\* resegment computes the header of the part with is_last cleared.
CutHeader(s) == HeaderSize(IsFirst(s), FALSE)

\* generate_tx_pdu: when resegment finds no room the segment is already off the
\* list, and stays off it.
GenerateTxPdu(size) ==
  /\ tx_list # <<>>
  /\ LET s == Head(tx_list)
         n == size - CutHeader(s)
     IN  /\ HeaderSize(IsFirst(s), IsLast(s)) + 1 <= size
         /\ IF PduSize(s) <= size THEN SendPart(s, <<>>)
            ELSE IF n >= 1
              THEN SendPart(Segment(s.data, s.so, n),
                            <<Segment(s.data, s.so + n, s.size - n)>>)
              ELSE /\ tx_list' = Tail(tx_list)
                   /\ bstatus_tx' = bstatus_tx - PduSize(s)
                   /\ UNCHANGED <<tx_next, tx_size, tx_count, channel>>
  /\ UNCHANGED <<rx_vars, offered, deliveries, clears>>

\* nr_rlc_entity_um_discard_sdu: an SDU of which nothing was sent.  tx_size
\* keeps counting it.
DiscardSdu(d) ==
  /\ Discards
  /\ \E i \in DOMAIN tx_list :
       /\ tx_list[i].data = d /\ IsFirst(tx_list[i]) /\ IsLast(tx_list[i])
       /\ tx_list' = SubSeq(tx_list, 1, i - 1) \o SubSeq(tx_list, i + 1, Len(tx_list))
       /\ bstatus_tx' = bstatus_tx - PduSize(tx_list[i])
  /\ UNCHANGED <<tx_next, tx_size, tx_count, rx_vars, channel, offered,
                 deliveries, clears>>
-----------------------------------------------------------------------------
(* Receiving side                                                          *)

\* modulus_rx: the distance from rx_next_highest - window_size
Offset(highest, sn) == (sn - highest + WindowSize) % SnModulus

Bytes(s) == s.so .. (s.so + s.size - 1)

SegmentsOf(list, sn) == {s \in list : s.sn = sn}

Received(list, sn) == UNION {Bytes(s) : s \in SegmentsOf(list, sn)}

SizeOf(segments) == MapThenSumSet(LAMBDA s : s.size, segments)

\* sdu_full
SduFull(list, done, sn) ==
  /\ sn \notin done
  /\ \E l \in SegmentsOf(list, sn) :
       l.is_last /\ (0 .. (l.so - 1)) \subseteq Received(list, sn)

\* sdu_has_missing_bytes
SduHasMissingBytes(list, done, sn) ==
  /\ sn \notin done
  /\ \E s \in SegmentsOf(list, sn) :
       ~((0 .. (s.so - 1)) \subseteq Received(list, sn))

\* while (sdu_delivered(entity, sn)) sn = (sn + 1) % sn_modulus
FirstUndelivered(sn, done) ==
  SnAdd(sn, CHOOSE k \in Sn : /\ SnAdd(sn, k) \notin done
                              /\ \A j \in 0 .. (k - 1) : SnAdd(sn, j) \in done)

Reassembled(segments) ==
  UNION {{<<s.data, b>> : b \in Bytes(s)} : s \in segments}

WholeSdu(d) == {d} \X (0 .. (SduSize[d] - 1))

\* The deliver_sdu callback, as history.
DeliverSdu(segments) ==
  /\ delivered' = [d \in Sdu |-> IF Reassembled(segments) = WholeSdu(d)
                                   THEN delivered[d] + 1 ELSE delivered[d]]
  /\ garbled' = (garbled \/ \A d \in Sdu : Reassembled(segments) # WholeSdu(d))

\* Mutant: SDUs that fall out of the window are kept.
InWindowMutant(highest, sn) == TRUE

\* An SN that compares below rx_next_highest
InWindow(highest, sn) == Offset(highest, sn) < WindowSize

\* reception_actions, what becomes of rx_next_reassembly
NextReassembly(x, full, highest, done) ==
  IF full
    THEN IF x = rx_next_reassembly THEN FirstUndelivered(x, done)
                                   ELSE rx_next_reassembly
    ELSE IF InWindow(highest, rx_next_reassembly) \/ highest = rx_next_highest
           THEN rx_next_reassembly
           ELSE FirstUndelivered(SnAdd(highest, SnModulus - WindowSize), done)

\* The condition for t_reassembly to run after a reception
ReassemblyGap(next, highest, list, done) ==
  \/ Offset(highest, highest) > Offset(highest, SnAdd(next, 1))
  \/ highest = SnAdd(next, 1) /\ SduHasMissingBytes(list, done, next)

\* The condition under which a reception stops a running t_reassembly
ReassemblyOver(next, highest, list, done) ==
  \/ Offset(highest, rx_timer_trigger) <= Offset(highest, next)
  \/ Offset(highest, rx_timer_trigger) > WindowSize
  \/ highest = SnAdd(next, 1) /\ ~SduHasMissingBytes(list, done, next)

\* Mutant: a timer that was stopped is not started for the next gap.
UpdateReassemblyMutant(next, highest, list, done) ==
  LET start == ~t_reassembly /\ ReassemblyGap(next, highest, list, done)
  IN  /\ t_reassembly' = (start \/ (t_reassembly
                                     /\ ~ReassemblyOver(next, highest, list, done)))
      /\ rx_timer_trigger' = IF start THEN highest ELSE rx_timer_trigger

\* The end of reception_actions: stop t_reassembly, then start it.
UpdateReassembly(next, highest, list, done) ==
  LET running == t_reassembly /\ ~ReassemblyOver(next, highest, list, done)
      start   == ~running /\ ReassemblyGap(next, highest, list, done)
  IN  /\ t_reassembly' = (running \/ start)
      /\ rx_timer_trigger' = IF start THEN highest ELSE rx_timer_trigger

\* reception_actions, once s is in the list
ReceptionActions(s) ==
  LET x       == s.sn
      list    == rx_list \cup {s}
      full    == SduFull(list, rx_delivered, x)
      done    == IF full THEN rx_delivered \cup {x} ELSE rx_delivered
      kept    == IF full THEN list \ SegmentsOf(list, x) ELSE list
      moves   == ~full /\ ~InWindow(rx_next_highest, x)
      highest == IF moves THEN SnAdd(x, 1) ELSE rx_next_highest
      list2   == IF moves THEN {p \in kept : InWindow(highest, p.sn)} ELSE kept
      done2   == IF moves THEN {n \in done : InWindow(highest, n)} ELSE done
      next    == NextReassembly(x, full, highest, done2)
  IN  /\ rx_next_highest' = highest
      /\ rx_top' = rx_top + ((highest - rx_next_highest) % SnModulus)
      /\ rx_list' = list2
      /\ rx_delivered' = done2
      /\ rx_size' = rx_size + s.size - SizeOf(list \ list2)
      /\ rx_next_reassembly' = next
      /\ IF full THEN DeliverSdu(SegmentsOf(list, x)) ELSE UNCHANGED deliveries
      /\ UpdateReassembly(next, highest, list2, done2)

\* Mutant: a segment of an SDU that was given up is taken in.
TooLateMutant(sn) == FALSE

\* "discard PDU if sn < rx_next_reassembly"
TooLate(sn) ==
  Offset(rx_next_highest, sn) < Offset(rx_next_highest, rx_next_reassembly)

\* nr_rlc_entity_um_recv_pdu
RecvPdu(p) ==
  IF p.whole THEN DeliverSdu({p.seg}) /\ UNCHANGED rx_vars
  ELSE IF rx_size + p.seg.size > RxMaxSize \/ TooLate(p.seg.sn)
    THEN UNCHANGED <<rx_vars, deliveries>>
    ELSE ReceptionActions(p.seg)

\* check_t_reassembly, when the timer has expired.  The bytes that are dropped
\* stay in rx_size.  The second test for a restart adds 1 without modulus.
TReassemblyExpires ==
  LET next  == FirstUndelivered(rx_timer_trigger, rx_delivered)
      Late(sn) == Offset(rx_next_highest, sn) < Offset(rx_next_highest, next)
      list  == {s \in rx_list : ~Late(s.sn)}
      done  == {n \in rx_delivered : ~Late(n)}
      again == \/ Offset(rx_next_highest, rx_next_highest)
                    > Offset(rx_next_highest, SnAdd(next, 1))
               \/ /\ rx_next_highest = next + 1
                  /\ SduHasMissingBytes(list, done, next)
  IN  /\ t_reassembly
      /\ rx_next_reassembly' = next
      /\ rx_list' = list
      /\ rx_delivered' = done
      /\ t_reassembly' = again
      /\ rx_timer_trigger' = IF again THEN rx_next_highest ELSE rx_timer_trigger
      /\ UNCHANGED <<rx_next_highest, rx_size, rx_top>>

-----------------------------------------------------------------------------
(* Bearer                                                                  *)

Init ==
  /\ tx_list = <<>> /\ tx_next = 0 /\ tx_size = 0 /\ bstatus_tx = 0
  /\ rx_next_highest = 0 /\ rx_next_reassembly = 0 /\ rx_timer_trigger = 0
  /\ t_reassembly = FALSE /\ rx_list = {} /\ rx_delivered = {} /\ rx_size = 0
  /\ channel = {} /\ offered = 0
  /\ delivered = [d \in Sdu |-> 0] /\ garbled = FALSE
  /\ tx_count = 0 /\ rx_top = 0 /\ clears = 0

\* The numbers under way stay within a window of what has arrived: fewer than a
\* window of cut SDUs in a row are lost.
Transmit ==
  \E size \in Grants : /\ Cardinality(channel) < MaxData
                       /\ tx_count < rx_top + WindowSize
                       /\ GenerateTxPdu(size)

\* PDUs overtake each other, but not by a window.
Receive ==
  \E p \in channel :
    /\ p.whole \/ p.abs >= rx_top - WindowSize
    /\ RecvPdu(p)
    /\ channel' = channel \ {p}
    /\ UNCHANGED <<tx_vars, offered, clears>>

Lose ==
  \E p \in channel :
    /\ channel' = channel \ {p}
    /\ UNCHANGED <<tx_vars, rx_vars, offered, deliveries, clears>>

Expire ==
  /\ TReassemblyExpires
  /\ UNCHANGED <<tx_vars, channel, offered, deliveries, clears>>

\* Mutant: rx_list is not emptied.
ReestablishMutant ==
  /\ clears < MaxClears
  /\ clears' = clears + 1
  /\ tx_list' = <<>> /\ tx_next' = 0 /\ tx_size' = 0 /\ bstatus_tx' = 0
  /\ rx_next_highest' = 0 /\ rx_next_reassembly' = 0 /\ rx_timer_trigger' = 0
  /\ t_reassembly' = FALSE /\ rx_delivered' = {} /\ rx_size' = 0
  /\ channel' = {} /\ tx_count' = 0 /\ rx_top' = 0
  /\ UNCHANGED <<rx_list, offered, deliveries>>

\* nr_rlc_entity_um_reestablishment (clear_entity) at both ends, with the reset
\* of MAC that goes with it.
Reestablish ==
  /\ clears < MaxClears
  /\ clears' = clears + 1
  /\ tx_list' = <<>> /\ tx_next' = 0 /\ tx_size' = 0 /\ bstatus_tx' = 0
  /\ rx_next_highest' = 0 /\ rx_next_reassembly' = 0 /\ rx_timer_trigger' = 0
  /\ t_reassembly' = FALSE /\ rx_list' = {} /\ rx_delivered' = {} /\ rx_size' = 0
  /\ channel' = {} /\ tx_count' = 0 /\ rx_top' = 0
  /\ UNCHANGED <<offered, deliveries>>

Next == \/ \E d \in Sdu : RecvSdu(d) \/ DiscardSdu(d)
        \/ Transmit \/ Receive \/ Lose \/ Expire \/ Reestablish

Spec == Init /\ [][Next]_vars

\* set_time is called every slot: a running t_reassembly expires.
FairSpec == Spec /\ WF_vars(Expire)

-----------------------------------------------------------------------------
(* Properties                                                              *)

Off(sn) == Offset(rx_next_highest, sn)

\* rx_next_reassembly stays within the window below rx_next_highest, on an SDU
\* that is not delivered; nothing below it and nothing from rx_next_highest on is
\* kept by reception_actions and check_t_reassembly.
WindowOrder ==
  /\ Off(rx_next_reassembly) <= WindowSize
  /\ rx_next_reassembly \notin rx_delivered
  /\ \A s \in rx_list : Off(s.sn) \in Off(rx_next_reassembly) .. (WindowSize - 1)
  /\ \A sn \in rx_delivered : Off(sn) < WindowSize

\* What is delivered is one whole SDU, and none is delivered twice, however the
\* segments of different SDUs and of one SDU overtake each other.
DeliveredOnce == ~garbled /\ \A d \in Sdu : delivered[d] <= 1

\* bstatus.tx_size, which MAC schedules by, is what the PDUs of tx_list need.
BufferStatusExact ==
  bstatus_tx = Total([i \in DOMAIN tx_list |-> PduSize(tx_list[i])])

BytesWaiting == Total([i \in DOMAIN tx_list |-> tx_list[i].size])

\* The refinement mapping to UmService.  An SDU is under way as long as each of
\* its bytes is waiting in tx_list, on its way in a PDU that will not come too
\* late, or kept in rx_list.
NotTooLate(p) ==
  p.whole \/ p.abs >= rx_top - WindowSize + Off(rx_next_reassembly)

BytesUnderway ==
  Reassembled(Range(tx_list) \cup rx_list \cup {p.seg : p \in {q \in channel : NotTooLate(q)}})

SduStatus ==
  LET bytes == BytesUnderway
  IN  [d \in Sdu |-> IF d >= offered THEN "new"
                     ELSE IF delivered[d] > 0 THEN "delivered"
                     ELSE IF WholeSdu(d) \subseteq bytes THEN "underway" ELSE "lost"]

Service == INSTANCE UmService WITH Sdu <- Sdu, status <- SduStatus

\* The bearer implements UmService: an SDU whose number rx_next_reassembly has
\* passed, or of which any byte was dropped, is never delivered afterwards.
ImplementsService == Service!Spec

\* Something is missing below the last byte received, and an SDU waits for it.
Waiting ==
  \E s \in rx_list :
    \/ SnAdd(s.sn, 1) # rx_next_highest
    \/ SduHasMissingBytes(rx_list, rx_delivered, s.sn)

\* No gap lasts: whenever something is missing below what was received the bytes
\* arrive, or t_reassembly expires and the SDU is given up, until no SDU waits.
\* The restart in check_t_reassembly misses one case, an incomplete SDU with the
\* last SN before the wrap-around.
GapResolved ==
  []<>(~Waiting \/ (rx_next_reassembly = SnModulus - 1 /\ rx_next_highest = 0))

\* "not enough room for at least one byte of data? do nothing"
\* (generate_tx_pdu): a grant for which no PDU is generated leaves tx_list alone.
NoRoomDoesNothing ==
  [][(\E size \in Grants : GenerateTxPdu(size)) /\ channel' = channel
       => tx_list' = tx_list]_vars

\* "dicard PDU if rx buffer is full" (nr_rlc_entity_um_recv_pdu): rx_size says
\* that there is no room for a byte only if the bytes held fill the buffer.
FullMeansFull == rx_size + 1 > RxMaxSize => SizeOf(rx_list) + 1 > RxMaxSize

\* "SDU rejected, SDU buffer full" (nr_rlc_entity_um_recv_sdu): an SDU is
\* rejected only if the SDUs waiting leave no room for it.
RejectedMeansFull ==
  \A d \in Sdu : tx_size + SduSize[d] > TxMaxSize
                   => BytesWaiting + SduSize[d] > TxMaxSize

\* "or rx_next_highest == rx_next_reassembly + 1 and no missing byte for
\* rx_next_reassembly" (reception_actions), the least that keeps t_reassembly from
\* running.
StoppedMeansNoGap ==
  t_reassembly \/ ~ReassemblyGap(rx_next_reassembly, rx_next_highest, rx_list,
                                 rx_delivered)
=============================================================================
