----------------------------- MODULE NrRlcAmTx ------------------------------
(***************************************************************************)
(* The transmitting side of an NR RLC AM entity                            *)
(* (openair2/LAYER2/nr_rlc/nr_rlc_entity_am.c).                            *)
(*                                                                         *)
(* tx_list is a sequence.  wait_list and retransmit_list, which the code   *)
(* keeps sorted by sn then so, are sets; the order is TxBefore.  What the  *)
(* code keeps once per SDU (nr_rlc_sdu_t: sn, ref_count, free_count,       *)
(* retx_count) is a function on SDUs, back at its initial value once the   *)
(* SDU is freed.                                                           *)
(***************************************************************************)
EXTENDS NrRlcCommon, FiniteSets, FiniteSetsExt, Sequences

CONSTANTS TxMaxSize,         \* entity->tx_maxsize
          MinHeader,         \* header without segment offset: 2 or 3 bytes
          PollPdu, PollByte, \* entity->poll_pdu, poll_byte; -1 is infinity
          MaxRetxThreshold   \* entity->max_retx_threshold

ASSUME TxAssumption == /\ TxMaxSize \in Nat /\ MinHeader \in {2, 3}
                       /\ PollPdu \in (Nat \ {0}) \cup {-1}
                       /\ PollByte \in (Nat \ {0}) \cup {-1}
                       /\ MaxRetxThreshold \in Nat

VARIABLES tx_list, wait_list, retransmit_list, tx_next, tx_next_ack, poll_sn,
          t_poll_retransmit, force_poll, pdu_without_poll, byte_without_poll,
          tx_size, bstatus_tx, bstatus_retx,
          sdu_sn, ref_count, free_count, retx_count,
          confirmed,   \* history: calls of sdu_successful_delivery, by SDU
          rlf,         \* history: max_retx_reached was called
          crashed      \* history: a NULL wait_list was dereferenced

tx_lists == <<tx_list, wait_list, retransmit_list, tx_size, bstatus_tx, bstatus_retx>>
tx_sdus  == <<sdu_sn, ref_count, free_count, retx_count>>
tx_poll  == <<poll_sn, t_poll_retransmit, force_poll, pdu_without_poll,
              byte_without_poll>>
tx_history == <<confirmed, rlf, crashed>>
tx_vars == <<tx_lists, tx_next, tx_next_ack, tx_poll, tx_sdus, tx_history>>

-----------------------------------------------------------------------------
(* Segments                                                                *)

Segment(d, so, size) == [sdu |-> d, so |-> so, size |-> size]

\* compute_pdu_header_size
HeaderSize(s) == MinHeader + (IF s.so = 0 THEN 0 ELSE 2)

PduSize(s) == HeaderSize(s) + s.size

TotalPduSize(segments) == Total([s \in segments |-> PduSize(s)])

\* resegment: the part that fits in size bytes, and the rest, if any
FirstPart(s, size) ==
  IF PduSize(s) <= size THEN s
  ELSE Segment(s.sdu, s.so, size - HeaderSize(s))

\* Mutant: the rest starts where the whole started.
RestMutant(s, size) ==
  IF PduSize(s) <= size THEN {}
  ELSE {Segment(s.sdu, s.so, PduSize(s) - size)}

Rest(s, size) ==
  IF PduSize(s) <= size THEN {}
  ELSE LET n == size - HeaderSize(s)
       IN  {Segment(s.sdu, s.so + n, s.size - n)}

\* Mutant: resegment does not count the reference.
ReferencedMutant(s, rest) == ref_count

\* resegment: one more reference to the SDU
Referenced(s, rest) == [ref_count EXCEPT ![s.sdu] = @ + Cardinality(rest)]

\* The order nr_rlc_tx_sdu_segment_list_add keeps.
TxBefore(s, t) ==
  LET c == SnCompare(tx_next_ack, sdu_sn[s.sdu], sdu_sn[t.sdu])
  IN  c < 0 \/ (c = 0 /\ s.so < t.so)

FirstOf(segments) == CHOOSE s \in segments : \A t \in segments : ~TxBefore(t, s)

OfSdu(segments, d) == {s \in segments : s.sdu = d}

\* sn_compare_tx(entity, sdu->sn, ack_sn) < 0
Acked(s, ack) == SnCompare(tx_next_ack, sdu_sn[s.sdu], ack) < 0
-----------------------------------------------------------------------------
(* Polling                                                                 *)

\* Mutant: one SDU too many in the window.
IsWindowStallingMutant(next) ==
  ~ /\ SnCompare(tx_next_ack, tx_next_ack, next) <= 0
    /\ SnCompare(tx_next_ack, next, SnAdd(tx_next_ack, WindowSize)) <= 0

\* is_window_stalling
IsWindowStalling(next) ==
  ~ /\ SnCompare(tx_next_ack, tx_next_ack, next) <= 0
    /\ SnCompare(tx_next_ack, next, SnAdd(tx_next_ack, WindowSize)) < 0

\* Mutant: no poll when the buffers run empty.
CheckPollAfterPduAssemblyMutant(list, retransmit, next) == IsWindowStalling(next)

\* check_poll_after_pdu_assembly
CheckPollAfterPduAssembly(list, retransmit, next) ==
  (list = <<>> /\ retransmit = {}) \/ IsWindowStalling(next)

\* A counter that no limit is compared with stays at 0.
Count(n, k, limit) == IF limit = -1 THEN 0 ELSE n + k

\* serialize_sdu and include_poll: polling state after a PDU with poll bit p
\* when the two counters stand at pdus and bytes.
IncludePoll(p, next, pdus, bytes) ==
  /\ pdu_without_poll' = IF p THEN 0 ELSE pdus
  /\ byte_without_poll' = IF p THEN 0 ELSE bytes
  /\ poll_sn' = IF p THEN SnAdd(next, SnModulus - 1) ELSE poll_sn
  /\ t_poll_retransmit' = (p \/ t_poll_retransmit)
  /\ force_poll' = FALSE

-----------------------------------------------------------------------------
(* SDUs from PDCP, PDUs to MAC                                             *)

TxFull(d) == tx_size + SduSize[d] > TxMaxSize

\* nr_rlc_entity_am_recv_sdu
RecvSdu(d) ==
  IF TxFull(d) THEN UNCHANGED tx_vars
  ELSE LET s == Segment(d, 0, SduSize[d])
       IN  /\ tx_list' = Append(tx_list, s)
           /\ tx_size' = tx_size + SduSize[d]
           /\ bstatus_tx' = bstatus_tx + PduSize(s)
           /\ ref_count' = [ref_count EXCEPT ![d] = 1]
           /\ UNCHANGED <<wait_list, retransmit_list, bstatus_retx, tx_next,
                          tx_next_ack, tx_poll, sdu_sn, free_count,
                          retx_count, tx_history>>

\* A transport block of size bytes has room for the head of the list.
RetxFits(size) ==
  retransmit_list # {} /\ HeaderSize(FirstOf(retransmit_list)) + 1 <= size

RetxLeft(size) ==
  LET s == FirstOf(retransmit_list)
  IN  (retransmit_list \ {s}) \cup Rest(s, size)

\* The PDU generate_retx_pdu writes
RetxPdu(size) ==
  LET s == FirstOf(retransmit_list)
  IN  [segment |-> FirstPart(s, size), sn |-> sdu_sn[s.sdu],
       poll    |-> \/ force_poll
                   \/ CheckPollAfterPduAssembly(tx_list, RetxLeft(size), tx_next)]

\* generate_retx_pdu
GenerateRetxPdu(size) ==
  LET s    == FirstOf(retransmit_list)
      rest == Rest(s, size)
      pdu  == RetxPdu(size)
  IN  /\ RetxFits(size)
      /\ retransmit_list' = RetxLeft(size)
      /\ wait_list' = wait_list \cup {pdu.segment}
      /\ bstatus_retx' = bstatus_retx - PduSize(s) + TotalPduSize(rest)
      /\ ref_count' = Referenced(s, rest)
      /\ IncludePoll(pdu.poll, tx_next, pdu_without_poll, byte_without_poll)
      /\ UNCHANGED <<tx_list, tx_size, bstatus_tx, tx_next, tx_next_ack,
                     sdu_sn, free_count, retx_count, tx_history>>

TxFits(size) == /\ ~IsWindowStalling(tx_next)
                /\ tx_list # <<>>
                /\ HeaderSize(Head(tx_list)) + 1 <= size

\* The elements of a set that has one at most
AsList(S) == IF S = {} THEN <<>> ELSE <<CHOOSE e \in S : TRUE>>

TxLeft(size) ==
  AsList(Rest(Head(tx_list), size)) \o Tail(tx_list)

\* The head of tx_list is given a SN when its first byte is sent.
NextAfter(s) == IF sdu_sn[s.sdu] = -1 THEN SnAdd(tx_next, 1) ELSE tx_next

\* The PDU generate_tx_pdu writes
TxPdu(size) ==
  LET s    == Head(tx_list)
      part == FirstPart(s, size)
  IN  [segment |-> part,
       sn      |-> IF sdu_sn[s.sdu] = -1 THEN tx_next ELSE sdu_sn[s.sdu],
       poll    |->
         \/ PollPdu # -1 /\ pdu_without_poll + 1 >= PollPdu
         \/ PollByte # -1 /\ byte_without_poll + part.size >= PollByte
         \/ CheckPollAfterPduAssembly(TxLeft(size), retransmit_list, NextAfter(s))
         \/ force_poll]

\* generate_tx_pdu
GenerateTxPdu(size) ==
  LET s    == Head(tx_list)
      rest == Rest(s, size)
      pdu  == TxPdu(size)
  IN  /\ TxFits(size)
      /\ tx_list' = TxLeft(size)
      /\ wait_list' = wait_list \cup {pdu.segment}
      /\ bstatus_tx' = bstatus_tx - PduSize(s) + TotalPduSize(rest)
      /\ ref_count' = Referenced(s, rest)
      /\ sdu_sn' = [sdu_sn EXCEPT ![s.sdu] = pdu.sn]
      /\ tx_next' = NextAfter(s)
      /\ IncludePoll(pdu.poll, NextAfter(s), Count(pdu_without_poll, 1, PollPdu),
                     Count(byte_without_poll, pdu.segment.size, PollByte))
      /\ UNCHANGED <<retransmit_list, tx_size, bstatus_retx, tx_next_ack,
                     free_count, retx_count, tx_history>>
-----------------------------------------------------------------------------
(* STATUS PDUs                                                             *)

\* A status is [ack_sn, nacks], nacks a sequence of [sn, so_start, so_end]
\* with the NACK ranges expanded.

\* Mutant: an ack_sn that is not below tx_next is not refused.
ControlPduValidMutant(st) ==
  \A k \in DOMAIN st.nacks : SnCompare(tx_next_ack, st.nacks[k].sn, st.ack_sn) <= 0

\* The validation of process_control_pdu.  Its test that NACKs increase
\* never applies: prev_nack_sn is still -1 in that loop.
ControlPduValid(st) ==
  /\ SnCompare(tx_next_ack, st.ack_sn, tx_next) <= 0
  /\ \A k \in DOMAIN st.nacks : SnCompare(tx_next_ack, st.nacks[k].sn, st.ack_sn) <= 0

\* Segment s is of the NACK's SN and so_overlap holds.
Overlap(s, n) ==
  /\ sdu_sn[s.sdu] = n.sn
  /\ IF n.so_start < s.so THEN n.so_end = ToEnd \/ n.so_end >= s.so
                           ELSE n.so_start <= s.so + s.size - 1

\* "can't classify it yet": s comes after the NACK's start
Beyond(s, n) ==
  LET c == SnCompare(tx_next_ack, sdu_sn[s.sdu], n.sn)
  IN  c > 0 \/ (c = 0 /\ s.so > n.so_start)

\* wait_list and retransmit_list in the order in which they are walked.  Of
\* two SDUs with the same SN the older one comes first.
Merged ==
  LET sent      == wait_list \cup retransmit_list
      before(s) == {t \in sent : \/ TxBefore(t, s)
                                 \/ ~TxBefore(s, t) /\ t.sdu < s.sdu}
  IN  [i \in 1 .. Cardinality(sent) |->
         CHOOSE s \in sent : Cardinality(before(s)) = i - 1]

\* The NACK by which process_control_pdu classifies each segment of m: the first
\* one, from that of the segment before, which it overlaps or is not beyond;
\* one more than there are when it is beyond all of them.
NackOf(m, nacks) ==
  LET last == Len(nacks)
      at[j \in 0 .. Len(m)] ==
        IF j = 0 THEN 1
        ELSE Min({last + 1} \cup
                 {k \in at[j - 1] .. last : \/ Overlap(m[j], nacks[k])
                                           \/ ~Beyond(m[j], nacks[k])})
  IN  at

\* The walk of process_control_pdu over the two lists: segments asked for
\* again, acknowledged, lost.  Where a segment of retransmit_list is before its
\* NACK but not below ack_sn and wait_list is used up, the rest of
\* retransmit_list is linked to the new list ("just a speedup") and unlinked
\* again after the loop: lost.
Outcome(st) ==
  LET m    == Merged
      last == Len(st.nacks)
      at   == NackOf(m, st.nacks)
      hits == {j \in DOMAIN m : at[j] <= last /\ Overlap(m[j], st.nacks[at[j]])}
      lost == {j \in DOMAIN m \ hits :
                 /\ at[j] <= last
                 /\ ~Acked(m[j], st.ack_sn)
                 /\ \A k \in j .. Len(m) : m[k] \in retransmit_list}
      kept == {j \in DOMAIN m : \A k \in lost : j < k}
  IN  [nacked |-> {m[j] : j \in hits \cap kept},
       acked  |-> {m[j] : j \in {k \in kept \ hits : Acked(m[k], st.ack_sn)}},
       lost   |-> {m[j] : j \in DOMAIN m \ kept}]

\* retx_count after k more retransmissions.  The code compares it with at most
\* MaxRetxThreshold * ref_count, so that is where the model stops counting.
Retransmitted(d, k) ==
  Min({retx_count[d] + k, Max({0, MaxRetxThreshold * SduSize[d]})})

\* nr_rlc_free_sdu_segment and what follows it in process_control_pdu
FreeSegments(freed) ==
  LET count(d) == free_count[d] + Cardinality(OfSdu(freed, d))
      over     == {d \in Sdu : OfSdu(freed, d) # {} /\ count(d) = ref_count[d]}
  IN  /\ free_count' = [d \in Sdu |-> IF d \in over THEN 0 ELSE count(d)]
      /\ ref_count' = [d \in Sdu |-> IF d \in over THEN 0 ELSE ref_count[d]]
      /\ sdu_sn' = [d \in Sdu |-> IF d \in over THEN -1 ELSE sdu_sn[d]]
      /\ confirmed' = [d \in Sdu |-> confirmed[d] + (IF d \in over THEN 1 ELSE 0)]
      /\ tx_size' = tx_size - Total([d \in over |-> SduSize[d]])

\* The update of tx_next_ack: down from tx_next to the head of either list
\* and to ack_sn
NextAck(wait, retransmit, ack) ==
  LET sns == {tx_next, ack} \cup {sdu_sn[s.sdu] : s \in wait \cup retransmit}
  IN  CHOOSE sn \in sns : \A other \in sns : SnCompare(tx_next_ack, sn, other) <= 0

\* process_control_pdu
ProcessControlPdu(st) ==
  IF ~ControlPduValid(st) THEN UNCHANGED tx_vars
  ELSE
    \E out \in {Outcome(st)} :
    LET again  == out.nacked \cap wait_list
        retx(d) == Retransmitted(d, Cardinality(OfSdu(again, d)))
        wait   == wait_list \ (again \cup out.acked)
        retransmit == (retransmit_list \ (out.acked \cup out.lost)) \cup again
    IN  /\ wait_list' = wait
        /\ retransmit_list' = retransmit
        /\ bstatus_retx' = bstatus_retx + TotalPduSize(again)
                           - TotalPduSize(out.acked \cap retransmit_list)
        /\ FreeSegments(out.acked)
        /\ retx_count' = [d \in Sdu |-> IF sdu_sn'[d] = -1 THEN -1 ELSE retx(d)]
        /\ rlf' = (rlf \/ \E s \in again :
                            retx(s.sdu) >= MaxRetxThreshold * ref_count[s.sdu])
        /\ tx_next_ack' = NextAck(wait, retransmit, st.ack_sn)
        /\ t_poll_retransmit' =
             /\ t_poll_retransmit
             /\ SnCompare(tx_next_ack, poll_sn, st.ack_sn) >= 0
             /\ \A k \in DOMAIN st.nacks : st.nacks[k].sn # poll_sn
        /\ UNCHANGED <<tx_list, bstatus_tx, tx_next, poll_sn, force_poll,
                       pdu_without_poll, byte_without_poll, crashed>>

-----------------------------------------------------------------------------
(* Timer, discard, creation and re-establishment                           *)

\* check_t_poll_retransmit, when the timer has expired
TPollRetransmitExpires ==
  LET head   == FirstOf(wait_list)
      again  == OfSdu(wait_list, head.sdu)
      count  == Retransmitted(head.sdu, 1)
  IN  /\ t_poll_retransmit
      /\ t_poll_retransmit' = FALSE
      /\ force_poll' = TRUE
      /\ \/ /\ ~CheckPollAfterPduAssembly(tx_list, retransmit_list, tx_next)
            /\ UNCHANGED <<wait_list, retransmit_list, bstatus_retx, retx_count,
                           rlf, crashed>>
         \/ /\ CheckPollAfterPduAssembly(tx_list, retransmit_list, tx_next)
            /\ wait_list = {}
            /\ crashed' = TRUE
            /\ UNCHANGED <<wait_list, retransmit_list, bstatus_retx, retx_count, rlf>>
         \/ /\ CheckPollAfterPduAssembly(tx_list, retransmit_list, tx_next)
            /\ wait_list # {}
            /\ wait_list' = wait_list \ again
            /\ retransmit_list' = retransmit_list \cup again
            /\ bstatus_retx' = bstatus_retx + TotalPduSize(again)
            /\ retx_count' = [retx_count EXCEPT ![head.sdu] = count]
            /\ rlf' = (rlf \/ count >= MaxRetxThreshold)
            /\ UNCHANGED crashed
      /\ UNCHANGED <<tx_list, tx_size, bstatus_tx, tx_next, tx_next_ack, poll_sn,
                     pdu_without_poll, byte_without_poll, sdu_sn, ref_count,
                     free_count, confirmed>>

\* A list without its element at k
Without(list, k) == SubSeq(list, 1, k - 1) \o SubSeq(list, k + 1, Len(list))

\* Mutant: the two counters of bytes are not updated.
DiscardSduMutant(d) ==
  /\ \E k \in DOMAIN tx_list :
       /\ tx_list[k] = Segment(d, 0, SduSize[d])
       /\ tx_list' = Without(tx_list, k)
  /\ ref_count' = [ref_count EXCEPT ![d] = 0]
  /\ UNCHANGED <<wait_list, retransmit_list, tx_size, bstatus_tx, bstatus_retx,
                 tx_next, tx_next_ack, tx_poll, sdu_sn, free_count, retx_count,
                 tx_history>>

\* nr_rlc_entity_am_discard_sdu: only an SDU of which nothing was sent
DiscardSdu(d) ==
  /\ \E k \in DOMAIN tx_list :
       /\ tx_list[k] = Segment(d, 0, SduSize[d])
       /\ tx_list' = Without(tx_list, k)
  /\ tx_size' = tx_size - SduSize[d]
  /\ bstatus_tx' = bstatus_tx - PduSize(Segment(d, 0, SduSize[d]))
  /\ ref_count' = [ref_count EXCEPT ![d] = 0]
  /\ UNCHANGED <<wait_list, retransmit_list, bstatus_retx, tx_next, tx_next_ack,
                 tx_poll, sdu_sn, free_count, retx_count, tx_history>>

TxInit ==
  /\ tx_list = <<>> /\ wait_list = {} /\ retransmit_list = {}
  /\ tx_next = 0 /\ tx_next_ack = 0 /\ poll_sn = 0
  /\ t_poll_retransmit = FALSE /\ force_poll = FALSE
  /\ pdu_without_poll = 0 /\ byte_without_poll = 0
  /\ tx_size = 0 /\ bstatus_tx = 0 /\ bstatus_retx = 0
  /\ sdu_sn = [d \in Sdu |-> -1] /\ ref_count = [d \in Sdu |-> 0]
  /\ free_count = [d \in Sdu |-> 0] /\ retx_count = [d \in Sdu |-> -1]
  /\ confirmed = [d \in Sdu |-> 0] /\ rlf = FALSE /\ crashed = FALSE

\* clear_entity, transmitting side
TxClear ==
  /\ tx_list' = <<>> /\ wait_list' = {} /\ retransmit_list' = {}
  /\ tx_next' = 0 /\ tx_next_ack' = 0 /\ poll_sn' = 0
  /\ t_poll_retransmit' = FALSE /\ force_poll' = FALSE
  /\ pdu_without_poll' = 0 /\ byte_without_poll' = 0
  /\ tx_size' = 0 /\ bstatus_tx' = 0 /\ bstatus_retx' = 0
  /\ sdu_sn' = [d \in Sdu |-> -1] /\ ref_count' = [d \in Sdu |-> 0]
  /\ free_count' = [d \in Sdu |-> 0] /\ retx_count' = [d \in Sdu |-> -1]
  /\ UNCHANGED tx_history
=============================================================================
