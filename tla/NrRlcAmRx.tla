----------------------------- MODULE NrRlcAmRx ------------------------------
(***************************************************************************)
(* The receiving side of an NR RLC AM entity                               *)
(* (openair2/LAYER2/nr_rlc/nr_rlc_entity_am.c).                            *)
(*                                                                         *)
(* rx_list is kept as a set of segments: the code keeps it sorted by sn    *)
(* then so, and every walk over it only asks which bytes of which SN it    *)
(* holds.  A segment whose data pointer the code has set to NULL           *)
(* (delivered, but still in the list because an earlier SDU is missing) is *)
(* one whose SN is in rx_delivered.  Timers are running or not; a running  *)
(* timer may expire whenever set_time is called.                           *)
(***************************************************************************)
EXTENDS NrRlcCommon, FiniteSets, FiniteSetsExt, Sequences

CONSTANT RxMaxSize    \* entity->rx_maxsize

ASSUME RxAssumption == RxMaxSize \in Nat

VARIABLES rx_next, rx_next_highest, rx_highest_status,
          rx_next_status_trigger, t_reassembly, status_triggered,
          t_status_prohibit, rx_list, rx_delivered, rx_size,
          rx_count,    \* history: the number of SDUs rx_next has passed
          delivered,   \* history: how often each SDU was handed to PDCP
          garbled      \* history: something else than one whole SDU was

rx_state == <<rx_next, rx_next_highest, rx_highest_status,
              rx_next_status_trigger, t_reassembly, rx_list, rx_delivered,
              rx_size>>
rx_history == <<rx_count, delivered, garbled>>
rx_vars == <<rx_state, status_triggered, t_status_prohibit, rx_history>>

-----------------------------------------------------------------------------
(* Segments                                                                *)

Bytes(s) == s.so .. (s.so + s.size - 1)

SegmentsOf(list, sn) == {s \in list : s.sn = sn}

Received(list, sn) == UNION {Bytes(s) : s \in SegmentsOf(list, sn)}

\* segment_already_received
SegmentAlreadyReceived(s) == Bytes(s) \subseteq Received(rx_list, s.sn)

\* sdu_full, of an SDU that is not yet delivered
SduFull(list, sn) ==
  \E l \in SegmentsOf(list, sn) :
    l.is_last /\ (0 .. (l.so - 1)) \subseteq Received(list, sn)

\* sdu_has_missing_bytes
SduHasMissingBytes(list, done, sn) ==
  /\ sn \notin done
  /\ \E s \in SegmentsOf(list, sn) :
       ~((0 .. (s.so - 1)) \subseteq Received(list, sn))

\* Mutant: steps over one SDU too many.
FirstUndeliveredMutant(sn, done) ==
  SnAdd(sn, 1 + CHOOSE k \in Sn : /\ SnAdd(sn, k) \notin done
                                  /\ \A j \in 0 .. (k - 1) : SnAdd(sn, j) \in done)

\* while (sdu_delivered(entity, sn)) sn = (sn + 1) % sn_modulus
FirstUndelivered(sn, done) ==
  SnAdd(sn, CHOOSE k \in Sn : /\ SnAdd(sn, k) \notin done
                              /\ \A j \in 0 .. (k - 1) : SnAdd(sn, j) \in done)

\* Mutant: a window that is one too large.
SnInRecvWindowMutant(next, sn) == Modulus(next, sn) <= WindowSize

\* sn_in_recv_window
SnInRecvWindow(next, sn) == Modulus(next, sn) < WindowSize

\* The condition under which t_reassembly runs from base (rx_next when a PDU
\* is received, rx_highest_status when the timer has expired).
ReassemblyGap(next, base, highest, list, done) ==
  \/ SnCompare(next, highest, SnAdd(base, 1)) > 0
  \/ /\ highest = SnAdd(base, 1)
     /\ SduHasMissingBytes(list, done, base)

\* Mutant: the timer is not stopped when rx_next reaches the trigger.
ReassemblyOverMutant(next, list, done) ==
  /\ ~SnInRecvWindow(next, rx_next_status_trigger)
  /\ rx_next_status_trigger # SnAdd(next, WindowSize)

\* The condition under which a reception stops a running t_reassembly.
ReassemblyOver(next, list, done) ==
  \/ rx_next_status_trigger = next
  \/ /\ rx_next_status_trigger = SnAdd(next, 1)
     /\ ~SduHasMissingBytes(list, done, next)
  \/ /\ ~SnInRecvWindow(next, rx_next_status_trigger)
     /\ rx_next_status_trigger # SnAdd(next, WindowSize)
-----------------------------------------------------------------------------
(* Reception of a data PDU                                                 *)

SizeOf(segments) == Total([s \in segments |-> s.size])

\* Mutant: the size of the SDU, which is less if segments overlap.
FreedMutant(segments) == Cardinality(UNION {Bytes(s) : s \in segments})

\* What reassemble_and_deliver takes off rx_size
Freed(segments) == SizeOf(segments)

\* What reassemble_and_deliver copies out: bytes, each with the SDU it is of.
Reassembled(segments) ==
  UNION {{<<s.data, b>> : b \in Bytes(s)} : s \in segments}

WholeSdu(d) == {d} \X (0 .. (SduSize[d] - 1))

\* reassemble_and_deliver: the deliver_sdu callback, as history.
DeliverSdu(segments) ==
  /\ delivered' = [d \in Sdu |-> IF Reassembled(segments) = WholeSdu(d)
                                   THEN delivered[d] + 1 ELSE delivered[d]]
  /\ garbled' = (garbled \/ \A d \in Sdu : Reassembled(segments) # WholeSdu(d))

NoDelivery == UNCHANGED <<delivered, garbled>>

\* t_reassembly at the end of reception_actions: stop it, then start it.
UpdateReassembly(next, highest, list, done) ==
  LET running == t_reassembly /\ ~ReassemblyOver(next, list, done)
      start   == ~running /\ ReassemblyGap(next, next, highest, list, done)
  IN  /\ t_reassembly' = (running \/ start)
      /\ rx_next_status_trigger' = IF start THEN highest
                                            ELSE rx_next_status_trigger

\* reception_actions, once s is in the list
ReceptionActions(s) ==
  LET x       == s.sn
      list    == rx_list \cup {s}
      full    == SduFull(list, x)
      done    == IF full THEN rx_delivered \cup {x} ELSE rx_delivered
      highest == IF SnCompare(rx_next, x, rx_next_highest) >= 0
                   THEN SnAdd(x, 1) ELSE rx_next_highest
      next    == IF full /\ x = rx_next THEN FirstUndelivered(x, done)
                                        ELSE rx_next
      passed  == {sn \in Sn : Modulus(rx_next, sn) < Modulus(rx_next, next)}
      list2   == {p \in list : p.sn \notin passed}
      done2   == done \ passed
  IN  /\ rx_next_highest' = highest
      /\ rx_highest_status' = IF full /\ x = rx_highest_status
                                THEN FirstUndelivered(x, done)
                                ELSE rx_highest_status
      /\ rx_next' = next
      /\ rx_count' = rx_count + Modulus(rx_next, next)
      /\ rx_list' = list2
      /\ rx_delivered' = done2
      /\ rx_size' = rx_size + s.size
                    - (IF full THEN Freed(SegmentsOf(list, x)) ELSE 0)
      /\ IF full THEN DeliverSdu(SegmentsOf(list, x)) ELSE NoDelivery
      /\ UpdateReassembly(next, highest, list2, done2)

\* The early exits of nr_rlc_entity_am_recv_pdu for a well-formed data PDU.
Discarded(s) == \/ rx_size + s.size > RxMaxSize
                \/ ~SnInRecvWindow(rx_next, s.sn)
                \/ SegmentAlreadyReceived(s)

\* nr_rlc_entity_am_recv_pdu: segment s, poll bit p.  The poll triggers a
\* status report whether or not the segment is kept.
RecvPdu(s, p) ==
  /\ IF Discarded(s) THEN UNCHANGED <<rx_state, rx_history>>
                     ELSE ReceptionActions(s)
  /\ status_triggered' = (status_triggered \/ p)
  /\ UNCHANGED t_status_prohibit

\* A PDU that does not decode, has a bad segment offset or carries no data.
RecvBadPdu(p) ==
  /\ status_triggered' = (status_triggered \/ p)
  /\ UNCHANGED <<rx_state, rx_history, t_status_prohibit>>

-----------------------------------------------------------------------------
(* Timers                                                                  *)

\* Mutant: rx_highest_status is not moved.
TReassemblyExpiresMutant ==
  /\ t_reassembly
  /\ t_reassembly' = FALSE /\ status_triggered' = TRUE
  /\ UNCHANGED <<rx_next, rx_next_highest, rx_highest_status,
                 rx_next_status_trigger, rx_list, rx_delivered, rx_size,
                 rx_history, t_status_prohibit>>

\* check_t_reassembly, when the timer has expired
TReassemblyExpires ==
  LET hs    == FirstUndelivered(rx_next_status_trigger, rx_delivered)
      again == ReassemblyGap(rx_next, hs, rx_next_highest, rx_list, rx_delivered)
  IN  /\ t_reassembly
      /\ rx_highest_status' = hs
      /\ status_triggered' = TRUE
      /\ t_reassembly' = again
      /\ rx_next_status_trigger' = IF again THEN rx_next_highest
                                            ELSE rx_next_status_trigger
      /\ UNCHANGED <<rx_next, rx_next_highest, rx_list, rx_delivered, rx_size,
                     rx_history, t_status_prohibit>>

\* t_status_prohibit is not checked by a timer function: status_to_report
\* compares the clock.
TStatusProhibitExpires ==
  /\ t_status_prohibit
  /\ t_status_prohibit' = FALSE
  /\ UNCHANGED <<rx_state, status_triggered, rx_history>>
-----------------------------------------------------------------------------
(* Status reporting                                                        *)

Nack(sn, from, to) == [sn |-> sn, so_start |-> from, so_end |-> to]

\* The end of an SDU of which the last segment is missing
TailGap(sn, top) == {Nack(sn, top + 1, ToEnd)}

\* The missing parts of one SDU, one entry per gap.
Gaps(sn) ==
  LET have == Received(rx_list, sn)
      top  == IF have = {} THEN -1 ELSE Max(have)
  IN  {Nack(sn, gap[1], gap[2]) : gap \in
         {g \in (0 .. top) \X (0 .. top) :
            /\ g[1] <= g[2] /\ (g[1] .. g[2]) \cap have = {}
            /\ g[1] = 0 \/ g[1] - 1 \in have
            /\ g[2] + 1 \in have}}
      \cup (IF \E s \in SegmentsOf(rx_list, sn) : s.is_last
              THEN {} ELSE TailGap(sn, top))

\* What next_missing finds when it is called until nothing is left: all that is
\* missing from rx_next up to rx_highest_status - 1, if anything was received at
\* all.  NextMissing below is the walk by which it does.
Missing ==
  IF rx_list = {} THEN {}
  ELSE UNION {Gaps(sn) : sn \in
         {sn \in Sn : Modulus(rx_next, sn) < Modulus(rx_next, rx_highest_status)}}

\* rx_list as nr_rlc_pdu_list_add sorts it.  Of two segments with the same start
\* the longer one came later, and is behind the other.
RxSequence ==
  LET before(s) ==
        {t \in rx_list :
           \/ SnCompare(rx_next, t.sn, s.sn) < 0
           \/ t.sn = s.sn /\ (t.so < s.so \/ (t.so = s.so /\ t.size < s.size))}
  IN  [i \in 1 .. Cardinality(rx_list) |->
         CHOOSE s \in rx_list : Cardinality(before(s)) = i - 1]

\* Mutant: last_reached is not cleared where a new SDU begins.
WalkMutant(list) ==
  LET at[i \in 1 .. Len(list)] ==
        LET s  == list[i]
            on == /\ i > 1 /\ list[i - 1].sn = s.sn
                  /\ at[i - 1].max_so >= s.so - 1
        IN  [on |-> on,
             max_so |-> Max({s.so + s.size - 1, IF on THEN at[i - 1].max_so ELSE 0}),
             last_reached |-> s.is_last \/ (i > 1 /\ at[i - 1].last_reached)]
  IN  at

\* next_pdu: for each segment whether it goes on where the one before has ended,
\* and the two local variables after it.
Walk(list) ==
  LET at[i \in 1 .. Len(list)] ==
        LET s  == list[i]
            on == /\ i > 1 /\ list[i - 1].sn = s.sn
                  /\ at[i - 1].max_so >= s.so - 1
        IN  [on |-> on,
             max_so |-> Max({s.so + s.size - 1, IF on THEN at[i - 1].max_so ELSE 0}),
             last_reached |-> s.is_last \/ (on /\ at[i - 1].last_reached)]
  IN  at

\* don't report if out of reporting window
Reportable(sn) == SnCompare(rx_next, rx_highest_status, sn) > 0

EndOfReport == <<SnAdd(rx_highest_status, SnModulus - 1), ToEnd>>

\* The end of a gap in front of segment s, which is of another SDU than the last
\* one received in front of it (set_end_different_sdu)
EndBefore(s) ==
  LET end == IF s.so = 0 THEN <<SnAdd(s.sn, SnModulus - 1), ToEnd>>
                         ELSE <<s.sn, s.so - 1>>
  IN  IF Reportable(end[1]) THEN end ELSE EndOfReport

\* next_missing, called until nothing is left: the ranges <<start, end>> it
\* returns, each end an SN and an offset.  Gap 0 is in front of the list
\* (check_head), gap i behind its element i.
NextMissing ==
  LET list == RxSequence
      last == Len(list)
      at   == Walk(list)
      gap(i) ==
        IF i = 0 THEN list[1].sn # rx_next \/ list[1].so # 0
        ELSE i < last => /\ ~at[i + 1].on
                         /\ ~ /\ list[i + 1].sn = SnAdd(list[i].sn, 1)
                              /\ at[i].last_reached /\ list[i + 1].so = 0
      start(i) ==
        IF i = 0 THEN <<rx_next, 0>>
        ELSE IF at[i].last_reached \/ (i = last /\ list[i].sn \in rx_delivered)
               THEN <<SnAdd(list[i].sn, 1), 0>>
               ELSE <<list[i].sn, at[i].max_so + 1>>
      end(i) ==
        IF i = last THEN EndOfReport
        ELSE IF i > 0 /\ list[i + 1].sn = list[i].sn
               THEN <<list[i].sn, list[i + 1].so - 1>>
               ELSE EndBefore(list[i + 1])
  IN  IF rx_list = {} THEN {}
      ELSE {<<start(i), end(i)>> :
              i \in {i \in 0 .. last : gap(i) /\ Reportable(start(i)[1])}}

\* The NACKs of a range, one for each SDU (generate_missing)
Expanded(from, to) ==
  {Nack(sn, IF sn = from[1] THEN from[2] ELSE 0, IF sn = to[1] THEN to[2] ELSE ToEnd) :
     sn \in {sn \in Sn : Modulus(from[1], sn) <= Modulus(from[1], to[1])}}

NackBefore(base, a, b) ==
  \/ SnCompare(base, a.sn, b.sn) < 0
  \/ a.sn = b.sn /\ a.so_start < b.so_start

\* a and the entry after it are reported by one NACK with a range
Joined(a, nacks) ==
  a.so_end = ToEnd /\ \E b \in nacks : b.sn = SnAdd(a.sn, 1) /\ b.so_start = 0

\* generate_missing stops at the first NACK for which there is no room: the
\* prefixes of Missing that end where a NACK ends.
Fitting ==
  LET missing == Missing
  IN  {{}} \cup {{b \in missing : ~NackBefore(rx_next, a, b)} :
                  a \in {a \in missing : ~Joined(a, missing)}}

LastOf(nacks) ==
  CHOOSE a \in nacks : \A b \in nacks : ~NackBefore(rx_next, a, b)

\* Mutant: the last NACK of a truncated report is left as it is.
StatusOfMutant(k) ==
  IF k = {} THEN [ack_sn |-> rx_next, nacks |-> {}]
  ELSE [ack_sn |-> SnAdd(LastOf(k).sn, 1), nacks |-> k]

\* generate_status: ack_sn is last_nack + 1; if the report is truncated the
\* last NACK is extended to the end of its SDU.
StatusOf(k) ==
  IF k = {} THEN [ack_sn |-> rx_next, nacks |-> {}]
  ELSE LET last == LastOf(k)
       IN  [ack_sn |-> SnAdd(last.sn, 1),
            nacks  |-> IF k = Missing THEN k
                       ELSE (k \ {last}) \cup {[last EXCEPT !.so_end = ToEnd]}]

\* status_to_report
StatusToReport == status_triggered /\ ~t_status_prohibit

\* generate_status for a transport block in which the NACKs of k fit
GenerateStatus(k) ==
  /\ StatusToReport
  /\ k \in Fitting
  /\ status_triggered' = FALSE
  /\ t_status_prohibit' = TRUE
  /\ UNCHANGED <<rx_state, rx_history>>

-----------------------------------------------------------------------------
(* Creation and re-establishment                                           *)

RxInit ==
  /\ rx_next = 0 /\ rx_next_highest = 0 /\ rx_highest_status = 0
  /\ rx_next_status_trigger = 0
  /\ t_reassembly = FALSE /\ status_triggered = FALSE
  /\ t_status_prohibit = FALSE
  /\ rx_list = {} /\ rx_delivered = {} /\ rx_size = 0
  /\ rx_count = 0
  /\ delivered = [d \in Sdu |-> 0] /\ garbled = FALSE

\* Mutant: what was received stays.
RxClearMutant ==
  /\ rx_next' = 0 /\ rx_next_highest' = 0 /\ rx_highest_status' = 0
  /\ rx_next_status_trigger' = 0
  /\ t_reassembly' = FALSE /\ status_triggered' = FALSE
  /\ t_status_prohibit' = FALSE
  /\ rx_delivered' = {} /\ rx_size' = 0
  /\ rx_count' = 0
  /\ UNCHANGED rx_list
  /\ NoDelivery

\* clear_entity, receiving side
RxClear ==
  /\ rx_next' = 0 /\ rx_next_highest' = 0 /\ rx_highest_status' = 0
  /\ rx_next_status_trigger' = 0
  /\ t_reassembly' = FALSE /\ status_triggered' = FALSE
  /\ t_status_prohibit' = FALSE
  /\ rx_list' = {} /\ rx_delivered' = {} /\ rx_size' = 0
  /\ rx_count' = 0
  /\ NoDelivery
=============================================================================
