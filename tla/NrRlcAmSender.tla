--------------------------- MODULE NrRlcAmSender ----------------------------
(***************************************************************************)
(* The transmitting side of NrRlcAmTx closed with PDCP, which hands over   *)
(* SDUs and may discard them, with MAC, which offers transport blocks of   *)
(* any of the sizes Grants, and with a peer whose STATUS PDUs are          *)
(* arbitrary: a sender must keep its lists and counters right whatever it  *)
(* is told.                                                                *)
(***************************************************************************)
EXTENDS NrRlcAmTx

CONSTANTS Grants,      \* sizes of transport blocks
          MaxNacks,    \* bound: NACK entries in a STATUS PDU
          MaxClears,   \* bound: number of re-establishments
          StrictPeer   \* the peer follows 38.322 5.3.4: WellFormed statuses

VARIABLES submitted,   \* number of SDUs PDCP has handed over
          clears

vars == <<tx_vars, submitted, clears>>

ASSUME SenderAssumption == /\ IsFiniteSet(Sdu)
                           /\ Sdu = 0 .. (Cardinality(Sdu) - 1)
                           /\ Grants \subseteq Nat
                           /\ {MaxNacks, MaxClears} \subseteq Nat
                           /\ StrictPeer \in BOOLEAN

Offsets == 0 .. (Max({SduSize[d] : d \in Sdu}) - 1)

Nacks == {n \in [sn : Sn, so_start : Offsets, so_end : Offsets \cup {ToEnd}] :
            n.so_end = ToEnd \/ n.so_start <= n.so_end}

Statuses == [ack_sn : Sn, nacks : UNION {[1 .. k -> Nacks] : k \in 0 .. MaxNacks}]

\* NACK a lies before NACK b and does not reach it.
Increasing(a, b) ==
  LET c == SnCompare(tx_next_ack, a.sn, b.sn)
  IN  c < 0 \/ (c = 0 /\ a.so_end # ToEnd /\ a.so_end < b.so_start)

WellFormed(st) ==
  /\ \A k \in DOMAIN st.nacks :
       st.nacks[k].sn # st.ack_sn
  /\ \A k \in 1 .. (Len(st.nacks) - 1) : Increasing(st.nacks[k], st.nacks[k + 1])

Init == TxInit /\ submitted = 0 /\ clears = 0

Submit == /\ submitted \in Sdu
          /\ RecvSdu(submitted)
          /\ submitted' = submitted + 1
          /\ UNCHANGED clears

\* nr_rlc_entity_am_generate_pdu, when no status report is due
Generate == /\ \E size \in Grants : \/ GenerateRetxPdu(size)
                                    \/ ~RetxFits(size) /\ GenerateTxPdu(size)
            /\ UNCHANGED <<submitted, clears>>

ReceiveStatus == /\ \E st \in Statuses : /\ StrictPeer => WellFormed(st)
                                         /\ ProcessControlPdu(st)
                 /\ UNCHANGED <<submitted, clears>>

Expire == TPollRetransmitExpires /\ UNCHANGED <<submitted, clears>>

Discard == \E d \in Sdu : DiscardSdu(d) /\ UNCHANGED <<submitted, clears>>

Reestablish == /\ clears < MaxClears
               /\ TxClear
               /\ clears' = clears + 1
               /\ UNCHANGED submitted

Next == /\ ~crashed
        /\ Submit \/ Generate \/ ReceiveStatus \/ Expire \/ Discard \/ Reestablish

Spec == Init /\ [][Next]_vars

-----------------------------------------------------------------------------
(* Properties                                                              *)

Queued == Range(tx_list)

Sent == wait_list \cup retransmit_list

\* No segment is lost or doubled by resegmentation, NACKs, acknowledgements
\* and timers: the segments of an SDU that are held are disjoint, and there
\* are as many as its reference count says are not yet freed.
SegmentsAccounted ==
  \A d \in Sdu :
    LET held == OfSdu(Queued \cup Sent, d)
    IN  /\ Cardinality(held) = ref_count[d] - free_count[d]
        /\ \A s, t \in held : s # t => s.so + s.size <= t.so \/ t.so + t.size <= s.so
        /\ wait_list \cap retransmit_list = {}

\* What nr_rlc_entity_am_buffer_status tells the MAC scheduler is what the two
\* lists need, so that neither data without grants nor grants without data
\* can last.
BufferStatusExact ==
  /\ bstatus_tx = TotalPduSize(Queued)
  /\ bstatus_retx = TotalPduSize(retransmit_list)

\* tx_size is the size of the SDUs held, so that a full buffer accepts SDUs
\* again once some are acknowledged or discarded.
TxSizeExact ==
  LET held == {d \in Sdu : ref_count[d] > 0}
  IN  tx_size = Total([d \in held |-> SduSize[d]])

\* Whatever is reported, repeated and out of date or not, PDCP is told of the
\* delivery of an SDU at most once (sdu_successful_delivery), and not while a
\* segment of it is still to be sent or acknowledged.
ConfirmedOnce ==
  \A d \in Sdu : /\ confirmed[d] <= 1
                 /\ confirmed[d] = 1 => OfSdu(Queued \cup Sent, d) = {}

\* "discard the whole control PDU if NACKs are bad (not <= ack_sn, not in
\* increasing order)" (process_control_pdu)
UnorderedNacksDiscarded ==
  \A st \in Statuses :
    ControlPduValid(st) =>
      \A k \in 1 .. (Len(st.nacks) - 1) :
        SnCompare(tx_next_ack, st.nacks[k].sn, st.nacks[k + 1].sn) <= 0
=============================================================================
