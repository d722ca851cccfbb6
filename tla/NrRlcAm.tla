------------------------------ MODULE NrRlcAm -------------------------------
(***************************************************************************)
(* One direction of an RLC AM bearer: the transmitting side of one entity, *)
(* the receiving side of its peer, data PDUs one way and STATUS PDUs the   *)
(* other.  MAC and the radio may lose, duplicate, delay and reorder PDUs.  *)
(***************************************************************************)
EXTENDS NrRlcAmTx, NrRlcAmRx, SequencesExt

CONSTANTS Grants,        \* sizes of transport blocks for data
          MaxData,       \* bound: data PDUs under way
          MaxStatus,     \* bound: STATUS PDUs under way
          MaxPdus,       \* bound: PDUs of both kinds under way
          MaxClears,     \* bound: number of re-establishments
          Duplicates,    \* PDUs may be received more than once
          Truncates,     \* transport blocks may be too small for all NACKs
          Discards       \* PDCP may discard SDUs

VARIABLES data_channel,    \* data PDUs under way
          status_channel,  \* STATUS PDUs under way
          accepted,        \* SDUs taken and not discarded, since the last clear
          submitted,       \* number of SDUs PDCP has handed over
          tx_count,        \* history: SDUs given a SN since the last clear
          clears           \* history: number of re-establishments

channels == <<data_channel, status_channel>>
vars == <<tx_vars, rx_vars, channels, accepted, submitted, tx_count, clears>>

ASSUME BearerAssumption == /\ Sdu = 0 .. (Cardinality(Sdu) - 1)
                           /\ Grants \subseteq Nat
                           /\ {MaxData, MaxStatus, MaxPdus, MaxClears} \subseteq Nat
                           /\ {Duplicates, Truncates, Discards} \subseteq BOOLEAN

Init == /\ TxInit /\ RxInit
        /\ data_channel = {} /\ status_channel = {}
        /\ accepted = {} /\ submitted = 0 /\ tx_count = 0 /\ clears = 0

UnderWay == Cardinality(data_channel) + Cardinality(status_channel)

Submit ==
  /\ submitted \in Sdu
  /\ accepted' = IF TxFull(submitted) THEN accepted ELSE accepted \cup {submitted}
  /\ RecvSdu(submitted)
  /\ submitted' = submitted + 1
  /\ UNCHANGED <<rx_vars, channels, tx_count, clears>>

Discard ==
  /\ Discards
  /\ \E d \in Sdu : DiscardSdu(d) /\ accepted' = accepted \ {d}
  /\ UNCHANGED <<rx_vars, channels, submitted, tx_count, clears>>

\* A data PDU as the peer decodes it; n is the position of its SDU in the
\* sequence of SDUs sent since the last clear.
DataPdu(pdu) ==
  LET s == pdu.segment
  IN  [segment |-> [data |-> s.sdu, sn |-> pdu.sn, so |-> s.so, size |-> s.size,
                    is_last |-> s.so + s.size = SduSize[s.sdu]],
       poll |-> pdu.poll, n |-> tx_count' - Modulus(pdu.sn, tx_next')]

Send(pdu) ==
  /\ Cardinality(data_channel) < MaxData /\ UnderWay < MaxPdus
  /\ tx_count' = tx_count + Modulus(tx_next, tx_next')
  /\ data_channel' = data_channel \cup {DataPdu(pdu)}

\* nr_rlc_entity_am_generate_pdu at the sender, which has no status to report
Generate(size) ==
  /\ \/ GenerateRetxPdu(size) /\ Send(RetxPdu(size))
     \/ ~RetxFits(size) /\ GenerateTxPdu(size) /\ Send(TxPdu(size))
  /\ UNCHANGED <<rx_vars, status_channel, accepted, submitted, clears>>

\* A PDU is taken from its channel, or stays there to be received again.
Taken(channel, pdu) == IF Duplicates THEN {channel, channel \ {pdu}}
                                     ELSE {channel \ {pdu}}

\* A data PDU is not delayed for longer than a window of SDUs.
ReceiveData(pdu) ==
  /\ pdu \in data_channel
  /\ pdu.n >= rx_count - WindowSize
  /\ RecvPdu(pdu.segment, pdu.poll)
  /\ data_channel' \in Taken(data_channel, pdu)
  /\ UNCHANGED <<tx_vars, status_channel, accepted, submitted, tx_count, clears>>

\* nr_rlc_entity_am_generate_pdu at the receiver: a status is due
Report(k) ==
  /\ k = Missing \/ Truncates
  /\ Cardinality(status_channel) < MaxStatus /\ UnderWay < MaxPdus
  /\ GenerateStatus(k)
  /\ LET st == StatusOf(k)
     IN  status_channel' = status_channel \cup
           {[ack_sn |-> st.ack_sn,
             nacks  |-> SetToSortSeq(st.nacks, LAMBDA a, b : NackBefore(rx_next, a, b)),
             n      |-> rx_count + Modulus(rx_next, st.ack_sn)]}
  /\ UNCHANGED <<tx_vars, data_channel, accepted, submitted, tx_count, clears>>

\* A STATUS PDU is not delayed until its ack_sn means a later SDU.
ReceiveStatus(st) ==
  /\ st \in status_channel
  /\ st.n > tx_count - Modulus(tx_next_ack, tx_next) - WindowSize
  /\ ProcessControlPdu(st)
  /\ status_channel' \in Taken(status_channel, st)
  /\ UNCHANGED <<rx_vars, data_channel, accepted, submitted, tx_count, clears>>

Lose ==
  /\ \/ \E pdu \in data_channel : /\ data_channel' = data_channel \ {pdu}
                                  /\ UNCHANGED status_channel
     \/ \E st \in status_channel : /\ status_channel' = status_channel \ {st}
                                   /\ UNCHANGED data_channel
  /\ UNCHANGED <<tx_vars, rx_vars, accepted, submitted, tx_count, clears>>

SenderTimer ==
  /\ TPollRetransmitExpires
  /\ UNCHANGED <<rx_vars, channels, accepted, submitted, tx_count, clears>>

ReassemblyTimer ==
  /\ TReassemblyExpires
  /\ UNCHANGED <<tx_vars, channels, accepted, submitted, tx_count, clears>>

ProhibitTimer ==
  /\ TStatusProhibitExpires
  /\ UNCHANGED <<tx_vars, channels, accepted, submitted, tx_count, clears>>

\* nr_rlc_entity_am_reestablishment at both ends, with the MAC reset that goes
\* with it.
Reestablish ==
  /\ clears < MaxClears
  /\ TxClear /\ RxClear
  /\ data_channel' = {} /\ status_channel' = {}
  /\ accepted' = {} /\ tx_count' = 0
  /\ clears' = clears + 1
  /\ UNCHANGED submitted

Next ==
  /\ ~crashed
  /\ \/ Submit \/ Discard \/ Lose \/ Reestablish
     \/ \E size \in Grants : Generate(size)
     \/ \E pdu \in data_channel : ReceiveData(pdu)
     \/ \E k \in Fitting : Report(k)
     \/ \E st \in status_channel : ReceiveStatus(st)
     \/ SenderTimer \/ ReassemblyTimer \/ ProhibitTimer

Spec == Init /\ [][Next]_vars

\* The MAC scheduler serves a bearer that reports data, timers are checked at
\* every slot, and a PDU that is sent again and again gets through.
Fairness ==
  /\ WF_vars(~crashed /\ \E size \in Grants : Generate(size))
  /\ WF_vars(~crashed /\ Report(Missing))
  /\ WF_vars(~crashed /\ SenderTimer)
  /\ WF_vars(~crashed /\ ReassemblyTimer)
  /\ WF_vars(~crashed /\ ProhibitTimer)
  /\ \A d \in Sdu : SF_vars(/\ ~crashed
                            /\ \E pdu \in data_channel : /\ pdu.segment.data = d
                                                         /\ ReceiveData(pdu))
  /\ SF_vars(~crashed /\ \E st \in status_channel : ReceiveStatus(st))

FairSpec == Spec /\ Fairness

-----------------------------------------------------------------------------
(* Properties                                                              *)

\* The SDUs below tx_next_ack, counted since the last clear
AckCount == tx_count - Modulus(tx_next_ack, tx_next)

Service == INSTANCE RlcAmService

\* The two entities and the channel implement the service RLC AM promises to
\* PDCP: at most one delivery of each SDU, and sdu_successful_delivery only
\* for what was delivered.
ImplementsService == Service!Spec

\* Only whole SDUs are delivered, each from its own bytes.
NotGarbled == ~garbled

\* The sender never counts as acknowledged what the receiver has not got, and
\* never sends beyond the receiver's window: what reception drops as out of
\* the window is old.
WindowsInStep ==
  /\ AckCount <= rx_count
  /\ tx_count <= rx_count + WindowSize
  /\ \A pdu \in data_channel : pdu.n < rx_count + WindowSize

\* As long as an SDU is not acknowledged, t_poll_retransmit is running, or
\* there is a PDU to send, or the next PDU there is will carry a poll.
NotStranded ==
  wait_list # {} => \/ t_poll_retransmit \/ force_poll
                    \/ retransmit_list # {} \/ tx_list # <<>>

\* Every SDU that is accepted is in the end acknowledged, unless the wait list
\* was empty when t_poll_retransmit expired, or the poll that its expiry forces
\* waits for a PDU that only a new SDU will bring.
EventuallyConfirmed ==
  \A d \in Sdu :
    d \in accepted ~> (\/ confirmed[d] = 1 \/ crashed
                      \/ /\ force_poll
                         /\ tx_list = <<>> /\ retransmit_list = {})

\* "set TX_Next_Ack equal to the SN of the RLC SDU with the smallest SN [...]
\* for which a positive acknowledgment has not been received yet"
\* (process_control_pdu): no SDU in hand lies below tx_next_ack.
NextAckIsOldest ==
  \A d \in Sdu : sdu_sn[d] # -1 =>
    Modulus(tx_next_ack, sdu_sn[d]) < Modulus(tx_next_ack, tx_next)

\* "It seems that no, the wait list should not be empty here"
\* (check_t_poll_retransmit)
WaitListNotEmpty == ~crashed
=============================================================================
