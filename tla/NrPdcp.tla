------------------------------- MODULE NrPdcp --------------------------------
(***************************************************************************)
(* One direction of an NR PDCP bearer (nr_pdcp_entity.c): the transmitting *)
(* half of one entity, the receiving half of its peer, and the RLC bearer  *)
(* between them, of which only the service of RlcAmService is used.        *)
(*                                                                         *)
(* SDUs are numbered in the order they are handed to nr_pdcp_data_req; the *)
(* PDU made of an SDU is known to RLC by the same number.  Ciphering and   *)
(* integrity protection are modelled by what they need: the receiver has   *)
(* to find the COUNT the sender used.                                      *)
(*                                                                         *)
(* The two ends are re-established, or suspended and re-established, one   *)
(* after the other in either order, RLC with them: a PDU is received only  *)
(* by the incarnation of the receiver it was made for.                     *)
(***************************************************************************)
EXTENDS Integers, Sequences, FiniteSets, FiniteSetsExt

CONSTANTS Type,          \* NR_PDCP_DRB_AM, NR_PDCP_DRB_UM or NR_PDCP_SRB
          SnModulus,     \* 1 << sn_size
          CountModulus,  \* 2^32: COUNTs are uint32_t
          HasIntegrity,  \* has_integrity
          Finite,        \* t_reordering is not -1 ("infinity") at first
          N,             \* number of SDUs
          RlcWindow,     \* by how much a PDU may overtake another in RLC
          Lossy,         \* RLC may lose PDUs (RLC UM)
          Early,         \* PDUs may arrive before the first set_time
          MaxEpochs,     \* bound on the number of re-establishments
          Suspends,      \* the bearer may be suspended
          Releases,      \* the bearer may be released
          Reconfigures   \* t_reordering may be reconfigured

Window == SnModulus \div 2        \* window_size

ASSUME ConstantsAssumption ==
  /\ Type \in {"DRB_AM", "DRB_UM", "SRB"}
  /\ SnModulus \in Nat /\ SnModulus > 1 /\ SnModulus = 2 * Window
  /\ CountModulus \in Nat /\ CountModulus % SnModulus = 0
  /\ N \in Nat /\ N < CountModulus
  /\ RlcWindow \in 1..Window
  /\ MaxEpochs \in Nat
  /\ {HasIntegrity, Finite, Lossy, Early, Suspends, Releases, Reconfigures} \subseteq BOOLEAN

Sdu == 1..N

VARIABLES
  submitted,      \* SDUs given to nr_pdcp_data_req so far
  tx_next, tx_state, tx_epoch,
  pdu,            \* pdu[d]: the PDU made of SDU d
  accepted,       \* RLC: PDUs taken over since the last re-establishment
  rlc_delivered,  \* RLC: how often each PDU was delivered
  rx_next, rx_deliv, rx_reord,
  t_reordering,   \* t_reordering_start is not 0: the timer is running
  rx_list,        \* SDUs waiting, with their COUNTs
  finite,         \* t_reordering is not -1
  ticked,         \* t_current is not 0: set_time has been called
  rx_state, rx_epoch,
  delivered       \* SDUs given to the layer above; 0 stands for a garbled one

tx_vars  == <<submitted, tx_next, tx_state, tx_epoch, pdu>>
rlc_vars == <<accepted, rlc_delivered>>
rx_counts == <<rx_next, rx_deliv, rx_reord, t_reordering, rx_list, delivered>>
rx_vars  == <<rx_counts, finite, ticked, rx_state, rx_epoch>>
vars     == <<tx_vars, rlc_vars, rx_vars>>

\* The RLC bearer below.  PDCP makes no use of sdu_successful_delivery.
Rlc == INSTANCE RlcAmService
         WITH Sdu <- Sdu, accepted <- accepted, delivered <- rlc_delivered,
              confirmed <- [d \in Sdu |-> 0]

State == {"active", "suspended", "released"}

Init == /\ submitted = 0
        /\ tx_next = 0 /\ tx_state = "active" /\ tx_epoch = 0
        /\ pdu = [d \in Sdu |-> [sn |-> 0, count |-> 0, epoch |-> 0]]
        /\ Rlc!Init
        /\ rx_next = 0 /\ rx_deliv = 0 /\ rx_reord = 0
        /\ t_reordering = FALSE /\ rx_list = {} /\ delivered = <<>>
        /\ finite = Finite /\ ticked = FALSE
        /\ rx_state = "active" /\ rx_epoch = 0

-----------------------------------------------------------------------------
(* The transmitting entity                                                 *)

\* nr_pdcp_entity_process_sdu: COUNT tx_next, of which only the SN is sent.
ProcessSdu ==
  LET d == submitted + 1
  IN  /\ d \in Sdu
      /\ tx_state = "active"
      /\ submitted' = d
      /\ pdu' = [pdu EXCEPT ![d] = [sn |-> tx_next % SnModulus, count |-> tx_next,
                                    epoch |-> tx_epoch]]
      /\ tx_next' = (tx_next + 1) % CountModulus
      /\ Rlc!Accept(d)
      /\ UNCHANGED <<tx_state, tx_epoch, rx_vars>>

\* A suspended entity returns -1; nr_pdcp_data_req finds no released one.
RefuseSdu == /\ submitted + 1 \in Sdu
             /\ tx_state # "active"
             /\ submitted' = submitted + 1
             /\ UNCHANGED <<tx_next, tx_state, tx_epoch, pdu, rlc_vars, rx_vars>>

-----------------------------------------------------------------------------
(* The receiving entity                                                    *)

\* Mutant: an SN that has wrapped around is taken for an old one.
RcvdCountMutant(sn) ==
  LET deliv_sn  == rx_deliv % SnModulus
      deliv_hfn == rx_deliv \div SnModulus
      hfn == IF sn >= deliv_sn + Window THEN deliv_hfn - 1 ELSE deliv_hfn
  IN  (hfn * SnModulus + sn) % CountModulus

\* The COUNT the receiver takes for SN sn, in uint32_t arithmetic
RcvdCount(sn) ==
  LET deliv_sn  == rx_deliv % SnModulus
      deliv_hfn == rx_deliv \div SnModulus
      hfn == IF sn < deliv_sn - Window THEN deliv_hfn + 1
             ELSE IF sn >= deliv_sn + Window THEN deliv_hfn - 1
             ELSE deliv_hfn
  IN  (hfn * SnModulus + sn) % CountModulus

InList(list, count) == \E e \in list : e.count = count

\* Mutant: only one SDU is delivered.
RunEndMutant(list, count) == count + 1

\* The first COUNT from "count" on that is not in the list
RunEnd(list, count) == Min({c \in count..CountModulus : ~InList(list, c)})

\* deliver_sdu for each of them, in the order of the list.  What was deciphered
\* with a COUNT that is not the one it was ciphered with is garbled.
Delivery(entries) ==
  LET before(e) == {f \in entries : f.count < e.count \/ (f.count = e.count /\ f.sdu < e.sdu)}
      nth(i) == CHOOSE e \in entries : Cardinality(before(e)) = i - 1
      sdu(e) == IF e.count = pdu[e.sdu].count THEN e.sdu ELSE 0
  IN  delivered \o [i \in 1..Cardinality(entries) |-> sdu(nth(i))]

\* Mutant: a timer that was stopped is not started again.
StartTimerMutant(running, deliv, next) ==
  /\ t_reordering' = (running \/ (~t_reordering /\ deliv < next /\ ticked))
  /\ rx_reord' = IF ~running /\ deliv < next THEN next ELSE rx_reord

\* Start t_reordering if it is not running and something is missing.  A start
\* at time 0 leaves it off: t_reordering_start is 0 when it is not active.
StartTimer(running, deliv, next) ==
  /\ t_reordering' = (running \/ (deliv < next /\ ticked))
  /\ rx_reord' = IF ~running /\ deliv < next THEN next ELSE rx_reord

\* Mutant: SDUs that come too late are taken in.
DiscardedMutant(count, intact) ==
  \/ HasIntegrity /\ ~intact
  \/ InList(rx_list, count)

\* Integrity check failed, or received before: recv_pdu drops the PDU.
Discarded(count, intact) ==
  \/ HasIntegrity /\ ~intact
  \/ count < rx_deliv
  \/ InList(rx_list, count)

\* Mutant: a timer waiting for what has just been delivered goes on.
TakeInMutant(d, count) ==
  LET list  == rx_list \cup {[count |-> count, sdu |-> d]}
      next  == IF count >= rx_next THEN (count + 1) % CountModulus ELSE rx_next
      deliv == IF count = rx_deliv THEN RunEnd(list, count) ELSE rx_deliv
      out   == {e \in list : count = rx_deliv /\ e.count \in count..(deliv - 1)}
  IN  /\ rx_next' = next /\ rx_deliv' = deliv
      /\ rx_list' = list \ out /\ delivered' = Delivery(out)
      /\ StartTimer(t_reordering, deliv, next)

\* The rest of recv_pdu: put the SDU in the list, deliver what is in sequence.
TakeIn(d, count) ==
  LET list  == rx_list \cup {[count |-> count, sdu |-> d]}
      next  == IF count >= rx_next THEN (count + 1) % CountModulus ELSE rx_next
      deliv == IF count = rx_deliv THEN RunEnd(list, count) ELSE rx_deliv
      out   == {e \in list : count = rx_deliv /\ e.count \in count..(deliv - 1)}
  IN  /\ rx_next' = next /\ rx_deliv' = deliv
      /\ rx_list' = list \ out /\ delivered' = Delivery(out)
      /\ StartTimer(t_reordering /\ deliv < rx_reord, deliv, next)

\* nr_pdcp_entity_recv_pdu
RecvPdu(d) ==
  LET count  == RcvdCount(pdu[d].sn)
      intact == count = pdu[d].count
  IN  IF rx_state # "active" \/ Discarded(count, intact)
      THEN UNCHANGED rx_counts
      ELSE TakeIn(d, count)

\* check_t_reordering when the timer has expired
Expire ==
  LET deliv == RunEnd(rx_list, rx_reord)
      out   == {e \in rx_list : e.count < deliv}
  IN  /\ finite /\ t_reordering /\ rx_state # "released"
      /\ rx_deliv' = deliv
      /\ rx_list' = rx_list \ out /\ delivered' = Delivery(out)
      /\ StartTimer(FALSE, deliv, rx_next)
      /\ UNCHANGED <<rx_next, finite, ticked, rx_state, rx_epoch, tx_vars, rlc_vars>>

\* The timer thread calls set_time for the first time.
FirstTick == /\ ~ticked
             /\ ticked' = TRUE
             /\ UNCHANGED <<rx_counts, finite, rx_state, rx_epoch, tx_vars, rlc_vars>>

\* nr_pdcp_reconfigure_drb, nr_pdcp_reconfigure_srb
Reconfigure == /\ Reconfigures /\ rx_state # "released"
               /\ \E f \in BOOLEAN \ {finite} : finite' = f
               /\ UNCHANGED <<rx_counts, ticked, rx_state, rx_epoch, tx_vars, rlc_vars>>

-----------------------------------------------------------------------------
(* RLC                                                                     *)

UnderWay == {d \in accepted : rlc_delivered[d] = 0}

\* The RLC sender does not go beyond its window, which starts at the first PDU
\* not delivered yet; where PDUs get lost, fewer than a window are sent before
\* t_reordering expires.
InReach(d) ==
  /\ \A e \in UnderWay : d < e + RlcWindow
  /\ Lossy \/ MaxEpochs > 0 => pdu[d].count < rx_deliv + Window

RlcDeliver(d) == /\ pdu[d].epoch = rx_epoch
                 /\ Early \/ ticked
                 /\ InReach(d)
                 /\ Rlc!Deliver(d)
                 /\ RecvPdu(d)
                 /\ UNCHANGED <<tx_vars, finite, ticked, rx_state, rx_epoch>>

RlcLose(d) == Lossy /\ Rlc!Discard(d) /\ UNCHANGED <<tx_vars, rx_vars>>

-----------------------------------------------------------------------------
(* Suspension, re-establishment and release, one end at a time             *)

\* The transmitting half of suspend_entity
SuspendTx == /\ Suspends /\ tx_state = "active" /\ tx_epoch = rx_epoch /\ tx_epoch < MaxEpochs
             /\ tx_next' = 0 /\ tx_state' = "suspended"
             /\ UNCHANGED <<submitted, tx_epoch, pdu, rlc_vars, rx_vars>>

\* Mutant: the timer is stopped before it is looked at.
FlushMutant == t_reordering' = FALSE /\ UNCHANGED <<rx_list, delivered>>

\* Deliver everything in the list if t_reordering is running, and stop it.
Flush ==
  /\ rx_list' = (IF t_reordering THEN {} ELSE rx_list)
  /\ delivered' = (IF t_reordering THEN Delivery(rx_list) ELSE delivered)
  /\ t_reordering' = FALSE

\* The receiving half of suspend_entity
SuspendRx == /\ Suspends /\ rx_state = "active" /\ tx_epoch = rx_epoch /\ rx_epoch < MaxEpochs
             /\ Flush
             /\ rx_next' = 0 /\ rx_deliv' = 0
             /\ rx_state' = "suspended"
             /\ UNCHANGED <<rx_reord, finite, ticked, rx_epoch, tx_vars, rlc_vars>>

\* RRC re-establishes the other end too, and suspends both ends or none.
MayReestablish(epoch, peer) ==
  /\ "released" \notin {tx_state, rx_state}
  /\ epoch < MaxEpochs
  /\ epoch < peer \/ (epoch = peer /\ tx_state = rx_state)

\* reestablish_entity, the transmitting half of the variant for each type
ReestablishTx ==
  /\ MayReestablish(tx_epoch, rx_epoch)
  /\ tx_next' = (IF Type = "DRB_AM" THEN tx_next ELSE 0)
  /\ tx_state' = "active" /\ tx_epoch' = tx_epoch + 1
  /\ Rlc!Reset
  /\ UNCHANGED <<submitted, pdu, rx_vars>>

\* The receiving half: nothing for DRB_AM, flushed for DRB_UM, freed for SRB
ResetRx ==
  \/ Type = "DRB_AM" /\ UNCHANGED rx_counts
  \/ /\ Type = "DRB_UM"
     /\ Flush
     /\ rx_next' = 0 /\ rx_deliv' = 0 /\ UNCHANGED rx_reord
  \/ /\ Type = "SRB"
     /\ rx_list' = {} /\ t_reordering' = FALSE
     /\ rx_next' = 0 /\ rx_deliv' = 0 /\ UNCHANGED <<rx_reord, delivered>>

ReestablishRx ==
  /\ MayReestablish(rx_epoch, tx_epoch)
  /\ ResetRx
  /\ rx_state' = "active" /\ rx_epoch' = rx_epoch + 1
  /\ IF tx_epoch = rx_epoch THEN Rlc!Reset ELSE UNCHANGED rlc_vars
  /\ UNCHANGED <<finite, ticked, tx_vars>>

\* nr_pdcp_release_drb, nr_pdcp_release_srb
ReleaseTx == /\ Releases /\ tx_state # "released"
             /\ tx_state' = "released"
             /\ UNCHANGED <<submitted, tx_next, tx_epoch, pdu, rlc_vars, rx_vars>>

ReleaseRx == /\ Releases /\ rx_state # "released"
             /\ delivered' = (IF Type = "SRB" THEN delivered ELSE Delivery(rx_list))
             /\ rx_list' = {} /\ rx_state' = "released"
             /\ UNCHANGED <<rx_next, rx_deliv, rx_reord, t_reordering, finite, ticked,
                            rx_epoch, tx_vars, rlc_vars>>

-----------------------------------------------------------------------------

Next == \/ ProcessSdu \/ RefuseSdu
        \/ \E d \in Sdu : RlcDeliver(d) \/ RlcLose(d)
        \/ Expire \/ FirstTick \/ Reconfigure
        \/ SuspendTx \/ SuspendRx \/ ReestablishTx \/ ReestablishRx
        \/ ReleaseTx \/ ReleaseRx

Spec == Init /\ [][Next]_vars

\* The timer thread calls set_time every millisecond.
FairSpec == Spec /\ WF_vars(FirstTick) /\ WF_vars(Expire)

-----------------------------------------------------------------------------
(* Properties                                                              *)

Count == 0..(CountModulus - 1)

\* Types, and the uint32_t range of the COUNTs.
TypeOK ==
  /\ submitted \in 0..N
  /\ {tx_next, rx_next, rx_deliv, rx_reord} \subseteq Count
  /\ {tx_state, rx_state} \subseteq State
  /\ {tx_epoch, rx_epoch} \subseteq 0..MaxEpochs
  /\ pdu \in [Sdu -> [sn : 0..(SnModulus - 1), count : Count, epoch : 0..MaxEpochs]]
  /\ accepted \subseteq Sdu /\ rlc_delivered \in [Sdu -> {0, 1}]
  /\ {t_reordering, finite, ticked} \subseteq BOOLEAN
  /\ rx_list \subseteq [count : Count, sdu : Sdu]
  /\ delivered \in Seq(Sdu \cup {0})

\* rx_deliv, rx_reord and rx_next stay in order, and what is in rx_list lies
\* strictly between rx_deliv and rx_next, once per COUNT: recv_pdu,
\* check_t_reordering and the resets agree on what the markers mean.
RxOrder ==
  /\ rx_deliv <= rx_next
  /\ t_reordering => rx_deliv < rx_reord /\ rx_reord <= rx_next
  /\ \A e \in rx_list : rx_deliv < e.count /\ e.count < rx_next
  /\ \A e, f \in rx_list : e.count = f.count => e = f

\* "timers (stores the ms of activation, 0 means not active)" (nr_pdcp_entity.h):
\* as long as SDUs are held back, t_reordering is active.  Suspension and the
\* re-establishment of a DRB_UM rely on it: they leave rx_list alone otherwise.
HeldIsTimed == rx_list # {} => t_reordering

\* The receiver finds the COUNT of every PDU: across SN wrap-arounds, late
\* PDUs and resets, no SDU is deciphered with a wrong one, and none is dropped
\* because its integrity check was done with a wrong one.
NotGarbled ==
  /\ \A e \in rx_list : e.count = pdu[e.sdu].count
  /\ rx_state = "active" =>
       \A d \in UnderWay : pdu[d].epoch = rx_epoch /\ InReach(d)
                             => RcvdCount(pdu[d].sn) = pdu[d].count

\* With RLC AM below and no re-establishment, the window of RLC is enough:
\* PDCP never gets a COUNT a window or more above rx_deliv.
RlcKeepsWindow ==
  ~Lossy /\ MaxEpochs = 0 /\ rx_state = "active" =>
    \A d \in UnderWay : InReach(d) => pdu[d].count < rx_deliv + Window

Service == INSTANCE PdcpService
             WITH submitted <- submitted, delivered <- delivered

\* The two entities implement the service PDCP promises, whatever RLC loses and
\* however the ends are suspended, re-established and released: SDUs come out in
\* order, at most once, and none garbled.
ImplementsService == Service!Spec

\* A suspended receiver has nothing left of the time before.
SuspendedIsClean == rx_state = "suspended" => rx_list = {} /\ ~t_reordering

\* "t_reordering; unit: ms, -1 for infinity", "t_current: set to the latest
\* know time by the user of the module" (nr_pdcp_entity.h): with a finite
\* t_reordering no SDU is held back for ever, and once no more come the list is
\* empty.
HeldReleased == []<>(rx_list = {} \/ ~finite)
=============================================================================
