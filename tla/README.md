# A TLA+ model of the NR user plane of OpenAirInterface

OpenAirInterface is a 4G/5G radio access network in C: a base station (gNB,
split or not into CU-CP, CU-UP and DU), a terminal (UE), and the libraries
they share.  This directory holds TLA+ specifications of parts of it, the TLC
configurations that check them on small instances, and proofs checked by TLAPS.
What is modelled is layer 2 of the 5G user plane above MAC: RLC in acknowledged
and unacknowledged mode, PDCP, SDAP, the threads, locks and queues these run
on, and the thread pool that the physical layer hands its work to.

Paths below are relative to `src/`.  `AM` and `UM` stand for
`openair2/LAYER2/nr_rlc/nr_rlc_entity_am.c` and `..._um.c`, `PDCP` for
`openair2/LAYER2/nr_pdcp/nr_pdcp_entity.c`, `API` for `nr_pdcp_oai_api.c` beside
it, `SDAP` for `openair2/SDAP/nr_sdap/nr_sdap_entity.c`.

## 1. Inventory

### The parts of the system and how they interact

Downlink data comes from the core network through GTP-U, gets a QoS flow
header in SDAP, a COUNT, ciphering and integrity protection in PDCP, is
numbered, cut and retransmitted by RLC, and is multiplexed by MAC into
transport blocks that PHY puts on the air.  The peer undoes it in reverse.
RRC configures all of these and talks NGAP to the core, F1AP to DUs and E1AP
to CU-UPs.  Threads exchange messages through ITTI; heavy work goes to a
thread pool, to actors and, in the UE, through a ring of slots with dynamic
barriers.

| Part | State | Operations | What is hard |
| --- | --- | --- | --- |
| RLC AM | two windows modulo 2^12 or 2^18, three segment lists on one side, one on the other, three timers, poll counters, buffer counters | recv_sdu, recv_pdu, generate_pdu, buffer_status, set_time, discard_sdu, reestablishment, reconfigure, delete | loss, duplication and reordering; timers racing late reports; segments cut again and again; reports cut short by small transport blocks; counters kept in many places |
| RLC UM | one window, one list per side, one timer | the same without reports | what is given up at expiry must leave list, window and counters consistent, also at wrap-around |
| RLC TM | a queue | recv_sdu, generate_pdu | nothing |
| PDCP entity | tx_next, rx_next, rx_deliv, rx_reord, list of SDUs, t_reordering | recv_pdu, process_sdu, set_time, suspend, re-establishment per type of bearer, release | reconstruction of COUNT from SN; reset of counters with SDUs still held; the two ends reset one after the other |
| PDCP and RLC managers | UEs and bearers under one mutex per layer, two queues with a thread each, a timer thread | data path, RRC requests | locks held while waiting for room in a queue; order between an unlock and the hand-over that follows it |
| SDAP | QoS flow to bearer table, default bearer | tx and rx entities, configuration, release | a table without a lock that three threads write |
| Thread pool, task answers | a growing ring, mutex and condition variable per worker; counter and semaphore per answer | push, work stealing, join, abort | lost wake-ups, tasks lost or run twice when stolen or when a ring grows, shutdown |
| MAC gNB | HARQ process lists, UE list, RA processes, feedback queues | slot indication, UL and DL handlers | feedback that comes late, never, or for a process already reused |
| MAC UE | RA state, HARQ, timers | DCI and RAR handlers | window timers against messages |
| RRC, F1AP, E1AP, NGAP | UE contexts, transactions, associations | message handlers | loss of an association in the middle of a procedure; handover against release |
| ITTI, actors, dynamic barrier | queues, mutexes, condition variables | push, pull, join, update | use after shutdown, callbacks under locks |
| PHY, radio, nFAPI, SCTP, GTP-U, executables, LTE stack | - | - | numeric code, I/O, start-up |

`PROJECT.json` lists all components with their files, and the hazards, each at
its line.

### What should be true

*RLC AM* is there so that every SDU that PDCP hands over arrives, once, unless
it is discarded or the bearer is re-established, and so that the sending PDCP
learns of it.  For that (a) receive and transmit window may never drift apart,
(b) a report may never acknowledge what is missing, (c) no segment may be lost
or doubled between the three lists of the sender, (d) every gap must in the
end be reported, and every SDU in the end be polled for, and (e) the counters
that control admission and scheduling must be exact, since a drift is never
corrected.  *RLC UM* delivers an SDU at most once, never one put together from
parts of several, and never one it has given up; no gap lasts.  *PDCP* delivers
in order and at most once whatever RLC reorders or loses and however the bearer
is suspended and re-established, and holds nothing back for ever; its receiver
must find the 32-bit COUNT of each PDU from a few bits of it.  *SDAP* sends a
flow only to bearers that are there, and announces a move on the bearer the flow
leaves.  *Queues and threads* lose nothing, keep the order, and stop only when
there is nothing left to do; *the pool* runs each task once, and a caller gets its
answer after the last of its tasks.  Sections 4 and 6 say which of these are
checked and proved, section 5 where the code differs.

## 2. Plan

Done: RLC AM with its service; RLC UM with its service; PDCP over RLC with its
service; the queues, their threads and the locks of PDCP and RLC, composed;
SDAP; the thread pool; proofs of every safety property of these components but
those of the AM bearer as a whole (section 6).  Next, in this order:

1. `DynamicBarrier` and the UE's ring of slots; actors; ITTI.
2. MAC: HARQ process life cycle of gNB and UE with late feedback; random access
   as a composition of both sides.
3. Control plane: UE context life cycle across RRC, F1AP and E1AP, with loss of
   an association.
4. Proofs: the AM bearer with SDUs that are sent whole, to which finding 1 of
   section 5 does not apply.


## 3. The modules

| Module | Contents |
| --- | --- |
| `NrRlcCommon` | SDUs, sequence numbers, `modulus_rx/tx`, `sn_compare_rx/tx`, sums |
| `NrRlcAmRx` | receiving side of an AM entity: state and operations |
| `NrRlcAmReceiver` | that side with the most general peer; its properties |
| `NrRlcAmTx` | transmitting side of an AM entity: state and operations |
| `NrRlcAmSender` | that side with PDCP, MAC and a peer that reports anything; its properties |
| `NrRlcAm` | one direction of a bearer: `NrRlcAmTx`, channel, `NrRlcAmRx` |
| `RlcAmService` | what an AM bearer promises to PDCP |
| `NrRlcUm` | one direction of a UM bearer: both entities and the channel |
| `UmService` | what a UM bearer promises to PDCP |
| `NrPdcp` | one direction of a PDCP bearer: both entities over RLC's service |
| `PdcpService` | what PDCP promises to the layer above |
| `DataQueue` | `rlc_data_req_queue` and `pdcp_data_ind_queue`, with their thread |
| `BoundedFifo` | what such a queue promises |
| `NrPdcpRlcThreads` | the threads of PDCP and RLC, both locks, two instances of `DataQueue` |
| `NrSdap` | the SDAP entity of a PDU session with the threads that use it |
| `ThreadPool` | the pool, its workers, queues and answers |
| `NrRlcSnTheorems` | lemmas about sequence numbers, least numbers and sums |
| `NrRlcAmReceiverProofs`, `NrRlcAmSenderProofs`, `NrRlcUmProofs`, `NrPdcpProofs`, `NrPdcpRlcThreadsProofs`, `NrSdapProofs`, `ThreadPoolProofs` | theorems about the module of that name; `NrPdcpProofs` also those about `DataQueue` |
| `MC*` | constants for TLC; `MCNrPdcp` has five kinds of bearer in one state space |

### Atomicity

All calls into the entities of a UE go through `nr_rlc_oai_api.c` and
`nr_pdcp_oai_api.c`, under the mutex of the layer's UE manager.  One operation is
therefore one action of the entity modules; interleaving is that of calls from
above, from below and from the clock, and of the two ends of a bearer.  What
happens between the layers, where no lock is held or two are, is the subject of
`NrPdcpRlcThreads`; there, and in `NrSdap` and `ThreadPool`, a step ends wherever
another thread can see the state.

### RLC AM, receiving side (`NrRlcAmRx`)

Variables have the names of the fields of `nr_rlc_entity_am_t`.  `rx_list` is a
set of segments: the code sorts it, and asks of it only which bytes of which SN
are there.  In the code an SDU that is delivered while an earlier one is missing
stays in the list with its data pointers set to NULL; here its SN is in
`rx_delivered`.  `RecvPdu` is `nr_rlc_entity_am_recv_pdu` for a data PDU with
`reception_actions`, `reassemble_and_deliver` and the update of t_reassembly
within it; `RecvBadPdu` is the same call for a PDU that is rejected for its
form; `TReassemblyExpires` is `check_t_reassembly`; `GenerateStatus` is
`generate_status`, with `Missing` for what its calls of `next_missing` find
(`NextMissing` is the walk itself, section 4) and `Fitting` for the ways
`generate_missing` can run out of room; `RxClear` is the receiving half of
`clear_entity`.  `delivered`, `garbled` and `rx_count` are history: calls of
`deliver_sdu` by SDU, whether anything else than the bytes of one whole SDU was
delivered, and how far `rx_next` has come without wrap-around.

### RLC AM, transmitting side (`NrRlcAmTx`)

`tx_list` is a sequence, `wait_list` and `retransmit_list` are sets with the
order `TxBefore` that the code sorts them by.  The fields of `nr_rlc_sdu_t`
(`sn`, `ref_count`, `free_count`, `retx_count`) are functions on SDUs.
`RecvSdu`, `GenerateTxPdu`, `GenerateRetxPdu`, `ProcessControlPdu`,
`TPollRetransmitExpires`, `DiscardSdu` and `TxClear` are the functions of these
names.  `Outcome` is the walk of `process_control_pdu` over both lists and the
NACKs at once; it keeps the way the code loses the tail of the retransmit list
(section 5).  History: `confirmed` counts calls of `sdu_successful_delivery`,
`rlf` says that `max_retx_reached` was called, `crashed` that an empty wait list
was dereferenced, after which nothing happens any more.

### RLC AM, bearer (`NrRlcAm`) and service (`RlcAmService`)

A sender and a receiver with a channel each way.  PDUs are lost, duplicated,
and overtake each other.  They are not delayed for longer than a window of
SDUs: MAC gives up on a HARQ process long before 2048 SDUs have passed, and no
sequence-number protocol survives older PDUs.  Re-establishment happens at
both ends at once and empties the channel.  This is an assumption about RRC and
MAC: in the code each end is re-established by a call of its own, and that no PDU
sent before reaches an entity that has been reset rests on the MAC reset between
them.  `RlcAmService` has the SDUs accepted, how often each was delivered
and how often confirmed; an SDU is delivered at most once, and confirmed at most
once and only after delivery.  The refinement mapping is the identity, since the
three variables are history of the detailed specification.

### RLC UM (`NrRlcUm`, `UmService`)

The same treatment: `RecvSdu`, `GenerateTxPdu` with its cutting of SDUs,
`RecvPdu` with `reception_actions` and reassembly, `TReassemblyExpires`,
`DiscardSdu`, and re-establishment.  The header of an SDU that is not cut has no
SN, so that it is delivered at once.  `rx_top` is history: `rx_next_highest`
without wrap-around, to tell a PDU that comes too late.  The mapping to
`UmService` computes the status of each SDU: it is under way as long as each of
its bytes is waiting, on its way in a PDU that will not come too late, or held
by the receiver.  The service says that "delivered" and "lost" are final.

### PDCP (`NrPdcp`, `PdcpService`)

`ProcessSdu` is `nr_pdcp_entity_process_sdu`; `RecvPdu`, within `RlcDeliver`, is
`nr_pdcp_entity_recv_pdu` with the delivery of whatever becomes in order and the
handling of t_reordering; `Expire` is `check_t_reordering`; `SuspendTx/Rx` and
`ReestablishTx/Rx` are `nr_pdcp_entity_suspend` and the `reestablish_entity` of
each type of bearer, at one end; release and the reconfiguration of t_reordering
have actions of their own.  Ciphering and integrity are modelled by what they
need: an SDU deciphered with another COUNT than it was ciphered with comes out
garbled, or is dropped where there is an integrity check.  RLC below is
`RlcAmService` with at most `RlcWindow` SDUs between the oldest under way and the
newest delivered, or with losses for UM.  The two ends are re-established, or
suspended, one after the other in either order; a PDU is received only by the
incarnation of the receiver it was made for, since RLC is re-established with
PDCP and its channel emptied.

### Queues (`DataQueue`, `BoundedFifo`) and threads (`NrPdcpRlcThreads`)

Both queues of `nr_pdcp_oai_api.c` are the same code: a ring, a mutex and one
condition variable for both sides.  What is done under the mutex is one step.
The consumer works on its item with the mutex unlocked and removes it afterwards
(`Get`, `Hand`, `Remove`).  `waiting` is the set of threads in
`pthread_cond_wait`; `Signal` wakes any one; wake-ups may be spurious.  Its
specification is `QueueSpec`, with the fairness of its threads `QueueFairSpec`.

`NrPdcpRlcThreads` has two instances of it, the big lock of each layer, the
threads that send on bearers, the MAC threads that receive, the threads of the
two queues, the timer thread, and the removal of the UE from each layer.  It
keeps the order of locking, unlocking and queueing of `nr_pdcp_data_req_*`,
`mac_rlc_data_ind`, `rlc_data_req`, `deliver_sdu` and `pdcp_data_ind_thread`; of
the entities only the COUNT and the number of SDUs that come out remain.

### SDAP (`NrSdap`)

One PDU session, at a gNB or a UE: `table` is `qfi2drb_table`.  The tun thread
reads a flow's rule and submits afterwards (`ReadRule`, `Submit`); RRC adds,
reconfigures and releases DRBs; at a UE, a received PDU with RDI = 1 moves a
flow from within the PDCP thread.  Only some of these hold the PDCP lock, and
where they do not the other threads come in between.  RRC is taken to configure
one flow per DRB it adds or reconfigures.

### Thread pool (`ThreadPool`)

Every mutex of a queue is part of the state, since `try_push_not_q` and
`try_pop_not_q` pass over a queue that is locked.  `PushSteps` is `pushTpool`,
`WorkerSteps` is `worker_thread` with its two rounds of stealing before it sleeps,
`InitAns`, `Completed`, `Post` and `Join` are `task_ans.c`, the end is
`abortTpool`: one poison task that every worker passes on.  `Enlarge` is
`enlarge_buffer`.  A pool without workers runs its tasks in the caller.

### Abstractions

- Headers are the numbers they encode.  Their size counts where room and buffer
  status depend on it.
- NACK ranges are expanded to one entry per SDU.  That a range holds at most 255
  SDUs, so that the code writes several, is not visible in the model.
- A timer is running or not, and a running one may expire at any time.  This
  includes every order of expiries the configured durations allow, and more.
- `retx_count` stops at the largest value it is compared with; poll counters
  whose limit is infinite stay at 0.
- Sending and receiving side of an entity share only `clear_entity` and the
  priority of reports in `generate_pdu`, and are modelled apart.
- An SDU larger than `NR_SDU_MAX` is put together and then dropped (`bad_sdu`,
  AM:230-234, 245-246).  A peer of this code never sends one (AM:1802), and the
  models have none.
- SDUs are numbers: the property of interest is which come out, and in what order.
- Statistics and logging are left out.

## 4. The runs

| Run | Instance | Distinct states | Checks |
| --- | --- | --- | --- |
| `am_receiver` | 8 SDUs of 1 to 3 bytes, modulus 6, buffer of 3 bytes, one re-establishment | 8,512 | `WindowOrder`, `TriggerInWindow`, `NothingSkipped`, `RxSizeExact`, `StatusHonest`, `NextMissingExact`, `MarkersMonotone`, `GapReported` |
| `am_sender` | 4 SDUs, one of 3 bytes, modulus 4, buffer of 4 bytes, two grant sizes, every STATUS PDU with up to 1 NACK, one re-establishment | 41,928 | `SegmentsAccounted`, `BufferStatusExact`, `ConfirmedOnce` |
| `am_bearer` | 5 one-byte SDUs, modulus 4, two PDUs under way in all, of either kind, duplicates, truncated reports, discards | 274,700 | `WindowsInStep`, `ImplementsService` |
| `am_bearer_cut` | 2 SDUs, one of them cut in two, two data PDUs and one report under way, duplicates, truncated reports, one re-establishment | 142,922 | `NotGarbled`, `NotStranded`, `ImplementsService` |
| `am_bearer_live` | 2 SDUs, loss, fair scheduling | 1,368 | `EventuallyConfirmed` |
| `um` | 5 SDUs in two, three and one parts, modulus 4, three PDUs under way, small buffers, discards, one re-establishment | 340,046 | `WindowOrder`, `DeliveredOnce`, `BufferStatusExact`, `ImplementsService`, `GapResolved` |
| `pdcp` | five bearers, SN modulus 8, up to 9 SDUs, RLC window 2, one re-establishment, suspension, release | 360,762 | `RxOrder`, `NotGarbled`, `HeldIsTimed`, `SuspendedIsClean`, `ImplementsService`, `HeldReleased`, `Arrives` |
| `queue` | ring of 3, three producers of 3 items each | 93,593 | `NoneStranded`, `ImplementsFifo`, `AllHanded` |
| `threads` | one bearer with two SDUs, two MAC threads with a PDU each, queues of 2, one answer by SDAP, one tick, removal of the UE | 383,642 | `PdusInOrder`, `SdusInOrder`, `Drained` |
| `sdap` | three DRBs, two flows, one release, one reconfiguration, UE or gNB | 2,955,908 | `RulesLive`, `MoveAnnounced` |
| `pool` | none, one or two workers, three tasks, rings of 2 that grow | 511,942 | `TasksAccounted`, `JoinWaits`, `AllAnswered` |
| `am_next_ack` | 2 SDUs, one of them cut | (violated) | `NextAckIsOldest`, section 5 |

Deadlock is checked in `am_receiver` only.  In the others the number of SDUs,
items or tasks is bounded, and when all are through nothing is left to do; what
must not be left undone is what the liveness properties say.

### RLC AM

*Receiving side.*  Any segment of any SDU of the peer's window may arrive at any
time, any number of times.  The four markers keep their order and never move
back, and what t_reassembly waits for is always within the window
(`WindowOrder`, `TriggerInWindow`, `MarkersMonotone`); each SDU is delivered
before `rx_next` passes it (`NothingSkipped`); `rx_size` is what is held, in spite
of overlapping segments; no report, however truncated, acknowledges a byte that
is missing (`StatusHonest`); every gap is in the end reported (`GapReported`).
What a report lacks is given in two ways: `Missing` by its definition, byte by
byte, and `NextMissing` by the walk along the sorted list that `next_missing`
does, with its cases for the head of the list, for segments that overlap, for
SDUs already delivered, and for the place where the report ends.
`NextMissingExact` says that both agree in every state the receiver can be in.
With modulus 6 the window is 3, so that an SDU can be incomplete, a later one
delivered and a third one incomplete; 8 SDUs pass the wrap-around.  One SDU has
3 bytes, so that it can have a gap in the middle and overlaps on both sides.
The buffer of 3 bytes is full when two SDUs are in part there.

*Transmitting side.*  The peer reports anything that is well-formed: `WellFormed`
asks that NACKs increase and are not for the SN of ACK_SN itself.  Reports that
no receiver would send at that moment are included.  Every segment is in one of
the three lists and the reference counts agree with them (`SegmentsAccounted`);
the buffer status is exact; and PDCP is told of the delivery of an SDU at most
once, when no list has a segment of it any more, although reports are repeated
and acknowledge its segments in parts (`ConfirmedOnce`).  The SDU of 3 bytes is
cut when it is sent, and what was cut off is cut again when only a part of it
fits in a retransmission; 4 SDUs with modulus 4 give numbers that wrap around.

*Bearer.*  `ImplementsService` is the refinement of `RlcAmService`.
`WindowsInStep` says that the sender never believes acknowledged what the
receiver has not passed, and never sends beyond the receive window.  It is
checked for SDUs that are sent whole only: for one that is cut, finding 1 of
section 5 breaks it at once (end of section 6).  `am_bearer_cut` has an SDU of 2
bytes, which is cut once.
`NotStranded` says that an unacknowledged SDU always has a timer or something to
send behind it; it is checked without discards, because a discard of the last
SDU of `tx_list` can leave earlier ones sent without a poll, until PDCP brings
the next SDU.  Two PDUs under way in one direction are what it takes for one to
overtake another; a PDU that stays for duplication may arrive again after any
number of steps of the two entities, until its window is over.  In `am_bearer`
the SNs wrap around, so that an SN is used for a second SDU; the guards of
`ReceiveData` and `ReceiveStatus` exclude that a PDU or report of its first use
arrives after that (section 3).  `EventuallyConfirmed` has two exceptions, both of which happen in the
code: the crash of section 5, and a poll forced by the expiry of
t_poll_retransmit that waits for a PDU while, after a late report, there is none
to send.  It is checked for SDUs that are not cut.  For SDUs that are, finding 1
of section 5 stands in the way, and the fairness below would have to speak of
segments instead of SDUs.

### RLC UM

Five SDUs with modulus 4 make the SNs wrap around, in three PDUs that overtake
each other: two of one SDU and one of another that uses the SN again, which is
what it takes to put a wrong SDU together, and what `DeliveredOnce` and
`ImplementsService` are about.  `GapResolved` excepts the one state of section 5
in which the timer is not started again.

### PDCP

The five bearers of `MCNrPdcp` are a DRB over UM, a DRB over AM and an SRB with
integrity protection, each with losses, suspension, re-establishment, release
and reconfiguration of t_reordering, and up to 5 SDUs; a longer one with 9 SDUs
and losses, so that the SN wraps around and a second gap opens behind a first;
and one that loses nothing and whose t_reordering is infinite.  That the receiver
finds every COUNT (`NotGarbled`) rests on RLC's window being no larger than
PDCP's.  `HeldIsTimed` is what suspension and re-establishment rely on to empty
the list.  `SuspendedIsClean`, `HeldReleased` and `Arrives` say that nothing of the
time before a suspension remains, that a finite t_reordering releases everything,
and that over a lossless RLC everything arrives in order.

### Queues and threads

`NoneStranded`: with one condition variable for both sides a signal could wake
the wrong side; it does not, as long as there are no more producers than places
(10000 in the code).  `threads` checks that PDUs of a bearer reach RLC in the order
of their COUNTs although the PDCP lock is given back in between, that SDUs reach
PDCP in the order RLC delivered them, and that everything drains.  `PdusInOrder`
and `Drained` are stated for runs in which SDAP does not answer from inside the
PDCP thread; section 5 shows why.  Queues of 2 fill up, and a MAC thread with two
SDUs waits for room with the RLC lock held.

### SDAP

`RulesLive` excepts a released default DRB and SDUs that PDCP delivers during
the release, and `MoveAnnounced` the meeting of RRC's and PDCP's stores; all are
described in section 5 or in the hazards.  Three DRBs are needed for a flow to move
twice, two flows for one to move while another is sent.  Symmetry of the flows is
sound: nothing tells one from another.

### Thread pool

Three tasks in rings of 2, of which one place is always free, make a ring grow
with its tail at any place.  Two workers are enough to steal from each other and
to pass over a queue that the other has locked.  The pool is aborted after the
caller has its answer.

### Fairness

- RLC AM: weak fairness of sending data and reports (the scheduler serves
  bearers with a non-zero buffer status, which counts a pending report as well)
  and of the expiry of each timer (`set_time` is called at every slot); strong
  fairness of the reception of each SDU and of reports: what is sent again and
  again gets through.  Without it no retransmission protocol works.
- RLC UM, `NrRlcAmReceiver`, PDCP: only the expiry of timers; for the lossless
  bearer of `pdcp` also that RLC delivers.
- Queues, threads, pool: weak fairness of each thread, as a preemptive scheduler
  gives.  No fairness of mutexes is assumed.  `pool` assumes finitely many
  spurious wake-ups.

## 5. Where code and comments disagree

`am_next_ack` is a run that TLC ends with a violation: `process_control_pdu`
computes `tx_next_ack` from the heads of `wait_list` and `retransmit_list`; an SDU
of which a part is still in `tx_list` is in neither (AM:756).  `tx_next_ack` then
passes it, contrary to the rule quoted in the comment above it (AM:750-753).
This is finding 1.  What it can lead to, once the SNs have wrapped around, is
described at the end of section 6.

The following configurations are kept beside the runs.  Each states what a
comment, an assertion or a log message says, and ends with a violation when TLC is
called by hand (`tlc -config X.cfg M`; M is `MCNrRlcAm`, `MCNrRlcAmReceiver`,
`MCNrRlcAmSender`, `MCNrRlcUm`, `NrPdcp`, `NrPdcpRlcThreads`, `MCNrSdap`,
`ThreadPool`, by the name of the configuration).

| Configuration | Property | What is said | What the code does |
| --- | --- | --- | --- |
| `NrRlcAmWaitList` | `WaitListNotEmpty` | "the wait list should not be empty here, but not sure" (AM:1882) | with a stalled window and a truncated report it is empty, and its head is dereferenced (AM:1889); two entities of this code are enough |
| `NrRlcAmSenderLost` | `SegmentsAccounted` | "put the remaining retransmit list at the end of the new retransmit list (just a speedup)" (AM:656) | the rest of the list is lost (AM:662); it takes a NACK for the SN in ACK_SN, which AM:598 considers possible and this receiver does not send |
| `NrRlcAmSenderUnordered` | `UnorderedNacksDiscarded` | "discard the whole control PDU if NACKs are bad (not <= ack_sn, not in increasing order)" (AM:390) | the order is not tested, since `prev_nack_sn` is set only later (AM:428, 673) |
| `NrRlcUmNoRoom` | `NoRoomDoesNothing` | "not enough room for at least one byte of data? do nothing" (UM:479) | with a 12-bit SN and a grant of two bytes the SDU is taken off `tx_list` and lost (UM:498) |
| `NrRlcUmRxFull` | `FullMeansFull` | "dicard PDU if rx buffer is full" (UM:341) | `check_t_reassembly` does not take what it drops off `rx_size` (UM:640) |
| `NrRlcUmTxFull` | `RejectedMeansFull` | "SDU rejected, SDU buffer full" (UM:581) | `discard_sdu` does not take the SDU off `tx_size` (UM:707); only the tests call it |
| `NrRlcUmRestart` | `StoppedMeansNoGap` | "or rx_next_highest == rx_next_reassembly + 1 and no missing byte for rx_next_reassembly" (UM:252) | the test in `check_t_reassembly` adds 1 without the modulus (UM:654): at the wrap-around the timer is not started again |
| `NrPdcpEarly` | `HeldIsTimed` | "stores the ms of activation, 0 means not active" (nr_pdcp_entity.h:148) | a timer started before the first `set_time` stores 0 (PDCP:213), and is not active |
| `NrPdcpRlcReflective` | `NoCircularWait` | "it is enough to ensure that a call to lock(pdcp) will never be followed by a call to lock(rlc)" (API:119) | SDAP's end markers wait for room in the RLC queue with the PDCP lock held (API:1424); it takes two full queues |
| `NrSdapDefault` | `RulesExist` | "remove all QoS flow to DRB mappings associated with the released DRB" (SDAP:558) | `default_drb` stays, and becomes the rule of the next flow without one (SDAP:556) |
| `NrSdapHeader` | `HeaderMatches` | "it might be 0 if has_sdap_tx is not true in the pdcp entity" (SDAP:104) | the flow's own copy of `has_sdap_tx` is looked at, which a reflective move leaves as it was |
| `NrSdapMarkers` | `OneEndMarker` | two conditions that exclude each other (SDAP:279, 290) | a flow without a rule meets both, and two end markers are sent (SDAP:296) |
| `NrSdapMarkerHeader` | `EndMarkerWithHeader` | "configured by RRC with the presence of UL SDAP header" (SDAP:293) | not tested (SDAP:296) |
| `NrSdapGnbSecond` | `AddedDrbMapped` | "check whether the SDAP entity already exists and update QFI to DRB mapping rules in that case" (SDAP:480) | done only at a UE (SDAP:486) |
| `ThreadPoolAbort` | `AbortReturns` | "Abort tpool, stop all threads and return" (thread-pool.h) | a worker may steal the poison task from the queue of another, pass it on to itself and end; the other sleeps for ever, and `abortTpool` with it (thread-pool.c:90) |
| `ThreadPoolAssert` | `NeverAsserts` | `DevAssert(t.func != NULL)` (bounded_notified_fifo.h:186) | fails for the poison task when every queue is locked at that moment |

## 6. What is proved

Each theorem is about every value of the constants that satisfies the named
assumptions.  The inductive invariants were checked with TLC, on instances like
those of section 4, before they were proved.

### RLC AM, receiving side (`NrRlcAmReceiverProofs`)

`ReceiverTypes`, `ReceiverWindow`, `ReceiverTrigger`, `ReceiverSkipsNothing`,
`ReceiverHonest`, `ReceiverSize` (`Spec => []TypeOK`, `[]WindowOrder`,
`[]TriggerInWindow`, `[]NothingSkipped`, `[]StatusHonest`, `[]RxSizeExact`) and
`ReceiverMonotone` (`Spec => MarkersMonotone`): all safety properties of
`am_receiver` but `NextMissingExact`.  Assumptions: the modulus is even and at least 4 (the code uses
2^12 and 2^18); SDUs have at least one byte and are numbered from 0 without gaps.
Nothing is assumed about their number, their sizes or the buffer.

The inductive invariant is `RxInv == TypeOK /\ WindowOrder /\ TriggerInWindow`,
then `Accounted`, then `Sized`.  Of `RxInv` none of the last two conjuncts is
inductive alone.  That `rx_highest_status` stays below `rx_next_highest` when
t_reassembly expires needs the trigger to be in the window.  That the trigger
stays in the window when `rx_next` moves needs everything delivered to be below
`rx_next_highest`.  And that the expiry does not take `rx_highest_status` back
needs every SDU between the trigger and `rx_highest_status` to be delivered.
`FirstUndeliveredIs` says where the loop over delivered SDUs stops.
`ReceptionKeepsWindow` and `ExpiryKeepsWindow` show the invariant for the two
operations that move markers, by measuring all markers from the old `rx_next` and
then shifting the base (`ModulusShift`).  `Accounted` says of each SDU that it was
handed over if `rx_next` has passed it or its SN is marked, and that what the list
holds under an SN are bytes of the one SDU which has that SN now; `StatusHonest`
follows, since a report acknowledges only what is not in `Missing`.  `Sized` is
`RxSizeExact` with the existence of the sums it speaks of.

### RLC AM, transmitting side (`NrRlcAmSenderProofs`)

`SenderTxSize` (`[]TxSizeExact`: `tx_size`, which controls admission, is the size
of the SDUs held; no run checks this one) and `SenderConfirms` (`[]ConfirmedOnce`)
for every sequence of STATUS PDUs; `SenderAccounts` (`[]SegmentsAccounted`) and
`SenderBufferStatus` (`[]BufferStatusExact`) for a peer that keeps to the standard
(`StrictPeer`).  The last two need it: section 5 shows how another peer makes
the entity lose segments.  Nothing is assumed about the sizes of SDUs, the
grants, the timers or how SDUs are cut.

The inductive invariant is `SenderInv == Lists /\ Numbers /\ Counts /\ Sums`: each
segment is in one place of one list and the segments held are disjoint; what was
sent has an SN; as many segments of an SDU are held as are referenced and not
freed, and an SDU of which something was freed has a hole in what is held; the
counters are sums.  The hole is for `discard_sdu`: an SDU that is whole in
`tx_list` has none, so that nothing of it was freed and it is the only segment,
and all of the SDU's size may be taken off.  TLC confirmed the invariant on the instance of
`am_sender`, with both kinds of peer.  The walk of `process_control_pdu` over
both lists is taken apart into what it asks for again, frees and keeps, which are
disjoint and make up what was sent.

`ConfirmedOnce` is not inductive, since it does not say why an SDU of which
nothing is held cannot be confirmed once more.  `Confirmed` adds that a confirmed
SDU is no longer referenced and was submitted before the next one.  A report can
confirm only the SDU of a segment that is held, which by `Counts` is referenced,
and so is not one that was confirmed before (`HeldUnconfirmed`).

### Sums

The sizes and buffer statuses are sums over sets of segments.  `Total(f)` is
defined as the number of elements of `Units(f)`, one for each unit of each value,
so that what is to be known of it follows from the theorems about cardinality:
`NrRlcSnTheorems` has lemmas about the empty sum, one value, disjoint and
included sets of indices, and renaming the indices (`TotalEmpty`, `TotalOne`,
`TotalJoin`, `TotalSplit`, `TotalMoved`).  Where a proof would go by induction it
takes the least number that fails (`LeastNat`).

### RLC UM (`NrRlcUmProofs`)

`UmWindowOrder` (`[]WindowOrder`), `UmDeliveredOnce` (`[]DeliveredOnce`),
`UmImplementsService` (`ImplementsService`, the refinement of `UmService`) and
`UmBufferStatus` (`[]BufferStatusExact`): all safety properties of `um`, for every
modulus, SDU sizes, buffers and bounds.  The invariant `UmInv` relates both ends
and the channel through numbers without wrap-around: SNs are these numbers modulo
`sn_modulus` (`Numbers`); `tx_list` holds the ends of SDUs (`Queue`); what is
outside of it was in front of it (`Sent`); a number stands for one SDU and no byte
is outside twice (`Pairs`); of an SDU that was put together nothing is outside
(`Settled`); and `WindowOrder` with the place of the trigger.  The refinement
shows that the status of an SDU computed from the bytes that are left never comes
back from "lost" or "delivered".

### PDCP (`NrPdcpProofs`)

`Invariance` (the inductive invariant `IInv`), `MarkersInOrder` (`RxOrder`),
`CountsFound` (`NotGarbled` and `RlcKeepsWindow`), `TimerGuardsList`
(`HeldIsTimed`), `SuspensionClean` (`SuspendedIsClean`) and `InOrderDelivery`
(`ImplementsService`, the refinement of `PdcpService`): all safety properties of
`pdcp`, for all three types of bearer, with losses and resets.  Assumptions:
`SnModulus` is even and divides `CountModulus`; fewer SDUs than COUNTs; RLC's
window is at most PDCP's (`ConstantsAssumption`); and no PDU arrives before the
first `set_time` (`~Early`; section 5 shows that `HeldIsTimed` needs it).

`NotGarbled` is not inductive: whether the HFN is guessed right depends on how far
the SN is from `rx_deliv`.  `IInv` adds that what is under way is numbered without
gaps (`Numbering`); that the receiver is never more than RLC's window ahead of
what is under way, also while one end has been re-established and the other has
not (`Behind`); that without loss what RLC delivered is delivered or held
(`Complete`); that a gap means the timer is running (`Timed`); and that a
suspended receiver is clean (`Clean`).  `CountRecovered` is the arithmetic: a COUNT
less than half a modulus from `rx_deliv` is found from its SN.  `RunEndIs` finds
the end of the run of COUNTs that is delivered at once.  One lemma per action
then shows that `IInv` is kept.  The refinement adds `Ordered`: COUNTs order what
is held and what is under way as the SDUs were submitted, all of it behind what
was delivered; and while the sender is one re-establishment ahead, all that is
under way comes after all that is held.

### The queues (`NrPdcpProofs`)

`NoLostWakeUp` (`QueueSpec => []NoneStranded`) and `RingIsFifo` (`QueueSpec =>
ImplementsFifo`, the refinement of `BoundedFifo`), for any ring size and any
finite number of producers up to it (`QueueAssumption`).  `NoneStranded` needs that
there are never more producers waiting than items in the ring (`QInv`): each
removal wakes one of them, so that none is left when the ring is empty and the
consumer goes to sleep.  The refinement follows the slots round the ring:
`PlacesDiffer` says that places less than a ring apart do not fall together,
`RingAppend` and `RingTail` what `Put` and `Remove` do to the sequence of items.

### Threads (`NrPdcpRlcThreadsProofs`)

`SduOrder` (`[]SdusInOrder`) and `PduOrder` (`[]PdusInOrder`) for any number of
bearers, MAC threads and places.  The invariant speaks of the stream of a queue:
what was handed over followed by what is in the ring.  `SduInv` says that the
stream of PDCP's queue is 1, 2, 3, ...; `CountInv` that COUNTs enter RLC's queue
in order and that the next one is in the hands of the bearer's own thread or not
yet given out, which holds as long as SDAP does not answer from inside the
PDCP thread (`answered = 0`, part of `PdusInOrder` itself).

### SDAP (`NrSdapProofs`)

`SdapRulesLive` (`[]RulesLive`) and `SdapMoveAnnounced` (`MoveAnnounced`), for any
DRBs, flows and numbers of reconfigurations, with the exceptions that the two
properties state (section 4).  The invariant `SdapInv` adds what a thread knows
between reading a rule and storing the new one: the flow's last end marker went
to the DRB that it is mapped to, as long as RRC's and PDCP's moves do not meet
(`AllAnnounced`).

### Thread pool (`ThreadPoolProofs`)

`PoolTasksAccounted` (`[]TasksAccounted`) and `PoolJoinWaits` (`[]JoinWaits`), for
any number of workers, callers, rounds and tasks.  `PoolInv` says of each task that
it is in one slot of one ring, in one thread's hands, or was run once, and in none
of these before it is pushed (`OnePlace`); and of each caller that `counter` is the
number of its tasks not yet run, and that once it is 0 one thread is about to post
or one post is there (`Answered`).  The work is in `Enlarge` and in the rings: that
the copy keeps each task at one place, at whatever place the tail is.

### Only model-checked

Liveness (`GapReported`, `EventuallyConfirmed`, `GapResolved`, `HeldReleased`,
`Arrives`, `AllHanded`, `Drained`, `AllAnswered`) is beyond the prover.

`NextMissingExact` compares a walk along a sorted list with a definition by bytes; a
proof would be an induction along the list, which is beyond the prover too.

Of the other safety properties, those of the AM bearer as a whole are not proved
(`WindowsInStep`, `NotGarbled`, `NotStranded`, `ImplementsService` of `NrRlcAm`).
The first two do not hold for all constants, for the reason of finding 1: when an
SDU is cut and `tx_next_ack` passes its unsent part, the sender's window moves
ahead of the receiver's, and `WindowsInStep` is violated at once.  Once the SNs
have wrapped around, the part that was left behind is taken for one of the SDU
which has its SN now.  TLC finds `NotGarbled` violated after 39 steps with modulus
4, one SDU of two bytes among SDUs of one byte, buffers of 3 bytes, and PDUs that
are only lost or reordered.  `am_bearer` therefore has SDUs that are sent whole
and wrap-around, `am_bearer_cut` SDUs that are cut and no wrap-around.  For these
two kinds of bearer the properties are expected to hold for all constants; a
proof would put the invariants of both sides together with one about the PDUs
and reports under way.

## 7. What is not modelled

- Of RLC: reconfiguration in mid-life (it changes the field length but not the
  modulus, which is a constant here), deletion of an entity, TM (a plain queue),
  statistics.
- Of PDCP: a change of the SN size in mid-life, the wrap-around of COUNT after
  2^32 SDUs, the algorithms of ciphering and integrity.
- Of the managers: the list of UEs and bearers itself.  A PDU queued for a UE that
  is removed makes an empty UE context again; the model counts it as handed over.
- Of SDAP: header bits, the GTP side of the gNB, deletion of whole entities.
- Of the pool: pinning to cores, and tasks that push tasks.  Rings of 2 make
  the second copy of `enlarge_buffer` short.
- Dynamic barrier, UE slot ring, actors, ITTI, MAC, RRC, F1AP, E1AP, NGAP, nFAPI:
  surveyed, on the plan where section 2 says so.  They are state machines a model
  checker could reach, and are left out for their size, not their nature.
- PHY, radio, SCTP, GTP-U, ASN.1, executables, the LTE stack: numeric code, I/O,
  encodings and start-up, or the 4G counterpart of what is here.  These are most of
  the repository's lines; PHY and MAC appear in the models as the channel that
  loses, duplicates and reorders.
