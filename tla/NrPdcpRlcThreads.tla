-------------------------- MODULE NrPdcpRlcThreads ---------------------------
(***************************************************************************)
(* The threads of a UE or monolithic gNB that meet in NR PDCP and RLC, the *)
(* "big lock" of each layer and the two queues between the layers.         *)
(*                                                                         *)
(* Downwards: the thread that sends on a bearer takes the PDCP lock for    *)
(* process_sdu, gives it back and only then puts the PDU in the queue of   *)
(* the RLC thread.  Upwards: a MAC thread keeps the RLC lock while         *)
(* recv_pdu puts SDUs in the queue of the PDCP thread.  In a UE, SDAP may  *)
(* answer an SDU with a control PDU, from inside the PDCP thread.          *)
(***************************************************************************)
EXTENDS Naturals, Sequences, FiniteSets

CONSTANTS Rb,          \* bearers, each with the one thread that sends on it
          Mac,         \* threads that call mac_rlc_data_ind
          Size,        \* slots of each queue
          Sdus,        \* bound: SDUs sent on each bearer
          Pdus,        \* bound: PDUs received by each MAC thread
          Ticks,       \* bound: ticks of the timer thread
          Batch,       \* bound: SDUs that one received PDU lets through
          Answers,     \* bound: control PDUs with which SDAP answers
          None

ASSUME ThreadAssumption ==
  /\ Size \in Nat \ {0}
  /\ Rb \cap Mac = {} /\ {"rlcq", "pdcpq", "timer"} \cap (Rb \cup Mac) = {}

Thread == Rb \cup Mac \cup {"rlcq", "pdcpq", "timer"}

VARIABLES lock,        \* holder of nr_pdcp_ue_manager's and of nr_rlc_ue_manager's lock
          pc,          \* where each thread is
          todo,        \* SDUs, PDUs or ticks still to come
          tx_next,     \* the next COUNT of each bearer
          pdu,         \* the PDU, as bearer and COUNT, that a thread has to hand to RLC
          batch,       \* SDUs the thread's recv_pdu has still to deliver
          up,          \* SDUs RLC has delivered
          answered,    \* how often SDAP has answered an SDU
          gone,        \* layers whose UE has been removed
          q, q_waiting, q_consumer, q_handed,
          pq, pq_waiting, pq_consumer, pq_handed

qVars == <<q, q_waiting, q_consumer, q_handed>>
pqVars == <<pq, pq_waiting, pq_consumer, pq_handed>>
threadVars == <<lock, pc, todo, tx_next, pdu, batch, up, answered, gone>>
vars == <<threadVars, qVars, pqVars>>

\* rlc_data_req_queue
Q == INSTANCE DataQueue WITH Producer <- Rb \cup {"pdcpq", "timer"}, Consumer <- "rlcq", PerProducer <- Sdus,
       queue <- q, waiting <- q_waiting, consumer <- q_consumer, handed <- q_handed, put <- todo

\* pdcp_data_ind_queue
Pq == INSTANCE DataQueue WITH Producer <- Mac, Consumer <- "pdcpq", PerProducer <- Pdus,
       queue <- pq, waiting <- pq_waiting, consumer <- pq_consumer, handed <- pq_handed, put <- todo

EmptyRing == [start |-> 0, length |-> 0, slot |-> [i \in 0..(Size - 1) |-> <<>>]]

Init == /\ lock = [pdcp |-> None, rlc |-> None]
        /\ pc = [t \in Thread |-> "idle"]
        /\ todo = [t \in Thread |-> IF t \in Rb THEN Sdus ELSE IF t \in Mac THEN Pdus
                                    ELSE IF t = "timer" THEN Ticks ELSE 0]
        /\ tx_next = [rb \in Rb |-> 0] /\ pdu = [t \in Thread |-> <<>>]
        /\ batch = [m \in Mac |-> 0] /\ up = 0 /\ answered = 0 /\ gone = {}
        /\ q = EmptyRing /\ q_waiting = {} /\ q_consumer = "idle" /\ q_handed = <<>>
        /\ pq = EmptyRing /\ pq_waiting = {} /\ pq_consumer = "idle" /\ pq_handed = <<>>

\* The lock that thread t needs to go on
Needs(t) == IF t \in Mac \cup {"rlcq"} THEN "rlc" ELSE "pdcp"

Wants(t) ==
  /\ pc[t] = "idle"
  /\ IF t = "rlcq" THEN q_consumer = "busy"
     ELSE IF t = "pdcpq" THEN pq_consumer = "busy" ELSE todo[t] > 0

\* nr_pdcp_manager_lock, nr_rlc_manager_lock
Lock(t) ==
  /\ Wants(t) /\ lock[Needs(t)] = None
  /\ lock' = [lock EXCEPT ![Needs(t)] = t] /\ pc' = [pc EXCEPT ![t] = "locked"]
  /\ todo' = [todo EXCEPT ![t] = IF @ > 0 THEN @ - 1 ELSE @]
  /\ UNCHANGED <<tx_next, pdu, batch, up, answered, gone, qVars, pqVars>>

-----------------------------------------------------------------------------
(* Downwards                                                               *)

\* nr_pdcp_data_req_srb, nr_pdcp_data_req_drb up to the unlock
ProcessSdu(t) ==
  /\ pc[t] = "locked" /\ lock' = [lock EXCEPT !.pdcp = None]
  /\ \/ /\ "pdcp" \notin gone
        /\ tx_next' = [tx_next EXCEPT ![t] = @ + 1] /\ pdu' = [pdu EXCEPT ![t] = <<t, tx_next[t]>>]
        /\ pc' = [pc EXCEPT ![t] = "enqueue"]
     \/ /\ "pdcp" \in gone
        /\ pc' = [pc EXCEPT ![t] = "idle"] /\ UNCHANGED <<tx_next, pdu>>
  /\ UNCHANGED <<todo, batch, up, answered, gone, qVars, pqVars>>

\* deliver_pdu_cb, that is enqueue_rlc_data_req.  A thread that came back
\* from a delivery still has the lock, and gives it back afterwards.
DeliverPdu(t) ==
  /\ pc[t] = "enqueue" /\ UNCHANGED <<todo, tx_next, batch, up, answered, gone, pqVars>>
  /\ \/ /\ Q!Put(t, pdu[t])
        /\ pc' = [pc EXCEPT ![t] = "idle"] /\ pdu' = [pdu EXCEPT ![t] = <<>>]
        /\ lock' = [lock EXCEPT !.pdcp = IF @ = t THEN None ELSE @]
     \/ Q!WaitForRoom(t) /\ UNCHANGED <<lock, pc, pdu>>

Sender(t) == Lock(t) \/ ProcessSdu(t) \/ DeliverPdu(t)

\* rlc_data_req_thread; rlc_data_req between locking and unlocking
RlcThread ==
  \/ Lock("rlcq")
  \/ /\ pc["rlcq"] = "locked" /\ Q!Hand
     /\ pc' = [pc EXCEPT !["rlcq"] = "idle"] /\ lock' = [lock EXCEPT !.rlc = None]
     /\ UNCHANGED <<todo, tx_next, pdu, batch, up, answered, gone, pqVars>>
  \/ (Q!Get \/ Q!WaitForItem \/ Q!Remove) /\ UNCHANGED <<threadVars, pqVars>>

-----------------------------------------------------------------------------
(* Upwards                                                                 *)

\* mac_rlc_data_ind with the lock: recv_pdu finds how many SDUs are complete.
RecvPdu(m) ==
  /\ pc[m] = "locked"
  /\ \E n \in (IF "rlc" \in gone THEN {0} ELSE 0..Batch) : batch' = [batch EXCEPT ![m] = n]
  /\ pc' = [pc EXCEPT ![m] = "deliver"]
  /\ UNCHANGED <<lock, todo, tx_next, pdu, up, answered, gone, qVars, pqVars>>

\* deliver_sdu, nr_pdcp_data_ind, enqueue_pdcp_data_ind
DeliverSdu(m) ==
  /\ pc[m] = "deliver" /\ batch[m] > 0
  /\ UNCHANGED <<lock, pc, todo, tx_next, pdu, answered, gone, qVars>>
  /\ \/ /\ Pq!Put(m, up + 1) /\ up' = up + 1
        /\ batch' = [batch EXCEPT ![m] = @ - 1]
     \/ Pq!WaitForRoom(m) /\ UNCHANGED <<batch, up>>

\* Mutant: mac_rlc_data_ind returns with the lock.
MacUnlockMutant(m) ==
  /\ pc[m] = "deliver" /\ batch[m] = 0
  /\ pc' = [pc EXCEPT ![m] = "idle"]
  /\ UNCHANGED <<lock, todo, tx_next, pdu, batch, up, answered, gone, qVars, pqVars>>

MacUnlock(m) ==
  /\ pc[m] = "deliver" /\ batch[m] = 0
  /\ pc' = [pc EXCEPT ![m] = "idle"]
  /\ lock' = [lock EXCEPT !.rlc = None]
  /\ UNCHANGED <<todo, tx_next, pdu, batch, up, answered, gone, qVars, pqVars>>

MacThread(m) == Lock(m) \/ RecvPdu(m) \/ DeliverSdu(m) \/ MacUnlock(m)

\* The end of recv_pdu or set_time in thread t: SDAP may come back with a control
\* PDU for some bearer (nr_sdap_rx_entity), in nr_pdcp_data_req_drb, which has the
\* lock then a second time.
DeliveredUp(t) ==
  /\ \/ /\ pc' = [pc EXCEPT ![t] = "idle"] /\ lock' = [lock EXCEPT !.pdcp = None]
        /\ UNCHANGED <<tx_next, pdu, answered>>
     \/ /\ "pdcp" \notin gone /\ answered < Answers /\ answered' = answered + 1
        /\ \E rb \in Rb : /\ tx_next' = [tx_next EXCEPT ![rb] = @ + 1]
                          /\ pdu' = [pdu EXCEPT ![t] = <<rb, tx_next[rb]>>]
        /\ pc' = [pc EXCEPT ![t] = "enqueue"] /\ UNCHANGED lock
  /\ UNCHANGED <<todo, batch, up, gone, qVars>>

\* pdcp_data_ind_thread
PdcpThread ==
  \/ Lock("pdcpq")
  \/ pc["pdcpq"] = "locked" /\ Pq!Hand /\ DeliveredUp("pdcpq")
  \/ DeliverPdu("pdcpq")
  \/ (Pq!Get \/ Pq!WaitForItem) /\ UNCHANGED <<threadVars, qVars>>
  \/ pc["pdcpq"] = "idle" /\ Pq!Remove /\ UNCHANGED <<threadVars, qVars>>

-----------------------------------------------------------------------------
(* Timer and removal of the UE                                             *)

\* nr_pdcp_timer_thread; set_time may deliver SDUs
TimerThread ==
  \/ Lock("timer")
  \/ pc["timer"] = "locked" /\ DeliveredUp("timer") /\ UNCHANGED pqVars
  \/ DeliverPdu("timer")

\* nr_pdcp_remove_UE (RRC) and nr_rlc_remove_ue (MAC), each with the layer's lock
RemoveUe(layer) ==
  /\ layer \notin gone /\ lock[layer] = None
  /\ gone' = gone \cup {layer}
  /\ UNCHANGED <<lock, pc, todo, tx_next, pdu, batch, up, answered, qVars, pqVars>>

Next == \/ \E t \in Rb : Sender(t)
        \/ \E m \in Mac : MacThread(m)
        \/ RlcThread \/ PdcpThread \/ TimerThread
        \/ \E layer \in {"pdcp", "rlc"} : RemoveUe(layer)

\* Every thread that can run runs; the work is bounded, so that a lock that is
\* free again and again is free for good in the end.
Spec == /\ Init /\ [][Next]_vars
        /\ \A t \in Rb : WF_vars(Sender(t))
        /\ \A m \in Mac : WF_vars(MacThread(m))
        /\ WF_vars(RlcThread) /\ WF_vars(PdcpThread) /\ WF_vars(TimerThread)

-----------------------------------------------------------------------------
(* Properties                                                              *)

\* The threads that t cannot go on without
WaitsFor(t) ==
  (IF Wants(t) THEN {lock[Needs(t)]} \ {None} ELSE {})
  \cup (IF t \in q_waiting \ {"rlcq"} THEN {"rlcq"} ELSE {})
  \cup (IF t \in pq_waiting \ {"pdcpq"} THEN {"pdcpq"} ELSE {})

\* "To avoid the resulting deadlock it is enough to ensure that a call to
\* lock(pdcp) will never be followed by a call to lock(rlc)": there are never
\* threads that all wait for one another, counting the waits for room in the
\* queues that took the place of the calls.
NoCircularWait ==
  ~ \E S \in SUBSET Thread \ {{}} : \A t \in S : WaitsFor(t) \cap S # {}

\* Behind the first m of these PDUs the bearer's next COUNT is count: 0 if it has
\* none among them, otherwise one more than that of its last one.
NextCount(items, m, rb, count) ==
  \/ count = 0 /\ \A j \in 1..m : items[j][1] # rb
  \/ \E j \in 1..m : /\ items[j][1] = rb /\ count = items[j][2] + 1
                     /\ \A k \in (j + 1)..m : items[k][1] # rb

InCountOrder(items) ==
  \A i \in 1..Len(items) : NextCount(items, i - 1, items[i][1], items[i][2])

\* RLC gets the PDUs of a bearer in the order of their COUNTs, although the PDCP
\* lock is given back before the PDU is handed over.  It takes a bearer that
\* only one thread sends on, which the answers of SDAP are an exception to.
PdusInOrder == answered > 0 \/ InCountOrder(q_handed)

\* PDCP gets the SDUs in the order in which RLC delivered them, whichever MAC
\* threads it ran in.
SdusInOrder == \A i \in 1..Len(pq_handed) : pq_handed[i] = i

\* Everything sent and everything received gets to the other layer, and no thread
\* waits for ever, for a lock or for room in a queue; except that SDAP's answers
\* wait for room with the PDCP lock held.
Drained ==
  <>[](\/ answered > 0
       \/ /\ \A t \in Thread : pc[t] = "idle" /\ todo[t] = 0
          /\ q.length = 0 /\ pq.length = 0)
=============================================================================
