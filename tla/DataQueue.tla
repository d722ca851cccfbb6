------------------------------ MODULE DataQueue ------------------------------
(***************************************************************************)
(* The two queues of nr_pdcp_oai_api.c, rlc_data_req_queue and             *)
(* pdcp_data_ind_queue, which are the same code twice: a ring of Size      *)
(* items with one mutex and one condition variable for everyone, any       *)
(* number of threads that put items in and one thread that empties it.     *)
(*                                                                         *)
(* What a thread does between locking and unlocking the mutex is one step; *)
(* the consumer works on the item in its slot with the mutex unlocked.     *)
(***************************************************************************)
EXTENDS Naturals, Sequences, FiniteSets

CONSTANTS Size,       \* RLC_DATA_REQ_QUEUE_SIZE, PDCP_DATA_IND_QUEUE_SIZE: 10000
          Producer,   \* the threads that call enqueue_...
          Consumer,   \* the thread made by init_..._queue
          PerProducer \* bound: items each producer puts in

ASSUME QueueAssumption ==
  /\ Size \in Nat \ {0} /\ PerProducer \in Nat
  /\ IsFiniteSet(Producer) /\ Cardinality(Producer) <= Size
  /\ Consumer \notin Producer

VARIABLES queue,      \* start, length and the slots
          waiting,    \* the threads in pthread_cond_wait
          consumer,   \* what the consumer is doing
          handed,     \* items it has handed over
          put         \* put[p]: how many items p has put in

queue_vars == <<queue, waiting, consumer, handed, put>>

Item == Producer \X (1..PerProducer)

QueueInit ==
  /\ queue = [start |-> 0, length |-> 0, slot |-> [i \in 0..(Size - 1) |-> <<>>]]
  /\ waiting = {} /\ consumer = "idle"
  /\ handed = <<>> /\ put = [p \in Producer |-> 0]

\* pthread_cond_signal: one of the threads that wait, whichever
Signal == IF waiting = {} THEN UNCHANGED waiting
          ELSE \E t \in waiting : waiting' = waiting \ {t}

\* Mutant: the slot behind the one to be used.
PutMutant(p, item) ==
  /\ p \notin waiting /\ queue.length < Size
  /\ queue' = [queue EXCEPT !.slot[(queue.start + queue.length + 1) % Size] = item, !.length = @ + 1]
  /\ Signal
  /\ UNCHANGED <<consumer, handed>>

\* enqueue_rlc_data_req, enqueue_pdcp_data_ind with room in the queue
Put(p, item) ==
  /\ p \notin waiting /\ queue.length < Size
  /\ queue' = [queue EXCEPT !.slot[(queue.start + queue.length) % Size] = item, !.length = @ + 1]
  /\ Signal
  /\ UNCHANGED <<consumer, handed>>

\* The same with a full queue.  Whoever is woken up looks at the length again.
WaitForRoom(p) ==
  /\ p \notin waiting /\ queue.length = Size
  /\ waiting' = waiting \cup {p}
  /\ UNCHANGED <<queue, consumer, handed>>

\* rlc_data_req_thread, pdcp_data_ind_thread: the index of the first item is
\* read, and the mutex unlocked.
Get ==
  /\ consumer = "idle" /\ Consumer \notin waiting /\ queue.length > 0
  /\ consumer' = "busy"
  /\ UNCHANGED <<queue, waiting, handed>>

WaitForItem ==
  /\ consumer = "idle" /\ Consumer \notin waiting /\ queue.length = 0
  /\ waiting' = waiting \cup {Consumer}
  /\ UNCHANGED <<queue, consumer, handed>>

\* The call of rlc_data_req or do_pdcp_data_ind with what is in the slot
Hand ==
  /\ consumer = "busy"
  /\ handed' = Append(handed, queue.slot[queue.start])
  /\ consumer' = "done"
  /\ UNCHANGED <<queue, waiting>>

\* Mutant: nobody is told that there is room.
RemoveMutant ==
  /\ consumer = "done" /\ consumer' = "idle"
  /\ queue' = [queue EXCEPT !.length = @ - 1, !.start = (@ + 1) % Size]
  /\ UNCHANGED <<handed, waiting>>

\* Mutant: the start of the ring stays.
RemoveStayMutant ==
  /\ consumer = "done" /\ consumer' = "idle"
  /\ queue' = [queue EXCEPT !.length = @ - 1]
  /\ Signal
  /\ UNCHANGED handed

\* Only then the item is taken out.
Remove ==
  /\ consumer = "done" /\ consumer' = "idle"
  /\ queue' = [queue EXCEPT !.length = @ - 1, !.start = (@ + 1) % Size]
  /\ Signal
  /\ UNCHANGED handed

-----------------------------------------------------------------------------

Produce(p) ==
  \/ /\ put[p] < PerProducer
     /\ Put(p, <<p, put[p] + 1>>)
     /\ put' = [put EXCEPT ![p] = @ + 1]
  \/ put[p] < PerProducer /\ WaitForRoom(p) /\ UNCHANGED put

Consume == (Get \/ WaitForItem \/ Hand \/ Remove) /\ UNCHANGED put

\* A thread may come out of pthread_cond_wait unasked.
SpuriousWake == /\ \E t \in waiting : waiting' = waiting \ {t}
                /\ UNCHANGED <<queue, consumer, handed, put>>

QueueNext == (\E p \in Producer : Produce(p)) \/ Consume \/ SpuriousWake

QueueSpec == QueueInit /\ [][QueueNext]_queue_vars

\* The scheduler runs every thread that is not waiting.
QueueFairSpec == QueueSpec /\ WF_queue_vars(Consume) /\ \A p \in Producer : WF_queue_vars(Produce(p))

-----------------------------------------------------------------------------
(* Properties                                                              *)

\* Types, and the range of the ring's indices.
QueueTypeOK ==
  /\ queue \in [start : 0..(Size - 1), length : 0..Size,
                slot : [0..(Size - 1) -> Item \cup {<<>>}]]
  /\ waiting \subseteq Producer \cup {Consumer}
  /\ consumer \in {"idle", "busy", "done"}
  /\ handed \in Seq(Item) /\ put \in [Producer -> 0..PerProducer]

\* One condition variable serves both sides and pthread_cond_signal wakes only
\* one thread, but never the wrong one: while the consumer waits the queue is
\* empty and no producer waits, and while a producer waits the consumer has an
\* item to remove.  It holds with no more producers than places in the ring.
NoneStranded ==
  /\ Consumer \in waiting => waiting = {Consumer} /\ queue.length = 0
  /\ waiting \cap Producer # {} => Consumer \notin waiting /\ queue.length > 0

\* Items that are in the ring and have not been handed over, the oldest first
Pending ==
  LET first == IF consumer = "done" THEN 1 ELSE 0
  IN  [i \in 1..(queue.length - first) |-> queue.slot[(queue.start + first + i - 1) % Size]]

Fifo == INSTANCE BoundedFifo WITH Size <- Size, Item <- Item, buffer <- Pending, handed <- handed

\* The ring is a FIFO: nothing is lost, handed over twice or overwritten while
\* the consumer works on it without the mutex.
ImplementsFifo == Fifo!Spec

\* Everything that is put in is handed over, and every producer gets its turn.
AllHanded == <>(Len(handed) = PerProducer * Cardinality(Producer))
=============================================================================
