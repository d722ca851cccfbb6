------------------------------ MODULE ThreadPool ------------------------------
(***************************************************************************)
(* The pool of worker threads of common/utils/threadPool: pushTpool,       *)
(* worker_thread and abortTpool (thread-pool.c), the queue of each worker  *)
(* (bounded_notified_fifo.h) and the answer a caller waits for             *)
(* (task_ans.c).                                                           *)
(*                                                                         *)
(* Each worker has a queue, and takes tasks out of the others' before it   *)
(* sleeps on its own.  Whether a mutex is held is part of the state, since *)
(* the code passes over a queue that is locked; what happens to the ring   *)
(* under the mutex is one step.                                            *)
(***************************************************************************)
EXTENDS Naturals, FiniteSets

CONSTANTS Workers,     \* the sizes of pool to look at (the list in params)
          Caller,      \* the threads that push tasks and wait for the answer
          Batch,       \* tasks for one answer
          Rounds,      \* bound: answers each caller waits for
          DefaultElm,  \* DEFAULT_ELM: 256
          Main,        \* the thread that calls abortTpool
          Poison,      \* the task {NULL, NULL}
          None

ASSUME PoolAssumption ==
  /\ Workers \subseteq Nat /\ IsFiniteSet(Workers)
  /\ Batch \in Nat \ {0} /\ Rounds \in Nat
  /\ DefaultElm \in Nat \ {0, 1} /\ \E n \in 1..8 : DefaultElm = 2 ^ n
  /\ Main \notin Caller /\ \A n \in Workers : (Caller \cup {Main}) \cap (0..(n - 1)) = {}
  /\ {Poison, None} \cap (Caller \X (1..Rounds) \X (1..Batch)) = {}

VARIABLES len_thr,     \* workers of this pool
          index,       \* tpool->index, shared by everyone who pushes
          ring,        \* ring[k]: the ring of queue k
          mtx,         \* mtx[k]: who holds the mutex of queue k
          pc,          \* what each thread is about to do
          i,           \* its loop counter
          first,       \* the index it took in pushTpool
          task,        \* the task in its hands
          round, nth,  \* each caller's answer, and the next task for it
          counter, sem,  \* task_ans_t of each caller
          ran,         \* how often each task has been run
          failed       \* a DevAssert has ended the program

vars == <<len_thr, index, ring, mtx, pc, i, first, task, round, nth, counter, sem, ran, failed>>
locals == <<i, first, task>>
answer == <<counter, sem>>
jobs == <<round, nth, answer, ran>>

Task == Caller \X (1..Rounds) \X (1..Batch)
Worker == 0..(len_thr - 1)
Thread == Worker \cup Caller \cup {Main}

-----------------------------------------------------------------------------
(* The ring of tasks (r->sz is never read, and left out)                   *)

Size(r) == r.head - r.tail
Full(r) == Size(r) = r.cap - 1
At(r, k) == r.array[k % r.cap]

EmptyRing == [cap |-> DefaultElm, head |-> 0, tail |-> 0, array |-> [k \in 0..(DefaultElm - 1) |-> None]]

\* Mutant: the ring is copied from the start of the array.
EnlargeMutant(r) ==
  [cap |-> 2 * r.cap, tail |-> 0, head |-> r.cap - 1,
   array |-> [k \in 0..(2 * r.cap - 1) |-> IF k < r.cap - 1 THEN At(r, k) ELSE None]]

\* enlarge_buffer: the two memcpys put the tail first.
Enlarge(r) ==
  [cap |-> 2 * r.cap, tail |-> 0, head |-> r.cap - 1,
   array |-> [k \in 0..(2 * r.cap - 1) |-> IF k < r.cap - 1 THEN At(r, r.tail + k) ELSE None]]

PushBack(r, t) ==
  LET s == IF Full(r) THEN Enlarge(r) ELSE r
  IN  [cap |-> s.cap, tail |-> s.tail, head |-> s.head + 1,
       array |-> [s.array EXCEPT ![s.head % s.cap] = t]]

-----------------------------------------------------------------------------

Init ==
  /\ len_thr \in Workers
  /\ index = 0
  /\ ring = [k \in Worker |-> EmptyRing] /\ mtx = [k \in Worker |-> None]
  /\ pc = [t \in Thread |-> IF t \in Worker THEN "scan" ELSE "start"]
  /\ i = [t \in Thread |-> IF t \in Worker THEN t ELSE 0]
  /\ first = [t \in Thread |-> 0] /\ task = [t \in Thread |-> None]
  /\ round = [c \in Caller |-> 1] /\ nth = [c \in Caller |-> 1]
  /\ counter = [c \in Caller |-> 0] /\ sem = [c \in Caller |-> 0]
  /\ ran = [t \in Task |-> 0]
  /\ failed = FALSE

Goto(t, where) == pc' = [pc EXCEPT ![t] = where]

Lock(t, k) == mtx[k] = None /\ mtx' = [mtx EXCEPT ![k] = t]
Unlock(k) == mtx' = [mtx EXCEPT ![k] = None]

(* pushTpool *)

StartPush(t, what) ==
  /\ index' = index + 1
  /\ first' = [first EXCEPT ![t] = index]
  /\ i' = [i EXCEPT ![t] = 0]
  /\ task' = [task EXCEPT ![t] = what]
  /\ Goto(t, "push")
  /\ UNCHANGED <<len_thr, ring, mtx, round, answer, ran, failed>>

\* The queue that the loop of pushTpool is at; after it, that of the first try
Target(t) == (i[t] + first[t]) % len_thr

PutIn(t, k) ==
  /\ Lock(t, k)
  /\ ring' = [ring EXCEPT ![k] = PushBack(@, task[t])]
  /\ Goto(t, "pushed")
  /\ UNCHANGED <<len_thr, index, locals, jobs, failed>>

\* try_push_not_q and, when every queue was locked, push_not_q, which waits
\* for the mutex and asserts that the task is none of {NULL, NULL}
TryPush(t) == pc[t] = "push" /\ i[t] < len_thr /\ PutIn(t, Target(t))

PassOver(t) ==
  /\ pc[t] = "push" /\ i[t] < len_thr /\ mtx[Target(t)] # None
  /\ i' = [i EXCEPT ![t] = @ + 1]
  /\ UNCHANGED <<len_thr, index, ring, mtx, pc, first, task, jobs, failed>>

Push(t) == pc[t] = "push" /\ i[t] = len_thr /\ task[t] # Poison /\ PutIn(t, Target(t))

PushAsserts(t) ==
  /\ pc[t] = "push" /\ i[t] = len_thr /\ task[t] = Poison
  /\ failed' = TRUE
  /\ UNCHANGED <<len_thr, index, ring, mtx, pc, locals, jobs>>

PushUnlock(t) ==
  /\ pc[t] = "pushed" /\ Unlock(Target(t)) /\ Goto(t, "signal")
  /\ UNCHANGED <<len_thr, index, ring, locals, jobs, failed>>

\* A caller goes on with its next task, a worker that has passed the poison on
\* ends, and Main waits in pthread_join.
After(t) == IF t \in Caller THEN "fill" ELSE IF t = Main THEN "join" ELSE "exited"

\* condsignal: only its owner sleeps on a queue.
Signal(t) ==
  /\ pc[t] = "signal"
  /\ pc' = [u \in Thread |-> IF u = t THEN After(t)
                             ELSE IF u = Target(t) /\ pc[u] = "asleep" THEN "pop" ELSE pc[u]]
  /\ task' = [task EXCEPT ![t] = None]
  /\ UNCHANGED <<len_thr, index, ring, mtx, i, first, jobs, failed>>

PushSteps(t) == TryPush(t) \/ PassOver(t) \/ Push(t) \/ PushAsserts(t) \/ PushUnlock(t) \/ Signal(t)

-----------------------------------------------------------------------------
(* worker_thread                                                           *)

NumIt(w) == 2 * (len_thr + w)

TakeOut(w, k) ==
  /\ task' = [task EXCEPT ![w] = At(ring[k], ring[k].tail)]
  /\ ring' = [ring EXCEPT ![k].tail = @ + 1]
  /\ Goto(w, "popped")

\* try_pop_not_q with the mutex free; an empty queue is held until it is
\* unlocked again.
TryPop(w) ==
  /\ pc[w] = "scan" /\ i[w] < NumIt(w)
  /\ LET k == i[w] % len_thr
     IN  /\ Lock(w, k)
         /\ \/ Size(ring[k]) > 0 /\ TakeOut(w, k)
            \/ Size(ring[k]) = 0 /\ Goto(w, "peeked") /\ UNCHANGED <<ring, task>>
  /\ UNCHANGED <<len_thr, index, i, first, jobs, failed>>

SkipLocked(w) ==
  /\ pc[w] = "scan" /\ i[w] < NumIt(w) /\ mtx[i[w] % len_thr] # None
  /\ i' = [i EXCEPT ![w] = @ + 1]
  /\ UNCHANGED <<len_thr, index, ring, mtx, pc, first, task, jobs, failed>>

PeekUnlock(w) ==
  /\ pc[w] = "peeked" /\ Unlock(i[w] % len_thr) /\ Goto(w, "scan")
  /\ i' = [i EXCEPT ![w] = @ + 1]
  /\ UNCHANGED <<len_thr, index, ring, first, task, jobs, failed>>

\* pop_not_q: the worker's own queue, after the loop and after every wait
PopLock(w) ==
  /\ pc[w] = "pop" \/ (pc[w] = "scan" /\ i[w] = NumIt(w))
  /\ Lock(w, w) /\ Goto(w, "locked")
  /\ i' = [i EXCEPT ![w] = w]
  /\ UNCHANGED <<len_thr, index, ring, first, task, jobs, failed>>

PopWait(w) ==
  /\ pc[w] = "locked" /\ Size(ring[w]) = 0
  /\ Unlock(w) /\ Goto(w, "asleep")
  /\ UNCHANGED <<len_thr, index, ring, locals, jobs, failed>>

Pop(w) ==
  /\ pc[w] = "locked" /\ Size(ring[w]) > 0
  /\ TakeOut(w, w)
  /\ UNCHANGED <<len_thr, index, mtx, i, first, jobs, failed>>

PopUnlock(w) ==
  /\ pc[w] = "popped" /\ Unlock(i[w] % len_thr) /\ Goto(w, "got")
  /\ UNCHANGED <<len_thr, index, ring, locals, jobs, failed>>

\* Mutant: the answer is posted with one task to go.
CompletedMutant(t, c, next) ==
  /\ counter' = [counter EXCEPT ![c] = @ - 1]
  /\ Goto(t, IF counter[c] <= 2 THEN "post" ELSE next)

\* Mutant: taken for what the subtraction leaves, the old value is compared with 0.
CompletedLeftMutant(t, c, next) ==
  /\ counter' = [counter EXCEPT ![c] = @ - 1]
  /\ Goto(t, IF counter[c] = 0 THEN "post" ELSE next)

\* completed_many_task_ans of one task, up to the test
Completed(t, c, next) ==
  /\ counter' = [counter EXCEPT ![c] = @ - 1]
  /\ Goto(t, IF counter[c] = 1 THEN "post" ELSE next)

\* task.func(task.args): the work, then completed_task_ans
Run(w) ==
  /\ pc[w] = "got" /\ task[w] # Poison
  /\ ran' = [ran EXCEPT ![task[w]] = @ + 1]
  /\ Completed(w, task[w][1], "scan")
  /\ i' = [i EXCEPT ![w] = w]
  /\ UNCHANGED <<len_thr, index, ring, mtx, first, task, round, nth, sem, failed>>

\* sempost, by a worker or by a caller that has run the task itself
Post(t) ==
  /\ pc[t] = "post"
  /\ sem' = [sem EXCEPT ![task[t][1]] = @ + 1]
  /\ Goto(t, IF t \in Caller THEN "fill" ELSE "scan")
  /\ UNCHANGED <<len_thr, index, ring, mtx, locals, round, nth, counter, ran, failed>>

\* The first to find the poison passes it on and ends.
PassOn(w) == pc[w] = "got" /\ task[w] = Poison /\ StartPush(w, Poison) /\ UNCHANGED nth

\* A worker may come out of pthread_cond_wait unasked.
SpuriousWake(w) ==
  /\ pc[w] = "asleep" /\ Goto(w, "pop")
  /\ UNCHANGED <<len_thr, index, ring, mtx, locals, jobs, failed>>

WorkerSteps(w) ==
  \/ TryPop(w) \/ SkipLocked(w) \/ PeekUnlock(w)
  \/ PopLock(w) \/ PopWait(w) \/ Pop(w) \/ PopUnlock(w)
  \/ Run(w) \/ Post(w) \/ PassOn(w)
  \/ PushSteps(w)

-----------------------------------------------------------------------------
(* The callers, and the end                                                *)

\* init_task_ans
InitAns(c) ==
  /\ pc[c] = "start" /\ round[c] <= Rounds
  /\ counter' = [counter EXCEPT ![c] = Batch] /\ sem' = [sem EXCEPT ![c] = 0]
  /\ Goto(c, "fill")
  /\ UNCHANGED <<len_thr, index, ring, mtx, locals, round, nth, ran, failed>>

\* The next task is pushed or, in a pool without workers, run on the spot.
PushNext(c) ==
  /\ pc[c] = "fill" /\ nth[c] <= Batch /\ len_thr > 0
  /\ StartPush(c, <<c, round[c], nth[c]>>)
  /\ nth' = [nth EXCEPT ![c] = @ + 1]

RunInline(c) ==
  /\ pc[c] = "fill" /\ nth[c] <= Batch /\ len_thr = 0
  /\ ran' = [ran EXCEPT ![<<c, round[c], nth[c]>>] = @ + 1]
  /\ task' = [task EXCEPT ![c] = <<c, round[c], nth[c]>>]
  /\ Completed(c, c, "fill")
  /\ nth' = [nth EXCEPT ![c] = @ + 1]
  /\ UNCHANGED <<len_thr, index, ring, mtx, i, first, round, sem, failed>>

\* join_task_ans
Join(c) ==
  /\ pc[c] = "fill" /\ nth[c] > Batch /\ sem[c] > 0
  /\ sem' = [sem EXCEPT ![c] = @ - 1]
  /\ round' = [round EXCEPT ![c] = @ + 1] /\ nth' = [nth EXCEPT ![c] = 1]
  /\ Goto(c, "start")
  /\ UNCHANGED <<len_thr, index, ring, mtx, locals, counter, ran, failed>>

CallerSteps(c) == InitAns(c) \/ PushNext(c) \/ RunInline(c) \/ Post(c) \/ Join(c) \/ PushSteps(c)

\* abortTpool, once the callers have what they waited for
Abort ==
  /\ pc[Main] = "start" /\ \A c \in Caller : round[c] > Rounds
  /\ \/ len_thr > 0 /\ StartPush(Main, Poison)
     \/ /\ len_thr = 0 /\ Goto(Main, "join")
        /\ UNCHANGED <<len_thr, index, ring, mtx, locals, round, answer, ran, failed>>
  /\ UNCHANGED nth

\* The pthread_joins
Joined ==
  /\ pc[Main] = "join" /\ \A w \in Worker : pc[w] = "exited"
  /\ Goto(Main, "returned")
  /\ UNCHANGED <<len_thr, index, ring, mtx, locals, jobs, failed>>

MainSteps == Abort \/ Joined \/ PushSteps(Main)

-----------------------------------------------------------------------------

Step(t) == ~failed /\ IF t \in Worker THEN WorkerSteps(t)
                      ELSE IF t \in Caller THEN CallerSteps(t) ELSE MainSteps

Next == (\E t \in Thread : Step(t)) \/ (~failed /\ \E w \in Worker : SpuriousWake(w))

Spec == Init /\ [][Next]_vars

AnyThread == UNION {0..(n - 1) : n \in Workers \ {0}} \cup Caller \cup {Main}

\* The scheduler runs every thread that does not wait, and waits do not end
\* unasked for ever.  No fairness of the mutexes is assumed.
FairSpec == /\ Spec
            /\ \A t \in AnyThread : WF_vars(t \in Thread /\ Step(t))
            /\ <>[][\A w \in Worker : ~SpuriousWake(w)]_vars

-----------------------------------------------------------------------------
(* Properties                                                              *)

\* Where t lies in the queues: the queue, and the place counted from the tail
Queued(t) ==
  {p \in UNION {{k} \X (0..(Size(ring[k]) - 1)) : k \in Worker} :
     At(ring[p[1]], ring[p[1]].tail + p[2]) = t}

InHand(t) == {u \in Thread : task[u] = t /\ pc[u] \in {"push", "popped", "got"}}

\* A task that has been given to pushTpool is in exactly one place: with the
\* thread that pushes it, in one queue, with the worker that took it out,
\* stolen or not, or it has been run; a ring that grows loses none of its
\* tasks and repeats none.
TasksAccounted ==
  \A c \in Caller, r \in 1..Rounds, n \in 1..Batch :
    LET t == <<c, r, n>>
    IN  ran[t] + Cardinality(Queued(t)) + Cardinality(InHand(t)) =
          (IF r < round[c] \/ (r = round[c] /\ n < nth[c]) THEN 1 ELSE 0)

\* join_task_ans returns only when every task of the answer has been run, and
\* nobody still has to post to it.
JoinWaits ==
  \A c \in Caller :
    /\ \A r \in 1..(round[c] - 1), n \in 1..Batch : ran[<<c, r, n>>] = 1
    /\ pc[c] = "start" => /\ sem[c] = 0 /\ counter[c] = 0
                          /\ \A u \in Thread : pc[u] = "post" => task[u][1] # c

\* Every caller gets all of its answers: no task waits in a queue while its
\* owner sleeps and everyone else has passed it over.
AllAnswered == <>(\A c \in Caller : round[c] > Rounds)

\* "Abort tpool, stop all threads and return" (thread-pool.h)
AbortReturns == pc[Main] # "start" ~> (pc[Main] = "returned" \/ failed)

\* push_not_q's DevAssert(t.func != NULL)
NeverAsserts == ~failed
=============================================================================
