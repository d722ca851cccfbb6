-------------------------- MODULE ThreadPoolProofs ---------------------------
(***************************************************************************)
(* Proofs about ThreadPool for every number of workers, callers, answers   *)
(* and tasks per answer, and every initial size of the rings: a task that  *)
(* is given to the pool is in one place until it is run, and is run once   *)
(* (TasksAccounted); an answer is complete when its caller goes on         *)
(* (JoinWaits).                                                            *)
(***************************************************************************)
EXTENDS ThreadPool, FiniteSetTheorems, TLAPS

-----------------------------------------------------------------------------
(* The ring                                                                *)

Held == Task \cup {Poison}

\* The j-th task from the tail
Slot(r, j) == At(r, r.tail + j)

IsRing(r) ==
  /\ r = [cap |-> r.cap, head |-> r.head, tail |-> r.tail, array |-> r.array]
  /\ r.cap \in Nat \ {0} /\ r.head \in Nat /\ r.tail \in Nat
  /\ r.tail <= r.head /\ r.head - r.tail < r.cap
  /\ r.array = [k \in 0..(r.cap - 1) |-> r.array[k]]

\* Two numbers less than a modulus apart are at different places of the ring.
LEMMA ModApart ==
  ASSUME NEW m \in Nat \ {0}, NEW a \in Nat, NEW b \in Nat, a < b, b - a < m
  PROVE  a % m # b % m
<1> SUFFICES ASSUME a % m = b % m PROVE FALSE
  BY Zenon
<1> DEFINE x == a \div m
           y == b \div m
           z == a % m
<1>1. /\ x \in Int /\ y \in Int /\ z \in Int /\ z >= 0 /\ z < m
      /\ a = m * x + z /\ b = m * y + z
  OBVIOUS
<1> HIDE DEF x, y, z
<1>2. CASE y <= x
  <2>1. m * y <= m * x
    BY <1>1, <1>2
  <2> QED BY <1>1, <2>1
<1>3. CASE y >= x + 1
  <2>1. m * y >= m * (x + 1)
    BY <1>1, <1>3
  <2>2. m * (x + 1) = m * x + m
    BY <1>1
  <2>3. m * x \in Int /\ m * y \in Int
    BY <1>1
  <2> HIDE <1>2
  <2> QED BY <1>1, <2>1, <2>2, <2>3
<1> QED BY <1>1, <1>2, <1>3

\* The place of a number is one of the array's.
LEMMA ModIn ==
  ASSUME NEW m \in Nat \ {0}, NEW a \in Nat
  PROVE  a % m \in 0..(m - 1)
OBVIOUS

\* A number below the modulus is its own place.
LEMMA ModSmall ==
  ASSUME NEW m \in Nat \ {0}, NEW a \in Nat, a < m
  PROVE  a % m = a
OBVIOUS

\* enlarge_buffer keeps the tasks and their order, and makes room.
LEMMA EnlargeKeeps ==
  ASSUME NEW r, IsRing(r), Full(r)
  PROVE  /\ IsRing(Enlarge(r)) /\ Size(Enlarge(r)) = Size(r) /\ ~Full(Enlarge(r))
         /\ Size(Enlarge(r)) < Enlarge(r).cap - 1
         /\ \A j \in 0..(Size(r) - 1) : Slot(Enlarge(r), j) = Slot(r, j)
<1> DEFINE q == Enlarge(r)
<1>1. r.cap \in Nat \ {0} /\ r.head \in Nat /\ r.tail \in Nat /\ r.head - r.tail = r.cap - 1
  BY Zenon DEF IsRing, Full, Size
<1>2. /\ q.cap = 2 * r.cap /\ q.tail = 0 /\ q.head = r.cap - 1
      /\ q.array = [k \in 0..(2 * r.cap - 1) |-> IF k < r.cap - 1 THEN At(r, r.tail + k) ELSE None]
      /\ q = [cap |-> q.cap, head |-> q.head, tail |-> q.tail, array |-> q.array]
  BY Zenon DEF Enlarge
<1> HIDE DEF q
<1>3. q.array = [k \in 0..(q.cap - 1) |-> q.array[k]]
  BY Zenon, <1>2
<1>4. IsRing(q)
  BY <1>1, <1>2, <1>3 DEF IsRing
<1>5. Size(q) = Size(r) /\ ~Full(q) /\ Size(q) < q.cap - 1
  BY <1>1, <1>2 DEF Size, Full
<1>6. ASSUME NEW j \in 0..(Size(r) - 1)
      PROVE  Slot(q, j) = Slot(r, j)
  <2>1. j \in Nat /\ j < r.cap - 1 /\ j < 2 * r.cap
    BY <1>1 DEF Size
  <2>2. j % (2 * r.cap) = j
    BY <1>1, <2>1, ModSmall
  <2>3. q.tail + j = j
    BY <1>2, <2>1
  <2>4. Slot(q, j) = q.array[j]
    BY Zenon, <1>2, <2>2, <2>3 DEF Slot, At
  <2>5. j \in 0..(2 * r.cap - 1)
    BY <1>1, <2>1
  <2> QED BY Zenon, <1>2, <2>1, <2>4, <2>5 DEF Slot
<1> QED BY Zenon, <1>4, <1>5, <1>6 DEF q

\* A task put in a ring with room is behind the others.
LEMMA RoomPush ==
  ASSUME NEW r, NEW t, IsRing(r), r.head - r.tail < r.cap - 1
  PROVE  LET q == [cap |-> r.cap, tail |-> r.tail, head |-> r.head + 1,
                  array |-> [r.array EXCEPT ![r.head % r.cap] = t]]
         IN  /\ IsRing(q) /\ Size(q) = Size(r) + 1
             /\ \A j \in 0..(Size(r) - 1) : Slot(q, j) = Slot(r, j)
             /\ Slot(q, Size(r)) = t
<1> DEFINE q == [cap |-> r.cap, tail |-> r.tail, head |-> r.head + 1,
                  array |-> [r.array EXCEPT ![r.head % r.cap] = t]]
           h == r.head % r.cap
<1>1. /\ r.cap \in Nat \ {0} /\ r.head \in Nat /\ r.tail \in Nat
      /\ r.tail <= r.head /\ r.head - r.tail < r.cap - 1
      /\ r.array = [k \in 0..(r.cap - 1) |-> r.array[k]]
      /\ r = [cap |-> r.cap, head |-> r.head, tail |-> r.tail, array |-> r.array]
  BY Zenon DEF IsRing
<1>2. h \in 0..(r.cap - 1)
  BY Zenon, <1>1, ModIn
<1>4. /\ q.cap = r.cap /\ q.head = r.head + 1 /\ q.tail = r.tail
      /\ q.array = [k \in 0..(r.cap - 1) |-> IF k = h THEN t ELSE r.array[k]]
      /\ q = [cap |-> q.cap, head |-> q.head, tail |-> q.tail, array |-> q.array]
  BY Zenon, <1>1
<1> HIDE DEF q, h
<1>5. q.array = [k \in 0..(q.cap - 1) |-> q.array[k]]
  BY Zenon, <1>4
<1>6. IsRing(q)
  BY <1>1, <1>4, <1>5 DEF IsRing
<1>7. Size(q) = Size(r) + 1
  BY <1>1, <1>4 DEF Size
<1>8. ASSUME NEW j \in 0..(Size(r) - 1)
      PROVE  Slot(q, j) = Slot(r, j)
  <2>1. r.tail + j \in Nat /\ r.tail + j < r.head /\ r.head - (r.tail + j) < r.cap
    BY <1>1 DEF Size
  <2>2. (r.tail + j) % r.cap # h
    BY Zenon, <1>1, <2>1, ModApart DEF h
  <2>3. (r.tail + j) % r.cap \in 0..(r.cap - 1)
    BY Zenon, <1>1, <2>1, ModIn
  <2> QED BY <1>4, <2>2, <2>3 DEF Slot, At
<1>9. Slot(q, Size(r)) = t
  <2>1. r.tail + Size(r) = r.head
    BY <1>1 DEF Size
  <2> QED BY Zenon, <1>2, <1>4, <2>1 DEF Slot, At, h
<1> QED BY Zenon, <1>6, <1>7, <1>8, <1>9 DEF q

\* A push puts the task behind the others, whether the ring has to grow or not.
LEMMA PushBackIs ==
  ASSUME NEW r, NEW t, IsRing(r)
  PROVE  /\ IsRing(PushBack(r, t)) /\ Size(PushBack(r, t)) = Size(r) + 1
         /\ \A j \in 0..(Size(r) - 1) : Slot(PushBack(r, t), j) = Slot(r, j)
         /\ Slot(PushBack(r, t), Size(r)) = t
<1>1. CASE Full(r)
  <2> DEFINE s == Enlarge(r)
  <2>1. /\ IsRing(s) /\ Size(s) = Size(r) /\ s.head - s.tail < s.cap - 1
        /\ \A j \in 0..(Size(r) - 1) : Slot(s, j) = Slot(r, j)
    BY Zenon, <1>1, EnlargeKeeps DEF Size
  <2>2. PushBack(r, t) = [cap |-> s.cap, tail |-> s.tail, head |-> s.head + 1,
                  array |-> [s.array EXCEPT ![s.head % s.cap] = t]]
    BY Zenon, <1>1 DEF PushBack
  <2> HIDE DEF s
  <2>3. LET q == [cap |-> s.cap, tail |-> s.tail, head |-> s.head + 1,
                  array |-> [s.array EXCEPT ![s.head % s.cap] = t]]
        IN  /\ IsRing(q) /\ Size(q) = Size(s) + 1
            /\ \A j \in 0..(Size(s) - 1) : Slot(q, j) = Slot(s, j)
            /\ Slot(q, Size(s)) = t
    BY Zenon, <2>1, RoomPush
  <2> QED BY Zenon, <2>1, <2>2, <2>3
<1>2. CASE ~Full(r)
  <2>1. r.head - r.tail < r.cap - 1
    BY <1>2 DEF Full, Size, IsRing
  <2>2. PushBack(r, t) = [cap |-> r.cap, tail |-> r.tail, head |-> r.head + 1,
                  array |-> [r.array EXCEPT ![r.head % r.cap] = t]]
    BY Zenon, <1>2 DEF PushBack
  <2>3. LET q == [cap |-> r.cap, tail |-> r.tail, head |-> r.head + 1,
                  array |-> [r.array EXCEPT ![r.head % r.cap] = t]]
        IN  /\ IsRing(q) /\ Size(q) = Size(r) + 1
            /\ \A j \in 0..(Size(r) - 1) : Slot(q, j) = Slot(r, j)
            /\ Slot(q, Size(r)) = t
    BY Zenon, <2>1, RoomPush
  <2> QED BY Zenon, <2>2, <2>3
<1> QED BY Zenon, <1>1, <1>2

\* A pop takes the first task, and the others come one place nearer.
LEMMA PopIs ==
  ASSUME NEW r, IsRing(r), Size(r) > 0
  PROVE  LET q == [r EXCEPT !.tail = @ + 1]
         IN  /\ IsRing(q) /\ Size(q) = Size(r) - 1
             /\ \A j \in 0..(Size(q) - 1) : Slot(q, j) = Slot(r, j + 1)
             /\ At(r, r.tail) = Slot(r, 0)
<1> DEFINE q == [r EXCEPT !.tail = @ + 1]
<1>1. /\ r.cap \in Nat \ {0} /\ r.head \in Nat /\ r.tail \in Nat
      /\ r.tail < r.head /\ r.head - r.tail < r.cap
      /\ r.array = [k \in 0..(r.cap - 1) |-> r.array[k]]
      /\ r = [cap |-> r.cap, head |-> r.head, tail |-> r.tail, array |-> r.array]
  BY DEF IsRing, Size
<1>2. q = [cap |-> r.cap, head |-> r.head, tail |-> r.tail + 1, array |-> r.array]
  <2> DEFINE a == r.cap
             b == r.head
             c == r.tail
             d == r.array
  <2>1. r = [cap |-> a, head |-> b, tail |-> c, array |-> d]
    BY Zenon, <1>1
  <2> HIDE DEF a, b, c, d
  <2>2. [r EXCEPT !.tail = @ + 1] = [cap |-> a, head |-> b, tail |-> c + 1, array |-> d]
    BY <2>1
  <2> QED BY Zenon, <2>2 DEF a, b, c, d
<1> HIDE DEF q
<1>3. /\ q.cap = r.cap /\ q.head = r.head /\ q.tail = r.tail + 1 /\ q.array = r.array
      /\ q = [cap |-> q.cap, head |-> q.head, tail |-> q.tail, array |-> q.array]
  BY Zenon, <1>2
<1>4. IsRing(q) /\ Size(q) = Size(r) - 1
  BY <1>1, <1>3 DEF IsRing, Size
<1>5. ASSUME NEW j \in 0..(Size(q) - 1)
      PROVE  Slot(q, j) = Slot(r, j + 1)
  <2>1. q.tail + j = r.tail + (j + 1)
    BY <1>1, <1>3, <1>4
  <2> QED BY Zenon, <1>3, <2>1 DEF Slot, At
<1>6. r.tail + 0 = r.tail
  BY <1>1
<1>7. At(r, r.tail) = Slot(r, 0)
  BY Zenon, <1>6 DEF Slot
<1> QED BY Zenon, <1>4, <1>5, <1>7 DEF q

-----------------------------------------------------------------------------
(* The inductive invariant                                                 *)

Holding == {"push", "popped", "got"}

TypeInv ==
  /\ len_thr \in Workers /\ index \in Nat
  /\ ring = [k \in Worker |-> ring[k]]
  /\ \A k \in Worker : IsRing(ring[k]) /\ \A j \in 0..(Size(ring[k]) - 1) : Slot(ring[k], j) \in Held
  /\ pc = [u \in Thread |-> pc[u]] /\ i \in [Thread -> Nat] /\ first \in [Thread -> Nat]
  /\ task = [u \in Thread |-> task[u]]
  /\ \A u \in Thread : /\ pc[u] \in Holding => task[u] \in Held
                       /\ pc[u] = "post" => task[u] \in Task
                       /\ pc[u] = "push" => len_thr > 0
  /\ round \in [Caller -> 1..(Rounds + 1)] /\ nth \in [Caller -> 1..(Batch + 1)]
  /\ \A c \in Caller : pc[c] # "start" => round[c] <= Rounds
  /\ counter \in [Caller -> Int] /\ sem \in [Caller -> Int]
  /\ ran \in [Task -> Nat]

\* t has been given to pushTpool, is in u's hands, is the j-th of queue k
Given(t) == t[2] < round[t[1]] \/ (t[2] = round[t[1]] /\ t[3] < nth[t[1]])
Holds(u, t) == pc[u] \in Holding /\ task[u] = t
Lies(k, j, t) == j < Size(ring[k]) /\ Slot(ring[k], j) = t

\* Every task that was given is in one place, and the others are in none.
OnePlace(t) ==
  /\ \A u, v \in Thread : Holds(u, t) /\ Holds(v, t) => u = v
  /\ \A k, l \in Worker, j, m \in Nat : Lies(k, j, t) /\ Lies(l, m, t) => k = l /\ j = m
  /\ \A u \in Thread, k \in Worker, j \in Nat : ~(Holds(u, t) /\ Lies(k, j, t))
  /\ ran[t] # 0 => /\ ran[t] = 1
                   /\ \A u \in Thread : ~Holds(u, t)
                   /\ \A k \in Worker, j \in Nat : ~Lies(k, j, t)
  /\ Given(t) <=> \/ ran[t] = 1
                  \/ \E u \in Thread : Holds(u, t)
                  \/ \E k \in Worker, j \in Nat : Lies(k, j, t)

\* The tasks of c's answer that have not been run; u is to post to it.
Open(c) == {n \in 1..Batch : ran[<<c, round[c], n>>] = 0}
Posts(u, c) == pc[u] = "post" /\ task[u][1] = c

\* The counter of an answer says how many of its tasks are still to be run;
\* once there is none, one thread has to post to it or one post is there.
Answered(c) ==
  /\ \A r \in 1..(round[c] - 1), n \in 1..Batch : ran[<<c, r, n>>] = 1
  /\ \A u, v \in Thread : Posts(u, c) /\ Posts(v, c) => u = v
  /\ pc[c] = "start" => /\ nth[c] = 1 /\ sem[c] = 0 /\ counter[c] = 0
                        /\ \A u \in Thread : ~Posts(u, c)
  /\ pc[c] # "start" => /\ counter[c] = Cardinality(Open(c))
                        /\ counter[c] # 0 => sem[c] = 0 /\ \A u \in Thread : ~Posts(u, c)
                        /\ counter[c] = 0 => sem[c] = (IF \E u \in Thread : Posts(u, c) THEN 0 ELSE 1)

PoolInv ==
  /\ TypeInv
  /\ \A t \in Task : OnePlace(t)
  /\ \A c \in Caller : Answered(c)

-----------------------------------------------------------------------------
(* Steps that move no task                                                 *)

\* No thread is two of a worker, a caller and Main.
LEMMA Apart ==
  ASSUME len_thr \in Workers
  PROVE  /\ len_thr \in Nat
         /\ \A w \in Worker : w \in Nat /\ w < len_thr /\ 0 < len_thr /\ w \notin Caller /\ w # Main
         /\ Main \notin Caller
         /\ Poison \notin Task /\ None \notin Task
<1>1. len_thr \in Nat /\ Main \notin Caller
  BY Zenon, PoolAssumption
<1>2. Poison \notin Task /\ None \notin Task
  BY Zenon, PoolAssumption DEF Task
<1>3. ASSUME NEW w \in Worker PROVE w \in Nat /\ w < len_thr /\ 0 < len_thr /\ w \notin Caller /\ w # Main
  <2>1. (Caller \cup {Main}) \cap (0..(len_thr - 1)) = {}
    BY Zenon, PoolAssumption
  <2> QED BY <1>1, <2>1 DEF Worker
<1> QED BY Zenon, <1>1, <1>2, <1>3

\* A task that a step leaves alone stays in its place.
LEMMA PlaceKept ==
  ASSUME NEW s \in Task, OnePlace(s), len_thr' = len_thr,
         \A u \in Thread : Holds(u, s)' <=> Holds(u, s),
         \A k \in Worker, j \in Nat : Lies(k, j, s)' <=> Lies(k, j, s),
         Given(s)' <=> Given(s), ran'[s] = ran[s]
  PROVE  OnePlace(s)'
<1>1. Thread' = Thread /\ Worker' = Worker
  BY Zenon DEF Thread, Worker
<1> QED BY <1>1 DEF OnePlace

Quiet ==
  /\ UNCHANGED <<len_thr, ring, round, nth, counter, sem, ran>>
  /\ index' \in Nat /\ pc' = [u \in Thread |-> pc'[u]]
  /\ i' \in [Thread -> Nat] /\ first' \in [Thread -> Nat]
  /\ task' = [u \in Thread |-> task'[u]]
  /\ \A u \in Thread : /\ pc'[u] \in Holding => task'[u] \in Held
                       /\ pc'[u] = "push" => len_thr > 0
                       /\ \A t \in Task : Holds(u, t)' <=> Holds(u, t)
                       /\ pc'[u] = "post" <=> pc[u] = "post"
                       /\ pc[u] = "post" => task'[u] = task[u]
  /\ \A c \in Caller : pc'[c] = "start" <=> pc[c] = "start"

\* A step in which no task changes hands or place and no answer changes keeps
\* the invariant.
LEMMA QuietStep ==
  ASSUME PoolInv, Quiet
  PROVE  PoolInv'
<1>1. Worker' = Worker /\ Thread' = Thread
  BY Zenon DEF Quiet, Worker, Thread
<1>2. TypeInv'
  BY Zenon, <1>1 DEF PoolInv, TypeInv, Quiet, Held
<1>3. ASSUME NEW t \in Task PROVE OnePlace(t)'
  <2>1. \A u \in Thread : Holds(u, t)' <=> Holds(u, t)
    BY Zenon DEF Quiet
  <2>2. \A k, j : Lies(k, j, t)' <=> Lies(k, j, t)
    BY Zenon DEF Quiet, Lies
  <2>3. (Given(t)' <=> Given(t)) /\ ran'[t] = ran[t]
    BY Zenon DEF Quiet, Given
  <2> QED BY Zenon, <2>1, <2>2, <2>3, PlaceKept DEF PoolInv, Quiet
<1>4. ASSUME NEW c \in Caller PROVE Answered(c)'
  <2>1. \A u \in Thread : Posts(u, c)' <=> Posts(u, c)
    BY Zenon DEF Quiet, Posts
  <2>2. Open(c)' = Open(c)
    BY Zenon DEF Quiet, Open
  <2>3. Answered(c)
    BY Zenon DEF PoolInv
  <2>4. /\ pc'[c] = "start" <=> pc[c] = "start"
        /\ ran' = ran /\ round' = round /\ nth' = nth /\ counter' = counter /\ sem' = sem
    BY Zenon DEF Quiet
  <2> QED BY Zenon, <1>1, <2>1, <2>2, <2>3, <2>4 DEF Answered
<1> QED BY Zenon, <1>2, <1>3, <1>4 DEF PoolInv, Task

\* At the start the queues are empty and nothing is given.
LEMMA PoolInit ==
  ASSUME Init
  PROVE  PoolInv
<1>1. len_thr \in Workers /\ len_thr \in Nat
  BY Zenon, PoolAssumption DEF Init
<1>2. /\ IsRing(EmptyRing) /\ Size(EmptyRing) = 0
  BY PoolAssumption DEF EmptyRing, IsRing, Size
<1>3. \A k \in Worker : ring[k] = EmptyRing
  BY Zenon DEF Init
<1>4. TypeInv
  <2>1. \A k \in Worker : IsRing(ring[k]) /\ \A j \in 0..(Size(ring[k]) - 1) : Slot(ring[k], j) \in Held
    BY <1>2, <1>3
  <2>2. i \in [Thread -> Nat] /\ first \in [Thread -> Nat]
    BY Zenon, <1>1, Apart DEF Init
  <2>3. pc = [u \in Thread |-> pc[u]]
    BY Zenon DEF Init
  <2>7. task = [u \in Thread |-> task[u]] 
    BY Zenon DEF Init
  <2>8. ring = [k \in Worker |-> ring[k]]
    BY Zenon DEF Init
  <2>4. \A u \in Thread : pc[u] \in {"scan", "start"}
    BY Zenon DEF Init
  <2>5. /\ round \in [Caller -> 1..(Rounds + 1)] /\ nth \in [Caller -> 1..(Batch + 1)]
        /\ counter \in [Caller -> Int] /\ sem \in [Caller -> Int] /\ ran \in [Task -> Nat] /\ index \in Nat
    BY PoolAssumption DEF Init
  <2>6. \A c \in Caller : pc[c] = "start"
    BY Zenon, <1>1, Apart DEF Init, Thread
  <2> QED BY Zenon, <1>1, <2>1, <2>2, <2>3, <2>4, <2>5, <2>6, <2>7, <2>8 DEF TypeInv, Holding
<1>5. ASSUME NEW t \in Task PROVE OnePlace(t)
  <2>1. \A u \in Thread : ~Holds(u, t)
    BY Zenon DEF Init, Holds, Holding
  <2>2. \A k \in Worker, j \in Nat : ~Lies(k, j, t)
    BY <1>2, <1>3 DEF Lies
  <2>3. ran[t] = 0
    BY Zenon DEF Init
  <2>4. ~Given(t)
    <3>1. t[1] \in Caller /\ t[2] \in 1..Rounds /\ t[3] \in 1..Batch
      BY Zenon DEF Task
    <3> QED BY <3>1 DEF Given, Init
  <2> QED BY <2>1, <2>2, <2>3, <2>4 DEF OnePlace
<1>6. ASSUME NEW c \in Caller PROVE Answered(c)
  <2>1. pc[c] = "start" /\ nth[c] = 1 /\ sem[c] = 0 /\ counter[c] = 0 /\ round[c] = 1
    BY Zenon, <1>1, Apart DEF Init, Thread
  <2>2. \A u \in Thread : ~Posts(u, c)
    BY Zenon DEF Init, Posts
  <2> QED BY <2>1, <2>2 DEF Answered
<1> QED BY Zenon, <1>4, <1>5, <1>6 DEF PoolInv

\* A thread goes on, and neither takes a task, parts with one, nor posts.
LEMMA GotoQuiet ==
  ASSUME PoolInv, NEW t \in Thread, NEW x,
         pc' = [pc EXCEPT ![t] = x], task' = task,
         UNCHANGED <<len_thr, ring, round, nth, counter, sem, ran>>,
         index' \in Nat, i' \in [Thread -> Nat], first' \in [Thread -> Nat],
         x # "push", x # "post", pc[t] # "post",
         x \in Holding <=> pc[t] \in Holding,
         t \in Caller => x # "start" /\ pc[t] # "start"
  PROVE  PoolInv'
<1>1. TypeInv
  BY Zenon DEF PoolInv
<1>2. \A u \in Thread : pc'[u] = IF u = t THEN x ELSE pc[u]
  BY Zenon, <1>1 DEF TypeInv
<1>3. \A u \in Thread : /\ pc'[u] \in Holding <=> pc[u] \in Holding
                        /\ pc'[u] = "push" => pc[u] = "push"
                        /\ pc'[u] = "post" <=> pc[u] = "post"
  BY Zenon, <1>2
<1>4. \A c \in Caller : pc'[c] = "start" <=> pc[c] = "start"
  BY Zenon, <1>2 DEF Thread
<1>5. pc' = [u \in Thread |-> pc'[u]]
  BY Zenon, <1>1 DEF TypeInv
<1>6. \A u \in Thread, s \in Task : Holds(u, s)' <=> Holds(u, s)
  BY Zenon, <1>3 DEF Holds
<1>7. Quiet
  BY Zenon, <1>1, <1>3, <1>4, <1>5, <1>6 DEF Quiet, TypeInv
<1> QED BY Zenon, <1>7, QuietStep

\* Neither the places of the threads nor their tasks change.
LEMMA StayQuiet ==
  ASSUME PoolInv, UNCHANGED <<len_thr, ring, pc, task, round, nth, counter, sem, ran>>,
         index' \in Nat, i' \in [Thread -> Nat], first' \in [Thread -> Nat]
  PROVE  PoolInv'
<1>1. \A u \in Thread, s \in Task : Holds(u, s)' <=> Holds(u, s)
  BY Zenon DEF Holds
<1>2. Quiet
  BY Zenon, <1>1 DEF Quiet, PoolInv, TypeInv
<1> QED BY Zenon, <1>2, QuietStep

\* Passing over a locked queue, the assertion, and unlocking after a push
LEMMA PassOverStep ==
  ASSUME PoolInv, NEW t \in Thread, PassOver(t) \/ PushAsserts(t) \/ PushUnlock(t)
  PROVE  PoolInv'
<1>1. TypeInv
  BY Zenon DEF PoolInv
<1>2. CASE PassOver(t)
  <2>1. i' \in [Thread -> Nat] /\ index' \in Nat /\ first' \in [Thread -> Nat]
    BY <1>1, <1>2 DEF PassOver, TypeInv
  <2> QED BY Zenon, <1>2, <2>1, StayQuiet DEF PassOver, jobs, answer
<1>3. CASE PushAsserts(t)
  <2>1. i' \in [Thread -> Nat] /\ index' \in Nat /\ first' \in [Thread -> Nat]
    BY Zenon, <1>1, <1>3 DEF PushAsserts, TypeInv, locals
  <2> QED BY Zenon, <1>3, <2>1, StayQuiet DEF PushAsserts, jobs, answer, locals
<1>4. CASE PushUnlock(t)
  <2>1. i' \in [Thread -> Nat] /\ index' \in Nat /\ first' \in [Thread -> Nat]
    BY Zenon, <1>1, <1>4 DEF PushUnlock, TypeInv, locals
  <2>2. /\ pc' = [pc EXCEPT ![t] = "signal"] /\ task' = task /\ pc[t] = "pushed"
        /\ UNCHANGED <<len_thr, ring, round, nth, counter, sem, ran>>
    BY Zenon, <1>4 DEF PushUnlock, jobs, answer, locals, Goto
  <2>3. "signal" \in Holding <=> pc[t] \in Holding
    BY Zenon, <2>2 DEF Holding
  <2> QED BY Zenon, <2>1, <2>2, <2>3, GotoQuiet
<1> QED BY Zenon, <1>2, <1>3, <1>4

\* A signal wakes at most the owner of the queue, which sleeps.
LEMMA SignalStep ==
  ASSUME PoolInv, NEW t \in Thread, Signal(t)
  PROVE  PoolInv'
<1>1. TypeInv
  BY Zenon DEF PoolInv
<1>2. /\ pc[t] = "signal"
      /\ pc' = [u \in Thread |-> IF u = t THEN After(t)
                             ELSE IF u = Target(t) /\ pc[u] = "asleep" THEN "pop" ELSE pc[u]]
      /\ task' = [task EXCEPT ![t] = None]
      /\ UNCHANGED <<len_thr, ring, round, nth, counter, sem, ran, index, i, first>>
  BY Zenon DEF Signal, jobs, answer
<1>3. After(t) \in {"fill", "join", "exited"}
  BY Zenon DEF After
<1>4. \A u \in Thread : /\ pc'[u] = pc[u] \/ (u = t /\ pc'[u] \in {"fill", "join", "exited"})
                                          \/ (pc[u] = "asleep" /\ pc'[u] = "pop")
                        /\ u # t => task'[u] = task[u]
  BY Zenon, <1>1, <1>2, <1>3 DEF TypeInv
<1>5. \A u \in Thread : /\ pc'[u] \in Holding <=> pc[u] \in Holding
                        /\ pc'[u] = "push" => pc[u] = "push"
                        /\ pc'[u] = "post" <=> pc[u] = "post"
                        /\ pc'[u] = "start" <=> pc[u] = "start"
                        /\ pc[u] \in Holding \cup {"post"} => task'[u] = task[u]
  <2> SUFFICES ASSUME NEW u \in Thread
               PROVE  /\ pc'[u] \in Holding <=> pc[u] \in Holding
                      /\ pc'[u] = "push" => pc[u] = "push"
                      /\ pc'[u] = "post" <=> pc[u] = "post"
                      /\ pc'[u] = "start" <=> pc[u] = "start"
                      /\ pc[u] \in Holding \cup {"post"} => task'[u] = task[u]
    BY Zenon
  <2>1. CASE u = t
    BY Zenon, <1>2, <1>3, <2>1 DEF Holding
  <2>2. CASE u # t
    BY Zenon, <1>2, <1>4, <2>2 DEF Holding
  <2> QED BY Zenon, <2>1, <2>2
<1>6. pc' = [u \in Thread |-> pc'[u]]
  BY Zenon, <1>2
<1>7. task' = [u \in Thread |-> task'[u]]
  BY Zenon, <1>1, <1>2 DEF TypeInv
<1>8. \A u \in Thread, s \in Task : Holds(u, s)' <=> Holds(u, s)
  BY Zenon, <1>5 DEF Holds
<1>9. index' \in Nat /\ i' \in [Thread -> Nat] /\ first' \in [Thread -> Nat]
  BY Zenon, <1>1, <1>2 DEF TypeInv
<1>10. \A u \in Thread : (pc'[u] \in Holding => task'[u] \in Held) /\ (pc'[u] = "push" => len_thr > 0)
  BY Zenon, <1>1, <1>5 DEF TypeInv
<1>11. \A c \in Caller : pc'[c] = "start" <=> pc[c] = "start"
  BY Zenon, <1>5 DEF Thread
<1>12. Quiet
  BY Zenon, <1>2, <1>5, <1>6, <1>7, <1>8, <1>9, <1>10, <1>11 DEF Quiet
<1> QED BY Zenon, <1>12, QuietStep

\* The poison is no task of a caller: who takes it up gives none.
LEMMA PoisonStep ==
  ASSUME PoolInv, NEW t \in Thread, StartPush(t, Poison), UNCHANGED nth, len_thr > 0, t \notin Caller,
         pc[t] # "post", pc[t] \in Holding => task[t] = Poison
  PROVE  PoolInv'
<1>1. TypeInv
  BY Zenon DEF PoolInv
<1>2. /\ pc' = [pc EXCEPT ![t] = "push"] /\ task' = [task EXCEPT ![t] = Poison]
      /\ UNCHANGED <<len_thr, ring, round, nth, counter, sem, ran>>
      /\ index' = index + 1 /\ first' = [first EXCEPT ![t] = index] /\ i' = [i EXCEPT ![t] = 0]
  BY Zenon DEF StartPush, answer, Goto
<1>3. \A u \in Thread : /\ pc'[u] = IF u = t THEN "push" ELSE pc[u]
                        /\ task'[u] = IF u = t THEN Poison ELSE task[u]
  BY Zenon, <1>1, <1>2 DEF TypeInv
<1>4. pc' = [u \in Thread |-> pc'[u]]
  BY Zenon, <1>1, <1>2 DEF TypeInv
<1>5. task' = [u \in Thread |-> task'[u]]
  BY Zenon, <1>1, <1>2 DEF TypeInv
<1>6. index' \in Nat /\ i' \in [Thread -> Nat] /\ first' \in [Thread -> Nat]
  BY <1>1, <1>2 DEF TypeInv
<1>7. \A u \in Thread, s \in Task : Holds(u, s)' <=> Holds(u, s)
  BY Zenon, <1>1, <1>3, Apart DEF Holds, Holding, TypeInv
<1>8. \A u \in Thread : /\ pc'[u] \in Holding => task'[u] \in Held
                        /\ pc'[u] = "push" => len_thr > 0
                        /\ pc'[u] = "post" <=> pc[u] = "post"
                        /\ pc[u] = "post" => task'[u] = task[u]
  BY Zenon, <1>1, <1>3 DEF TypeInv, Held
<1>9. \A c \in Caller : pc'[c] = "start" <=> pc[c] = "start"
  BY Zenon, <1>3 DEF Thread
<1>10. Quiet
  BY Zenon, <1>2, <1>4, <1>5, <1>6, <1>7, <1>8, <1>9 DEF Quiet
<1> QED BY Zenon, <1>10, QuietStep

\* Main aborts, and joins the workers.
LEMMA MainStep ==
  ASSUME PoolInv, Abort \/ Joined
  PROVE  PoolInv'
<1>1. TypeInv /\ Main \in Thread /\ Main \notin Caller
  BY Zenon, Apart DEF PoolInv, TypeInv, Thread
<1>2. CASE Abort
  <2>1. CASE len_thr > 0 /\ StartPush(Main, Poison)
    BY Zenon, <1>1, <1>2, <2>1, PoisonStep DEF Abort, Holding
  <2>2. CASE len_thr = 0 /\ Goto(Main, "join") /\ UNCHANGED <<len_thr, index, ring, mtx, locals, round, answer, ran, failed>>
    <3>1. i' \in [Thread -> Nat] /\ index' \in Nat /\ first' \in [Thread -> Nat]
      BY Zenon, <1>1, <2>2 DEF TypeInv, locals
    <3>2. /\ pc' = [pc EXCEPT ![Main] = "join"] /\ task' = task /\ pc[Main] = "start"
          /\ UNCHANGED <<len_thr, ring, round, nth, counter, sem, ran>>
      BY Zenon, <1>2, <2>2 DEF Abort, answer, locals, Goto
    <3>3. "join" \in Holding <=> pc[Main] \in Holding
      BY Zenon, <3>2 DEF Holding
    <3> QED BY Zenon, <1>1, <3>1, <3>2, <3>3, GotoQuiet
  <2> QED BY Zenon, <1>2, <2>1, <2>2 DEF Abort
<1>3. CASE Joined
  <2>1. i' \in [Thread -> Nat] /\ index' \in Nat /\ first' \in [Thread -> Nat]
    BY Zenon, <1>1, <1>3 DEF TypeInv, locals, Joined
  <2>2. /\ pc' = [pc EXCEPT ![Main] = "returned"] /\ task' = task /\ pc[Main] = "join"
        /\ UNCHANGED <<len_thr, ring, round, nth, counter, sem, ran>>
    BY Zenon, <1>3 DEF Joined, answer, jobs, locals, Goto
  <2>3. "returned" \in Holding <=> pc[Main] \in Holding
    BY Zenon, <2>2 DEF Holding
  <2> QED BY Zenon, <1>1, <2>1, <2>2, <2>3, GotoQuiet
<1> QED BY Zenon, <1>2, <1>3

\* What a worker does without a task in its hands, and unlocking after a pop
LEMMA WorkerQuiet ==
  ASSUME PoolInv, NEW w \in Worker,
         \/ SkipLocked(w) \/ PeekUnlock(w) \/ PopLock(w) \/ PopWait(w)
         \/ PopUnlock(w) \/ SpuriousWake(w) \/ PassOn(w)
  PROVE  PoolInv'
<1>1. TypeInv /\ w \in Thread /\ w \notin Caller /\ w \in Nat /\ len_thr > 0
  BY Zenon, Apart DEF PoolInv, TypeInv, Thread
<1>2. CASE SkipLocked(w)
  <2>1. i' \in [Thread -> Nat] /\ index' \in Nat /\ first' \in [Thread -> Nat]
    BY <1>1, <1>2 DEF SkipLocked, TypeInv
  <2> QED BY Zenon, <1>2, <2>1, StayQuiet DEF SkipLocked, jobs, answer
<1>3. ASSUME PeekUnlock(w) \/ PopLock(w) \/ PopWait(w) \/ PopUnlock(w) \/ SpuriousWake(w) PROVE PoolInv'
  <2>1. i' \in [Thread -> Nat] /\ index' \in Nat /\ first' \in [Thread -> Nat]
    BY <1>1, <1>3 DEF TypeInv, locals, PeekUnlock, PopLock, PopWait, PopUnlock, SpuriousWake
  <2>2. task' = task /\ UNCHANGED <<len_thr, ring, round, nth, counter, sem, ran>>
    BY Zenon, <1>3 DEF locals, jobs, answer, PeekUnlock, PopLock, PopWait, PopUnlock, SpuriousWake
  <2>3. PICK x : /\ pc' = [pc EXCEPT ![w] = x]
                 /\ \/ pc[w] = "popped" /\ x = "got"
                    \/ pc[w] \in {"scan", "peeked", "pop", "locked", "asleep"} /\ x \in {"scan", "locked", "asleep", "pop"}
    BY Zenon, <1>3 DEF Goto, PeekUnlock, PopLock, PopWait, PopUnlock, SpuriousWake
  <2>4. /\ x # "push" /\ x # "post" /\ pc[w] # "post" /\ (x \in Holding <=> pc[w] \in Holding)
    BY Zenon, <2>3 DEF Holding
  <2> QED BY ZenonT(60), <1>1, <2>1, <2>2, <2>3, <2>4, GotoQuiet
<1>4. CASE PassOn(w)
  BY Zenon, <1>1, <1>4, PoisonStep DEF PassOn
<1> QED BY Zenon, <1>2, <1>3, <1>4

-----------------------------------------------------------------------------
(* Steps in which a task changes place                                     *)

\* What a step leaves alone of an answer
SameAnswer(c) ==
  /\ len_thr' = len_thr
  /\ \A r \in 1..Rounds, n \in 1..Batch : ran'[<<c, r, n>>] = ran[<<c, r, n>>]
  /\ round'[c] = round[c] /\ nth'[c] = nth[c] /\ counter'[c] = counter[c] /\ sem'[c] = sem[c]
  /\ pc'[c] = "start" <=> pc[c] = "start"
  /\ \A u \in Thread : Posts(u, c)' <=> Posts(u, c)

\* An answer that a step leaves alone stays right.
LEMMA AnsweredKept ==
  ASSUME NEW c \in Caller, TypeInv, Answered(c), SameAnswer(c)
  PROVE  Answered(c)'
<1>1. Thread' = Thread
  BY Zenon DEF SameAnswer, Thread, Worker
<1>2. round[c] \in 1..(Rounds + 1) /\ (pc[c] # "start" => round[c] \in 1..Rounds)
  BY PoolAssumption DEF TypeInv
<1>3. pc[c] # "start" => Open(c)' = Open(c)
  BY Zenon, <1>2 DEF SameAnswer, Open
<1>4. \A r \in 1..(round[c] - 1), n \in 1..Batch : ran'[<<c, r, n>>] = 1
  <2>1. \A r \in 1..(round[c] - 1) : r \in 1..Rounds
    BY <1>2, PoolAssumption
  <2> QED BY Zenon, <2>1 DEF SameAnswer, Answered
<1> QED BY Zenon, <1>1, <1>3, <1>4 DEF SameAnswer, Answered

\* The task goes from the thread that pushes it to the end of a queue.
LEMMA PutInStep ==
  ASSUME PoolInv, NEW t \in Thread, NEW k \in Worker, pc[t] = "push", PutIn(t, k)
  PROVE  PoolInv'
<1>1. TypeInv /\ Worker' = Worker /\ Thread' = Thread
  BY Zenon DEF PoolInv, PutIn, Worker, Thread
<1> DEFINE q == PushBack(ring[k], task[t])
<1>2. /\ pc' = [pc EXCEPT ![t] = "pushed"] /\ ring' = [ring EXCEPT ![k] = q]
      /\ UNCHANGED <<len_thr, index, i, first, task, round, nth, counter, sem, ran>>
  BY Zenon DEF PutIn, Goto, locals, jobs, answer
<1>3. IsRing(ring[k]) /\ task[t] \in Held /\ Size(ring[k]) \in Nat
  BY SMTT(30), <1>1 DEF TypeInv, Holding, IsRing, Size
<1>4. /\ IsRing(q) /\ Size(q) = Size(ring[k]) + 1
      /\ \A j \in 0..(Size(ring[k]) - 1) : Slot(q, j) = Slot(ring[k], j)
      /\ Slot(q, Size(ring[k])) = task[t]
  BY Zenon, <1>3, PushBackIs
<1> HIDE DEF q
<1>5. \A l \in Worker : ring'[l] = IF l = k THEN q ELSE ring[l]
  BY Zenon, <1>1, <1>2 DEF TypeInv
<1>6. \A u \in Thread : pc'[u] = IF u = t THEN "pushed" ELSE pc[u]
  BY Zenon, <1>1, <1>2 DEF TypeInv
<1>7. TypeInv'
  <2>1. ASSUME NEW l \in Worker
        PROVE  IsRing(ring'[l]) /\ \A j \in 0..(Size(ring'[l]) - 1) : Slot(ring'[l], j) \in Held
    <3>1. CASE l # k
      BY Zenon, <1>1, <1>5, <3>1 DEF TypeInv
    <3>2. CASE l = k
      <4>1. ASSUME NEW j \in 0..(Size(q) - 1) PROVE Slot(q, j) \in Held
        <5>1. j \in 0..(Size(ring[k]) - 1) \/ j = Size(ring[k])
          BY <1>3, <1>4
        <5>2. \A m \in 0..(Size(ring[k]) - 1) : Slot(ring[k], m) \in Held
          BY Zenon, <1>1 DEF TypeInv
        <5> QED BY Zenon, <1>3, <1>4, <5>1, <5>2
      <4> QED BY Zenon, <1>4, <1>5, <3>2, <4>1
    <3> QED BY Zenon, <3>1, <3>2
  <2>2. ring' = [l \in Worker |-> ring'[l]]
    BY Zenon, <1>1, <1>2 DEF TypeInv
  <2>3. pc' = [u \in Thread |-> pc'[u]]
    BY Zenon, <1>1, <1>2 DEF TypeInv
  <2>4. \A u \in Thread : /\ pc'[u] \in Holding => task[u] \in Held
                          /\ pc'[u] = "post" => task[u] \in Task
                          /\ pc'[u] = "push" => len_thr > 0
    BY Zenon, <1>1, <1>6 DEF TypeInv, Holding
  <2>5. \A c \in Caller : pc'[c] # "start" => round[c] <= Rounds
    BY Zenon, <1>1, <1>6 DEF TypeInv, Thread
  <2>6. Held' = Held /\ Task' = Task
    BY Zenon DEF Held, Task
  <2> QED BY Zenon, <1>1, <1>2, <2>1, <2>2, <2>3, <2>4, <2>5, <2>6 DEF TypeInv
<1>8. ASSUME NEW s \in Task PROVE OnePlace(s)'
  <2>1. \A u \in Thread : Holds(u, s)' <=> Holds(u, s) /\ u # t
    BY <1>2, <1>6 DEF Holds, Holding
  <2>2. Holds(t, s) <=> task[t] = s
    BY Zenon DEF Holds, Holding
  <2>3. \A l \in Worker, j \in Nat :
          Lies(l, j, s)' <=> Lies(l, j, s) \/ (l = k /\ j = Size(ring[k]) /\ task[t] = s)
    <3> SUFFICES ASSUME NEW l \in Worker, NEW j \in Nat
                 PROVE  Lies(l, j, s)' <=> Lies(l, j, s) \/ (l = k /\ j = Size(ring[k]) /\ task[t] = s)
      BY Zenon
    <3>1. CASE l # k
      BY Zenon, <1>5, <3>1 DEF Lies
    <3>2. CASE l = k
      <4>1. Lies(l, j, s)' <=> j < Size(q) /\ Slot(q, j) = s
        BY Zenon, <1>5, <3>2 DEF Lies
      <4>2. CASE j < Size(ring[k])
        BY SMTT(30), <1>3, <1>4, <3>2, <4>1, <4>2 DEF Lies
      <4>3. CASE j = Size(ring[k])
        BY SMTT(30), <1>3, <1>4, <3>2, <4>1, <4>3 DEF Lies
      <4>4. CASE j > Size(ring[k])
        BY SMTT(30), <1>3, <1>4, <3>2, <4>1, <4>4 DEF Lies
      <4> QED BY <1>3, <4>2, <4>3, <4>4
    <3> QED BY Zenon, <3>1, <3>2
  <2>4. (Given(s)' <=> Given(s)) /\ ran' = ran
    BY Zenon, <1>2 DEF Given
  <2>5. OnePlace(s)
    BY Zenon DEF PoolInv
  <2>6. \A u, v \in Thread : Holds(u, s)' /\ Holds(v, s)' => u = v
    BY Zenon, <2>1, <2>5 DEF OnePlace
  <2>7. \A l, m \in Worker, j, n \in Nat : Lies(l, j, s)' /\ Lies(m, n, s)' => l = m /\ j = n
    BY SMTT(30), <2>2, <2>3, <2>5 DEF OnePlace
  <2>8. \A u \in Thread, l \in Worker, j \in Nat : ~(Holds(u, s)' /\ Lies(l, j, s)')
    BY SMTT(30), <2>1, <2>2, <2>3, <2>5 DEF OnePlace
  <2>9. ran[s] # 0 => /\ ran[s] = 1
                      /\ \A u \in Thread : ~Holds(u, s)'
                      /\ \A l \in Worker, j \in Nat : ~Lies(l, j, s)'
    BY Zenon, <2>1, <2>2, <2>3, <2>5 DEF OnePlace
  <2>10. Given(s) <=> \/ ran[s] = 1
                      \/ \E u \in Thread : Holds(u, s)'
                      \/ \E l \in Worker, j \in Nat : Lies(l, j, s)'
    BY Zenon, <1>3, <2>1, <2>2, <2>3, <2>5 DEF OnePlace
  <2> QED BY Zenon, <1>1, <2>4, <2>6, <2>7, <2>8, <2>9, <2>10 DEF OnePlace
<1>9. ASSUME NEW c \in Caller PROVE Answered(c)'
  <2>1. \A u \in Thread : Posts(u, c)' <=> Posts(u, c)
    BY <1>2, <1>6 DEF Posts
  <2>2. pc'[c] = "start" <=> pc[c] = "start"
    BY Zenon, <1>6 DEF Thread
  <2>3. SameAnswer(c)
    BY Zenon, <1>2, <2>1, <2>2 DEF SameAnswer
  <2> QED BY Zenon, <2>3, AnsweredKept DEF PoolInv
<1> QED BY Zenon, <1>7, <1>8, <1>9 DEF PoolInv, Task

\* The first task of a queue goes to the worker that takes it out.
LEMMA TakeOutStep ==
  ASSUME PoolInv, NEW w \in Worker, NEW k \in Worker, pc[w] \in {"scan", "locked"},
         Size(ring[k]) > 0, TakeOut(w, k),
         UNCHANGED <<len_thr, index, i, first, round, nth, counter, sem, ran>>
  PROVE  PoolInv'
<1>1. TypeInv /\ Worker' = Worker /\ Thread' = Thread /\ w \in Thread /\ w \notin Caller
  BY Zenon, Apart DEF PoolInv, TypeInv, Worker, Thread
<1> DEFINE q == [ring[k] EXCEPT !.tail = @ + 1]
           s0 == Slot(ring[k], 0)
<1>2. /\ pc' = [pc EXCEPT ![w] = "popped"] /\ task' = [task EXCEPT ![w] = At(ring[k], ring[k].tail)]
      /\ ring' = [ring EXCEPT ![k] = q]
  BY Zenon, <1>1 DEF TakeOut, Goto, TypeInv
<1>3. IsRing(ring[k]) /\ Size(ring[k]) \in Nat
  BY SMTT(30), <1>1 DEF TypeInv, IsRing, Size
<1>4. /\ IsRing(q) /\ Size(q) = Size(ring[k]) - 1
      /\ \A j \in 0..(Size(q) - 1) : Slot(q, j) = Slot(ring[k], j + 1)
      /\ At(ring[k], ring[k].tail) = s0
  BY Zenon, <1>3, PopIs
<1> HIDE DEF q, s0
<1>5. \A l \in Worker : ring'[l] = IF l = k THEN q ELSE ring[l]
  BY Zenon, <1>1, <1>2 DEF TypeInv
<1>6. \A u \in Thread : /\ pc'[u] = IF u = w THEN "popped" ELSE pc[u]
                        /\ task'[u] = IF u = w THEN s0 ELSE task[u]
  BY Zenon, <1>1, <1>2, <1>4 DEF TypeInv
<1>7. s0 \in Held
  BY <1>1, <1>3 DEF TypeInv, s0
<1>8. TypeInv'
  <2>1. ASSUME NEW l \in Worker
        PROVE  IsRing(ring'[l]) /\ \A j \in 0..(Size(ring'[l]) - 1) : Slot(ring'[l], j) \in Held
    <3>1. CASE l # k
      BY Zenon, <1>1, <1>5, <3>1 DEF TypeInv
    <3>2. CASE l = k
      <4>1. ASSUME NEW j \in 0..(Size(q) - 1) PROVE Slot(q, j) \in Held
        <5>1. j + 1 \in 0..(Size(ring[k]) - 1)
          BY <1>3, <1>4
        <5>2. \A m \in 0..(Size(ring[k]) - 1) : Slot(ring[k], m) \in Held
          BY Zenon, <1>1 DEF TypeInv
        <5> QED BY Zenon, <1>4, <5>1, <5>2
      <4> QED BY Zenon, <1>4, <1>5, <3>2, <4>1
    <3> QED BY Zenon, <3>1, <3>2
  <2>2. ring' = [l \in Worker |-> ring'[l]]
    BY Zenon, <1>1, <1>2 DEF TypeInv
  <2>3. pc' = [u \in Thread |-> pc'[u]]
    BY Zenon, <1>1, <1>2 DEF TypeInv
  <2>4. task' = [u \in Thread |-> task'[u]]
    BY Zenon, <1>1, <1>2 DEF TypeInv
  <2>5. \A u \in Thread : /\ pc'[u] \in Holding => task'[u] \in Held
                          /\ pc'[u] = "post" => task'[u] \in Task
                          /\ pc'[u] = "push" => len_thr > 0
    BY Zenon, <1>1, <1>6, <1>7 DEF TypeInv, Holding
  <2>6. \A c \in Caller : pc'[c] # "start" => round[c] <= Rounds
    BY Zenon, <1>1, <1>6 DEF TypeInv, Thread
  <2>7. Held' = Held /\ Task' = Task
    BY Zenon DEF Held, Task
  <2> QED BY Zenon, <1>1, <1>2, <2>1, <2>2, <2>3, <2>4, <2>5, <2>6, <2>7 DEF TypeInv
<1>9. ASSUME NEW s \in Task PROVE OnePlace(s)'
  <2>1. \A u \in Thread : Holds(u, s)' <=> Holds(u, s) \/ (u = w /\ s0 = s)
    BY Zenon, <1>6 DEF Holds, Holding
  <2>2. ~Holds(w, s)
    BY Zenon DEF Holds, Holding
  <2>3. \A l \in Worker, j \in Nat :
          Lies(l, j, s)' <=> (l # k /\ Lies(l, j, s)) \/ (l = k /\ Lies(l, j + 1, s))
    <3> SUFFICES ASSUME NEW l \in Worker, NEW j \in Nat
                 PROVE  Lies(l, j, s)' <=> (l # k /\ Lies(l, j, s)) \/ (l = k /\ Lies(l, j + 1, s))
      BY Zenon
    <3>1. CASE l # k
      BY Zenon, <1>5, <3>1 DEF Lies
    <3>2. CASE l = k
      <4>1. Lies(l, j, s)' <=> j < Size(q) /\ Slot(q, j) = s
        BY Zenon, <1>5, <3>2 DEF Lies
      <4>2. CASE j < Size(q)
        BY SMTT(30), <1>3, <1>4, <3>2, <4>1, <4>2 DEF Lies
      <4>3. CASE ~(j < Size(q))
        BY <1>3, <1>4, <3>2, <4>1, <4>3 DEF Lies
      <4> QED BY Zenon, <4>2, <4>3
    <3> QED BY Zenon, <3>1, <3>2
  <2>4. Lies(k, 0, s) <=> s0 = s
    BY Zenon, <1>3 DEF Lies, s0
  <2>5. (Given(s)' <=> Given(s)) /\ ran' = ran
    BY Zenon DEF Given
  <2>6. OnePlace(s)
    BY Zenon DEF PoolInv
  <2>7. \A u, v \in Thread : Holds(u, s)' /\ Holds(v, s)' => u = v
    BY Zenon, <2>1, <2>4, <2>6 DEF OnePlace
  <2>8. \A l, m \in Worker, j, n \in Nat : Lies(l, j, s)' /\ Lies(m, n, s)' => l = m /\ j = n
    <3> SUFFICES ASSUME NEW l \in Worker, NEW m \in Worker, NEW j \in Nat, NEW n \in Nat,
                        Lies(l, j, s)', Lies(m, n, s)'
                 PROVE  l = m /\ j = n
      BY Zenon
    <3>1. j + 1 \in Nat /\ n + 1 \in Nat /\ (j + 1 = n + 1 => j = n)
      OBVIOUS
    <3>2. PICK a \in Nat : Lies(l, a, s) /\ (l = k => a = j + 1) /\ (l # k => a = j)
      BY Zenon, <2>3, <3>1
    <3>3. PICK b \in Nat : Lies(m, b, s) /\ (m = k => b = n + 1) /\ (m # k => b = n)
      BY Zenon, <2>3, <3>1
    <3>4. l = m /\ a = b
      BY Zenon, <2>6, <3>2, <3>3 DEF OnePlace
    <3> QED BY Zenon, <3>1, <3>2, <3>3, <3>4
  <2>9. \A u \in Thread, l \in Worker, j \in Nat : ~(Holds(u, s)' /\ Lies(l, j, s)')
    <3> SUFFICES ASSUME NEW u \in Thread, NEW l \in Worker, NEW j \in Nat,
                        Holds(u, s)', Lies(l, j, s)'
                 PROVE  FALSE
      BY Zenon
    <3>1. PICK a \in Nat : Lies(l, a, s) /\ (l = k => a # 0)
      <4>1. j + 1 \in Nat /\ j + 1 # 0
        OBVIOUS
      <4> QED BY Zenon, <2>3, <4>1
    <3>2. ~Holds(u, s)
      BY Zenon, <2>6, <3>1 DEF OnePlace
    <3>3. Lies(k, 0, s)
      BY Zenon, <2>1, <2>4, <3>2
    <3> QED BY Zenon, <2>6, <3>1, <3>3 DEF OnePlace
  <2>10. ran[s] # 0 => /\ ran[s] = 1
                       /\ \A u \in Thread : ~Holds(u, s)'
                       /\ \A l \in Worker, j \in Nat : ~Lies(l, j, s)'
    BY SMTT(30), <2>1, <2>3, <2>4, <2>6 DEF OnePlace
  <2>11. Given(s) <=> \/ ran[s] = 1
                      \/ \E u \in Thread : Holds(u, s)'
                      \/ \E l \in Worker, j \in Nat : Lies(l, j, s)'
    <3>1. ASSUME NEW l \in Worker, NEW j \in Nat, Lies(l, j, s)
          PROVE  (\E u \in Thread : Holds(u, s)') \/ (\E m \in Worker, n \in Nat : Lies(m, n, s)')
      <4>1. CASE l # k
        BY Zenon, <2>3, <3>1, <4>1
      <4>2. CASE l = k /\ j = 0
        BY Zenon, <1>1, <2>1, <2>4, <3>1, <4>2
      <4>3. CASE l = k /\ j # 0
        <5>1. j - 1 \in Nat /\ (j - 1) + 1 = j
          BY <4>3
        <5> QED BY Zenon, <2>3, <3>1, <4>3, <5>1
      <4> QED BY Zenon, <4>1, <4>2, <4>3
    <3>2. ASSUME NEW l \in Worker, NEW j \in Nat, Lies(l, j, s)'
          PROVE  \E m \in Worker, n \in Nat : Lies(m, n, s)
      <4>1. j + 1 \in Nat
        OBVIOUS
      <4> QED BY Zenon, <2>3, <3>2, <4>1
    <3>3. \A u \in Thread : Holds(u, s)' => Holds(u, s) \/ Lies(k, 0, s)
      BY Zenon, <2>1, <2>4
    <3>4. \A u \in Thread : Holds(u, s) => Holds(u, s)'
      BY Zenon, <2>1
    <3> QED BY Zenon, <2>6, <3>1, <3>2, <3>3, <3>4 DEF OnePlace
  <2> QED BY Zenon, <1>1, <2>5, <2>7, <2>8, <2>9, <2>10, <2>11 DEF OnePlace
<1>10. ASSUME NEW c \in Caller PROVE Answered(c)'
  <2>1. \A u \in Thread : Posts(u, c)' <=> Posts(u, c)
    BY Zenon, <1>6 DEF Posts
  <2>2. pc'[c] = "start" <=> pc[c] = "start"
    BY Zenon, <1>1, <1>6 DEF Thread
  <2>3. SameAnswer(c)
    BY Zenon, <2>1, <2>2 DEF SameAnswer
  <2> QED BY Zenon, <2>3, AnsweredKept DEF PoolInv
<1> QED BY Zenon, <1>8, <1>9, <1>10 DEF PoolInv, Task

-----------------------------------------------------------------------------
(* Steps that give, run or answer                                          *)

\* A task is the triple of its caller, its answer and its number.
LEMMA TaskParts ==
  /\ \A s \in Task : /\ s[1] \in Caller /\ s[2] \in 1..Rounds /\ s[3] \in 1..Batch
                     /\ s = <<s[1], s[2], s[3]>>
  /\ \A c \in Caller, r \in 1..Rounds, n \in 1..Batch : <<c, r, n>> \in Task
BY DEF Task

\* The tasks still open are a finite set.
LEMMA OpenFinite ==
  ASSUME NEW c
  PROVE  IsFiniteSet(Open(c)) /\ Cardinality(Open(c)) \in Nat
<1>1. IsFiniteSet(1..Batch)
  BY FS_Interval, PoolAssumption
<1>2. Open(c) \in SUBSET (1..Batch)
  BY Zenon DEF Open
<1> QED BY Zenon, <1>1, <1>2, FS_Subset, FS_CardinalityType

\* completed_many_task_ans: the counter follows the open tasks, and who takes
\* it to zero is the one thread to post.
LEMMA CompletedStep ==
  ASSUME TypeInv, NEW c \in Caller, Answered(c), NEW u \in Thread, NEW next,
         Completed(u, c, next), next # "post", next # "start",
         pc[c] # "start", NEW n \in Open(c),
         len_thr' = len_thr, round' = round, sem' = sem,
         ran' = [ran EXCEPT ![<<c, round[c], n>>] = @ + 1],
         task'[u][1] = c, \A v \in Thread \ {u} : task'[v] = task[v]
  PROVE  Answered(c)'
<1>1. Thread' = Thread
  BY Zenon DEF Thread, Worker
<1>2. n \in 1..Batch /\ ran[<<c, round[c], n>>] = 0 /\ round[c] \in 1..Rounds
  BY PoolAssumption DEF TypeInv, Open
<1>3. /\ counter[c] = Cardinality(Open(c)) /\ counter[c] \in Nat /\ counter[c] # 0
      /\ sem[c] = 0 /\ \A v \in Thread : ~Posts(v, c)
  <2>1. counter[c] = Cardinality(Open(c)) /\ counter[c] \in Nat
    BY Zenon, OpenFinite DEF Answered
  <2>2. counter[c] # 0
    BY Zenon, <2>1, OpenFinite, FS_EmptySet
  <2> QED BY Zenon, <2>1, <2>2 DEF Answered
<1>4. counter'[c] = counter[c] - 1
  BY Zenon DEF Completed, TypeInv
<1>5. /\ pc'[u] = IF counter[c] = 1 THEN "post" ELSE next
      /\ \A v \in Thread \ {u} : pc'[v] = pc[v]
  BY Zenon DEF Completed, Goto, TypeInv
<1>6. \A r \in 1..Rounds, m \in 1..Batch :
        ran'[<<c, r, m>>] = IF r = round[c] /\ m = n THEN 1 ELSE ran[<<c, r, m>>]
  <2>1. \A r \in 1..Rounds, m \in 1..Batch : <<c, r, m>> \in Task
    BY Zenon, TaskParts
  <2> QED BY <1>2, <2>1 DEF TypeInv
<1>7. Open(c)' = Open(c) \ {n}
  <2>1. \A m \in 1..Batch : ran'[<<c, round[c], m>>] = 0 <=> ran[<<c, round[c], m>>] = 0 /\ m # n
    BY <1>2, <1>6
  <2> QED BY <2>1 DEF Open
<1>8. counter'[c] = Cardinality(Open(c)')
  BY Zenon, <1>3, <1>4, <1>7, OpenFinite, FS_RemoveElement
<1>9. pc'[c] # "start"
  BY Zenon, <1>5 DEF Thread
<1>10. \A r \in 1..(round[c] - 1), m \in 1..Batch : ran'[<<c, r, m>>] = 1
  <2>1. \A r \in 1..(round[c] - 1) : r \in 1..Rounds
    BY <1>2, PoolAssumption
  <2> QED BY SMTT(30), <1>6, <2>1 DEF Answered
<1>11. \A v \in Thread : Posts(v, c)' <=> v = u /\ counter[c] = 1
  <2>1. \A v \in Thread \ {u} : ~Posts(v, c)'
    BY <1>3, <1>5 DEF Posts
  <2>2. Posts(u, c)' <=> counter[c] = 1
    BY Zenon, <1>5 DEF Posts
  <2> QED BY Zenon, <2>1, <2>2
<1>12. counter'[c] = 0 <=> counter[c] = 1
  BY <1>3, <1>4
<1> QED BY Zenon, <1>1, <1>3, <1>8, <1>9, <1>10, <1>11, <1>12 DEF Answered

\* A worker runs a task that it alone holds, of the answer its caller waits for.
LEMMA RunStep ==
  ASSUME PoolInv, NEW w \in Worker, Run(w)
  PROVE  PoolInv'
<1>1. TypeInv /\ Worker' = Worker /\ Thread' = Thread /\ w \in Thread /\ w \notin Caller /\ w \in Nat
  BY Zenon, Apart DEF PoolInv, TypeInv, Worker, Thread, Run
<1>2. PICK t \in Task : task[w] = t /\ Holds(w, t)
  BY Zenon, <1>1 DEF Run, TypeInv, Holding, Held, Holds
<1> DEFINE c == t[1]
           n == t[3]
<1>3. /\ c \in Caller /\ t[2] \in 1..Rounds /\ n \in 1..Batch /\ t = <<c, t[2], n>>
  BY Zenon, <1>2, TaskParts
<1>4. /\ ran' = [ran EXCEPT ![t] = @ + 1] /\ Completed(w, c, "scan")
      /\ i' = [i EXCEPT ![w] = w]
      /\ UNCHANGED <<len_thr, index, ring, first, task, round, nth, sem>>
  BY Zenon, <1>2 DEF Run
<1>5. pc[w] = "got" /\ pc' = [pc EXCEPT ![w] = IF counter[c] = 1 THEN "post" ELSE "scan"]
  BY Zenon, <1>2 DEF Run, Completed, Goto
<1> HIDE DEF n
<1>6. OnePlace(t) /\ Answered(c)
  BY Zenon, <1>2, <1>3 DEF PoolInv
<1>7. ran[t] = 0 /\ Given(t)
  BY Zenon, <1>1, <1>2, <1>6 DEF OnePlace
<1>8. t[2] = round[c] /\ n < nth[c]
  <2>1. round[c] \in Int
    BY <1>1, <1>3 DEF TypeInv
  <2>2. ~(t[2] < round[c])
    <3> SUFFICES ASSUME t[2] < round[c] PROVE FALSE
      BY Zenon
    <3>1. t[2] \in 1..(round[c] - 1)
      BY <1>3, <2>1
    <3>2. ran[<<c, t[2], n>>] = 1
      BY Zenon, <1>3, <1>6, <3>1 DEF Answered
    <3> QED BY <1>3, <1>7, <3>2
  <2> QED BY Zenon, <1>7, <2>2 DEF Given, n
<1>9. pc[c] # "start"
  <2>1. nth[c] # 1
    BY <1>1, <1>3, <1>8 DEF TypeInv
  <2> QED BY Zenon, <1>6, <2>1 DEF Answered
<1>10. n \in Open(c) /\ t = <<c, round[c], n>>
  BY Zenon, <1>3, <1>7, <1>8 DEF Open
<1>11. Answered(c)'
  <2>1. ran' = [ran EXCEPT ![<<c, round[c], n>>] = @ + 1]
    BY Zenon, <1>4, <1>10
  <2>2. task'[w][1] = c
    BY Zenon, <1>2, <1>4
  <2>3. \A v \in Thread \ {w} : task'[v] = task[v]
    BY Zenon, <1>4
  <2>4. /\ len_thr' = len_thr /\ round' = round /\ sem' = sem
        /\ Completed(w, c, "scan") /\ "scan" # "post" /\ "scan" # "start"
    BY Zenon, <1>4
  <2> HIDE DEF c
  <2> QED BY Zenon, <1>1, <1>3, <1>6, <1>9, <1>10, <2>1, <2>2, <2>3, <2>4, CompletedStep
<1>12. /\ \A u \in Thread : pc'[u] = IF u = w THEN (IF counter[c] = 1 THEN "post" ELSE "scan") ELSE pc[u]
       /\ pc' = [u \in Thread |-> pc'[u]]
  BY Zenon, <1>1, <1>5 DEF TypeInv
<1>13. ASSUME NEW d \in Caller, d # c PROVE Answered(d)'
  <2>1. \A r \in 1..Rounds, m \in 1..Batch : ran'[<<d, r, m>>] = ran[<<d, r, m>>]
    <3>1. \A r \in 1..Rounds, m \in 1..Batch : <<d, r, m>> \in Task /\ <<d, r, m>> # t
      BY Zenon, <1>3, <1>13, TaskParts
    <3> QED BY Zenon, <1>1, <1>4, <3>1 DEF TypeInv
  <2>2. \A u \in Thread : Posts(u, d)' <=> Posts(u, d)
    BY Zenon, <1>2, <1>4, <1>5, <1>12, <1>13 DEF Posts
  <2>3. pc'[d] = "start" <=> pc[d] = "start"
    BY Zenon, <1>1, <1>12 DEF Thread
  <2>4. counter'[d] = counter[d]
    BY Zenon, <1>1, <1>4, <1>13 DEF Completed, TypeInv
  <2>5. SameAnswer(d)
    BY Zenon, <1>4, <2>1, <2>2, <2>3, <2>4 DEF SameAnswer
  <2> QED BY Zenon, <1>1, <2>5, AnsweredKept DEF PoolInv
<1>14. TypeInv'
  <2>1. i' \in [Thread -> Nat] /\ ran' \in [Task -> Nat]
    BY SMTT(30), <1>1, <1>2, <1>4 DEF TypeInv
  <2>2. counter' \in [Caller -> Int]
    BY <1>1, <1>3, <1>4 DEF TypeInv, Completed
  <2>3. \A u \in Thread : /\ pc'[u] \in Holding => task[u] \in Held
                          /\ pc'[u] = "post" => task[u] \in Task
                          /\ pc'[u] = "push" => len_thr > 0
    BY Zenon, <1>1, <1>2, <1>12 DEF TypeInv, Holding
  <2>4. \A d \in Caller : pc'[d] # "start" => round[d] <= Rounds
    BY Zenon, <1>1, <1>12 DEF TypeInv, Thread
  <2>5. Held' = Held /\ Task' = Task
    BY Zenon DEF Held, Task
  <2> QED BY Zenon, <1>1, <1>4, <1>12, <2>1, <2>2, <2>3, <2>4, <2>5 DEF TypeInv
<1>15. ASSUME NEW s \in Task PROVE OnePlace(s)'
  <2>1. \A u \in Thread : Holds(u, s)' <=> Holds(u, s) /\ u # w
    BY Zenon, <1>4, <1>12 DEF Holds, Holding
  <2>2. \A k, j : Lies(k, j, s)' <=> Lies(k, j, s)
    BY Zenon, <1>4 DEF Lies
  <2>3. Given(s)' <=> Given(s)
    BY Zenon, <1>4 DEF Given
  <2>4. ran'[s] = IF s = t THEN 1 ELSE ran[s]
    BY <1>1, <1>2, <1>4, <1>7 DEF TypeInv
  <2>5. OnePlace(s)
    BY Zenon DEF PoolInv
  <2>6. CASE s = t
    BY SMTT(30), <1>1, <1>2, <1>7, <2>1, <2>2, <2>3, <2>4, <2>5, <2>6 DEF OnePlace
  <2>7. CASE s # t
    <3>1. ~Holds(w, s)
      BY Zenon, <1>2, <2>7 DEF Holds
    <3>2. \A u \in Thread : Holds(u, s)' <=> Holds(u, s)
      BY Zenon, <2>1, <3>1
    <3>3. ran'[s] = ran[s]
      BY Zenon, <2>4, <2>7
    <3> QED BY Zenon, <1>4, <2>2, <2>3, <2>5, <3>2, <3>3, PlaceKept
  <2> QED BY Zenon, <2>6, <2>7
<1>16. \A d \in Caller : Answered(d)'
  <2> HIDE DEF c
  <2> QED BY Zenon, <1>11, <1>13
<1> QED BY Zenon, <1>14, <1>15, <1>16 DEF PoolInv, Task

\* The one thread that has to post posts once.
LEMMA PostStep ==
  ASSUME PoolInv, NEW t \in Thread, Post(t)
  PROVE  PoolInv'
<1>1. TypeInv /\ Worker' = Worker /\ Thread' = Thread
  BY Zenon DEF PoolInv, TypeInv, Worker, Thread, Post
<1> DEFINE x == IF t \in Caller THEN "fill" ELSE "scan"
<1>3. PICK c \in Caller : task[t][1] = c
  BY Zenon, <1>1, TaskParts DEF TypeInv, Post
<1>2. /\ pc[t] = "post" /\ sem' = [sem EXCEPT ![c] = @ + 1] /\ pc' = [pc EXCEPT ![t] = x]
      /\ UNCHANGED <<len_thr, index, ring, i, first, task, round, nth, counter, ran>>
  BY Zenon, <1>3 DEF Post, Goto, locals
<1>4. x \in {"fill", "scan"}
  BY Zenon
<1> HIDE DEF x
<1>5. /\ \A u \in Thread : pc'[u] = IF u = t THEN x ELSE pc[u]
      /\ pc' = [u \in Thread |-> pc'[u]]
  BY Zenon, <1>1, <1>2 DEF TypeInv
<1>6. /\ \A d \in Caller : sem'[d] = IF d = c THEN sem[c] + 1 ELSE sem[d]
      /\ sem' \in [Caller -> Int]
  BY <1>1, <1>2, <1>3 DEF TypeInv
<1>7. TypeInv'
  <2>1. \A u \in Thread : /\ pc'[u] \in Holding => task[u] \in Held
                          /\ pc'[u] = "post" => task[u] \in Task
                          /\ pc'[u] = "push" => len_thr > 0
    BY Zenon, <1>1, <1>4, <1>5 DEF TypeInv, Holding
  <2>2. \A d \in Caller : pc'[d] # "start" => round[d] <= Rounds
    BY Zenon, <1>1, <1>2, <1>5 DEF TypeInv, Thread
  <2>3. Held' = Held /\ Task' = Task
    BY Zenon DEF Held, Task
  <2> QED BY Zenon, <1>1, <1>2, <1>5, <1>6, <2>1, <2>2, <2>3 DEF TypeInv
<1>8. ASSUME NEW s \in Task PROVE OnePlace(s)'
  <2>1. \A u \in Thread : Holds(u, s)' <=> Holds(u, s)
    BY Zenon, <1>2, <1>4, <1>5 DEF Holds, Holding
  <2>2. \A k, j : Lies(k, j, s)' <=> Lies(k, j, s)
    BY Zenon, <1>2 DEF Lies
  <2>3. (Given(s)' <=> Given(s)) /\ ran' = ran
    BY Zenon, <1>2 DEF Given
  <2> QED BY Zenon, <1>2, <2>1, <2>2, <2>3, PlaceKept DEF PoolInv
<1>9. Answered(c)'
  <2>1. Answered(c) /\ Posts(t, c)
    BY Zenon, <1>2, <1>3 DEF PoolInv, Posts
  <2>2. pc[c] # "start" /\ counter[c] = 0 /\ sem[c] = 0
    BY Zenon, <2>1 DEF Answered
  <2>3. \A u \in Thread : ~Posts(u, c)'
    BY Zenon, <1>2, <1>4, <1>5, <2>1 DEF Answered, Posts
  <2>4. sem'[c] = 1
    BY <1>3, <1>6, <2>2
  <2>5. pc'[c] # "start"
    BY Zenon, <1>3, <1>4, <1>5, <2>2 DEF Thread
  <2>6. Open(c)' = Open(c)
    BY Zenon, <1>2 DEF Open
  <2> QED BY Zenon, <1>1, <1>2, <2>1, <2>2, <2>3, <2>4, <2>5, <2>6 DEF Answered
<1>10. ASSUME NEW d \in Caller, d # c PROVE Answered(d)'
  <2>1. \A u \in Thread : Posts(u, d)' <=> Posts(u, d)
    BY Zenon, <1>2, <1>3, <1>4, <1>5, <1>10 DEF Posts
  <2>2. pc'[d] = "start" <=> pc[d] = "start"
    BY Zenon, <1>2, <1>4, <1>5 DEF Thread
  <2>3. SameAnswer(d)
    BY Zenon, <1>2, <1>6, <1>10, <2>1, <2>2 DEF SameAnswer
  <2> QED BY Zenon, <1>1, <2>3, AnsweredKept DEF PoolInv
<1>11. \A d \in Caller : Answered(d)'
  BY Zenon, <1>9, <1>10
<1> QED BY Zenon, <1>7, <1>8, <1>11 DEF PoolInv, Task

\* Of the answer that a caller is about to begin, no task has been run.
LEMMA NotGiven ==
  ASSUME PoolInv, NEW s \in Task, ~Given(s)
  PROVE  /\ ran[s] = 0
         /\ \A u \in Thread : ~Holds(u, s)
         /\ \A k \in Worker, j \in Nat : ~Lies(k, j, s)
BY Zenon DEF PoolInv, OnePlace

\* init_task_ans: all tasks of the answer are open.
LEMMA InitAnsStep ==
  ASSUME PoolInv, NEW c \in Caller, InitAns(c)
  PROVE  PoolInv'
<1>1. TypeInv /\ Worker' = Worker /\ Thread' = Thread /\ c \in Thread
  BY Zenon DEF PoolInv, TypeInv, Worker, Thread, InitAns
<1>2. /\ pc[c] = "start" /\ round[c] <= Rounds /\ pc' = [pc EXCEPT ![c] = "fill"]
      /\ counter' = [counter EXCEPT ![c] = Batch] /\ sem' = [sem EXCEPT ![c] = 0]
      /\ UNCHANGED <<len_thr, index, ring, i, first, task, round, nth, ran>>
  BY Zenon DEF InitAns, Goto, locals
<1>3. /\ \A u \in Thread : pc'[u] = IF u = c THEN "fill" ELSE pc[u]
      /\ pc' = [u \in Thread |-> pc'[u]]
  BY Zenon, <1>1, <1>2 DEF TypeInv
<1>4. /\ \A d \in Caller : /\ counter'[d] = IF d = c THEN Batch ELSE counter[d]
                           /\ sem'[d] = IF d = c THEN 0 ELSE sem[d]
      /\ counter' \in [Caller -> Int] /\ sem' \in [Caller -> Int]
  BY <1>1, <1>2, PoolAssumption DEF TypeInv
<1>5. TypeInv'
  <2>1. \A u \in Thread : /\ pc'[u] \in Holding => task[u] \in Held
                          /\ pc'[u] = "post" => task[u] \in Task
                          /\ pc'[u] = "push" => len_thr > 0
    BY Zenon, <1>1, <1>3 DEF TypeInv, Holding
  <2>2. \A d \in Caller : pc'[d] # "start" => round[d] <= Rounds
    BY Zenon, <1>1, <1>2, <1>3 DEF TypeInv, Thread
  <2>3. Held' = Held /\ Task' = Task
    BY Zenon DEF Held, Task
  <2> QED BY Zenon, <1>1, <1>2, <1>3, <1>4, <2>1, <2>2, <2>3 DEF TypeInv
<1>6. ASSUME NEW s \in Task PROVE OnePlace(s)'
  <2>1. \A u \in Thread : Holds(u, s)' <=> Holds(u, s)
    BY Zenon, <1>2, <1>3 DEF Holds, Holding
  <2>2. \A k, j : Lies(k, j, s)' <=> Lies(k, j, s)
    BY Zenon, <1>2 DEF Lies
  <2>3. (Given(s)' <=> Given(s)) /\ ran' = ran
    BY Zenon, <1>2 DEF Given
  <2> QED BY Zenon, <1>2, <2>1, <2>2, <2>3, PlaceKept DEF PoolInv
<1>7. Answered(c)'
  <2>1. Answered(c)
    BY Zenon DEF PoolInv
  <2>2. nth[c] = 1 /\ \A u \in Thread : ~Posts(u, c)
    BY Zenon, <1>2, <2>1 DEF Answered
  <2>3. \A u \in Thread : ~Posts(u, c)'
    BY Zenon, <1>2, <1>3, <2>2 DEF Posts
  <2>4. round[c] \in 1..Rounds
    BY <1>1, <1>2, PoolAssumption DEF TypeInv
  <2>5. \A n \in 1..Batch : ran[<<c, round[c], n>>] = 0
    <3> SUFFICES ASSUME NEW n \in 1..Batch PROVE ran[<<c, round[c], n>>] = 0
      BY Zenon
    <3>1. <<c, round[c], n>> \in Task
      BY Zenon, <2>4, TaskParts
    <3>2. ~Given(<<c, round[c], n>>)
      BY <2>2, <2>4, PoolAssumption DEF Given
    <3> QED BY Zenon, <3>1, <3>2, NotGiven
  <2>6. Open(c)' = 1..Batch
    BY Zenon, <1>2, <2>5 DEF Open
  <2>7. Cardinality(Open(c)') = Batch /\ Batch # 0
    BY <2>6, FS_Interval, PoolAssumption
  <2>8. counter'[c] = Batch /\ sem'[c] = 0 /\ pc'[c] = "fill"
    BY Zenon, <1>1, <1>3, <1>4
  <2> QED BY Zenon, <1>1, <1>2, <2>1, <2>3, <2>7, <2>8 DEF Answered
<1>8. ASSUME NEW d \in Caller, d # c PROVE Answered(d)'
  <2>1. \A u \in Thread : Posts(u, d)' <=> Posts(u, d)
    BY Zenon, <1>2, <1>3 DEF Posts
  <2>2. pc'[d] = "start" <=> pc[d] = "start"
    BY Zenon, <1>3, <1>8 DEF Thread
  <2>3. SameAnswer(d)
    BY Zenon, <1>2, <1>4, <1>8, <2>1, <2>2 DEF SameAnswer
  <2> QED BY Zenon, <1>1, <2>3, AnsweredKept DEF PoolInv
<1> QED BY Zenon, <1>5, <1>6, <1>7, <1>8 DEF PoolInv, Task

\* join_task_ans: the post says that no task is open any more.
LEMMA JoinStep ==
  ASSUME PoolInv, NEW c \in Caller, Join(c)
  PROVE  PoolInv'
<1>1. TypeInv /\ Worker' = Worker /\ Thread' = Thread /\ c \in Thread
  BY Zenon DEF PoolInv, TypeInv, Worker, Thread, Join
<1>2. /\ pc[c] = "fill" /\ nth[c] > Batch /\ sem[c] > 0 /\ pc' = [pc EXCEPT ![c] = "start"]
      /\ sem' = [sem EXCEPT ![c] = @ - 1] /\ round' = [round EXCEPT ![c] = @ + 1]
      /\ nth' = [nth EXCEPT ![c] = 1]
      /\ UNCHANGED <<len_thr, index, ring, i, first, task, counter, ran>>
  BY Zenon DEF Join, Goto, locals
<1>3. /\ \A u \in Thread : pc'[u] = IF u = c THEN "start" ELSE pc[u]
      /\ pc' = [u \in Thread |-> pc'[u]]
  BY Zenon, <1>1, <1>2 DEF TypeInv
<1>4. round[c] \in 1..Rounds /\ nth[c] = Batch + 1 /\ sem[c] \in Int
  <2>1. round[c] <= Rounds
    BY Zenon, <1>1, <1>2 DEF TypeInv
  <2>2. round[c] \in 1..(Rounds + 1) /\ nth[c] \in 1..(Batch + 1) /\ sem[c] \in Int
    BY Zenon, <1>1 DEF TypeInv
  <2> QED BY <1>2, <2>1, <2>2, PoolAssumption
<1>5. /\ \A d \in Caller : /\ round'[d] = IF d = c THEN round[c] + 1 ELSE round[d]
                           /\ nth'[d] = IF d = c THEN 1 ELSE nth[d]
                           /\ sem'[d] = IF d = c THEN sem[c] - 1 ELSE sem[d]
      /\ round' \in [Caller -> 1..(Rounds + 1)] /\ nth' \in [Caller -> 1..(Batch + 1)]
      /\ sem' \in [Caller -> Int]
  BY <1>1, <1>2, <1>4, PoolAssumption DEF TypeInv
<1>6. TypeInv'
  <2>1. \A u \in Thread : /\ pc'[u] \in Holding => task[u] \in Held
                          /\ pc'[u] = "post" => task[u] \in Task
                          /\ pc'[u] = "push" => len_thr > 0
    BY Zenon, <1>1, <1>3 DEF TypeInv, Holding
  <2>2. \A d \in Caller : pc'[d] # "start" => round'[d] <= Rounds
    BY Zenon, <1>1, <1>3, <1>5 DEF TypeInv, Thread
  <2>3. Held' = Held /\ Task' = Task
    BY Zenon DEF Held, Task
  <2> QED BY Zenon, <1>1, <1>2, <1>3, <1>5, <2>1, <2>2, <2>3 DEF TypeInv
<1>7. ASSUME NEW s \in Task PROVE OnePlace(s)'
  <2>1. \A u \in Thread : Holds(u, s)' <=> Holds(u, s)
    BY Zenon, <1>2, <1>3 DEF Holds, Holding
  <2>2. \A k, j : Lies(k, j, s)' <=> Lies(k, j, s)
    BY Zenon, <1>2 DEF Lies
  <2>3. Given(s)' <=> Given(s)
    <3>1. s[1] \in Caller /\ s[2] \in 1..Rounds /\ s[3] \in 1..Batch
      BY Zenon, TaskParts
    <3>2. CASE s[1] # c
      BY Zenon, <1>5, <3>1, <3>2 DEF Given
    <3>3. CASE s[1] = c
      BY SMTT(30), <1>4, <1>5, <3>1, <3>3, PoolAssumption DEF Given
    <3> QED BY Zenon, <3>2, <3>3
  <2>4. ran' = ran
    BY Zenon, <1>2
  <2> QED BY Zenon, <1>2, <2>1, <2>2, <2>3, <2>4, PlaceKept DEF PoolInv
<1>8. Answered(c)'
  <2>1. Answered(c) /\ counter[c] \in Int
    BY Zenon, <1>1 DEF PoolInv, TypeInv
  <2>2. counter[c] = 0 /\ sem[c] = 1 /\ \A u \in Thread : ~Posts(u, c)
    <3>1. counter[c] = 0
      BY <1>2, <2>1 DEF Answered
    <3> QED BY SMTT(30), <1>2, <2>1, <3>1 DEF Answered
  <2>3. \A n \in 1..Batch : ran[<<c, round[c], n>>] = 1
    <3>1. Open(c) = {}
      BY Zenon, <1>2, <2>1, <2>2, OpenFinite, FS_EmptySet DEF Answered
    <3>2. \A n \in 1..Batch : ran[<<c, round[c], n>>] # 0
      BY Zenon, <3>1 DEF Open
    <3>3. \A n \in 1..Batch : <<c, round[c], n>> \in Task
      BY Zenon, <1>4, TaskParts
    <3> QED BY Zenon, <3>2, <3>3 DEF PoolInv, OnePlace
  <2>4. \A r \in 1..(round'[c] - 1), n \in 1..Batch : ran[<<c, r, n>>] = 1
    <3>1. \A r \in 1..(round'[c] - 1) : r = round[c] \/ r \in 1..(round[c] - 1)
      BY <1>4, <1>5
    <3> QED BY Zenon, <2>1, <2>3, <3>1 DEF Answered
  <2>5. \A u \in Thread : ~Posts(u, c)'
    BY Zenon, <1>2, <1>3, <2>2 DEF Posts
  <2>6. nth'[c] = 1 /\ sem'[c] = 0 /\ counter'[c] = 0 /\ pc'[c] = "start"
    BY SMTT(30), <1>1, <1>2, <1>3, <1>5, <2>2
  <2> QED BY SMTT(30), <1>1, <1>2, <2>4, <2>5, <2>6 DEF Answered
<1>9. ASSUME NEW d \in Caller, d # c PROVE Answered(d)'
  <2>1. \A u \in Thread : Posts(u, d)' <=> Posts(u, d)
    BY Zenon, <1>2, <1>3 DEF Posts
  <2>2. pc'[d] = "start" <=> pc[d] = "start"
    BY Zenon, <1>3, <1>9 DEF Thread
  <2>3. SameAnswer(d)
    BY Zenon, <1>2, <1>5, <1>9, <2>1, <2>2 DEF SameAnswer
  <2> QED BY Zenon, <1>1, <2>3, AnsweredKept DEF PoolInv
<1> QED BY Zenon, <1>6, <1>7, <1>8, <1>9 DEF PoolInv, Task

\* The next task of a caller is the one that becomes given.
LEMMA NextGiven ==
  ASSUME PoolInv, NEW c \in Caller, pc[c] = "fill", nth[c] <= Batch, round' = round,
         nth' = [nth EXCEPT ![c] = @ + 1]
  PROVE  LET s == <<c, round[c], nth[c]>>
         IN  /\ s \in Task /\ ~Given(s)
             /\ \A t \in Task : Given(t)' <=> Given(t) \/ t = s
             /\ nth' \in [Caller -> 1..(Batch + 1)]
             /\ nth[c] \in 1..Batch /\ round[c] \in 1..Rounds
<1> DEFINE s == <<c, round[c], nth[c]>>
<1>1. TypeInv
  BY Zenon DEF PoolInv
<1>2. nth[c] \in 1..Batch /\ round[c] \in 1..Rounds
  <2>1. round[c] <= Rounds
    BY Zenon, <1>1 DEF TypeInv
  <2>2. round[c] \in 1..(Rounds + 1) /\ nth[c] \in 1..(Batch + 1)
    BY Zenon, <1>1 DEF TypeInv
  <2> QED BY <2>1, <2>2, PoolAssumption
<1>3. s \in Task
  BY Zenon, <1>2, TaskParts
<1>4. ~Given(s)
  BY SMTT(30), <1>2 DEF Given
<1>5. /\ \A d \in Caller : nth'[d] = IF d = c THEN nth[c] + 1 ELSE nth[d]
      /\ nth' \in [Caller -> 1..(Batch + 1)]
  BY <1>1, <1>2, PoolAssumption DEF TypeInv
<1>6. ASSUME NEW t \in Task PROVE Given(t)' <=> Given(t) \/ t = s
  <2>1. t[1] \in Caller /\ t[2] \in 1..Rounds /\ t[3] \in 1..Batch /\ t = <<t[1], t[2], t[3]>>
    BY Zenon, TaskParts
  <2>2. t = s <=> t[1] = c /\ t[2] = round[c] /\ t[3] = nth[c]
    BY <2>1
  <2>3. CASE t[1] # c
    BY Zenon, <1>5, <2>1, <2>2, <2>3 DEF Given
  <2>4. CASE t[1] = c
    BY SMTT(30), <1>2, <1>5, <2>1, <2>2, <2>4 DEF Given
  <2> QED BY Zenon, <2>3, <2>4
<1> QED BY Zenon, <1>2, <1>3, <1>4, <1>5, <1>6

\* A caller hands the next task to pushTpool.
LEMMA PushNextStep ==
  ASSUME PoolInv, NEW c \in Caller, PushNext(c)
  PROVE  PoolInv'
<1>1. TypeInv /\ Worker' = Worker /\ Thread' = Thread /\ c \in Thread
  BY Zenon DEF PoolInv, TypeInv, Worker, Thread, PushNext, StartPush
<1>2. PICK s : s = <<c, round[c], nth[c]>>
  BY Zenon
<1>3. /\ pc[c] = "fill" /\ nth[c] <= Batch /\ len_thr > 0
      /\ nth' = [nth EXCEPT ![c] = @ + 1] /\ pc' = [pc EXCEPT ![c] = "push"]
      /\ task' = [task EXCEPT ![c] = s] /\ index' = index + 1
      /\ first' = [first EXCEPT ![c] = index] /\ i' = [i EXCEPT ![c] = 0]
      /\ UNCHANGED <<len_thr, ring, round, counter, sem, ran>>
  BY Zenon, <1>2 DEF PushNext, StartPush, Goto, answer
<1>4. /\ s \in Task /\ ~Given(s)
      /\ \A t \in Task : Given(t)' <=> Given(t) \/ t = s
      /\ nth' \in [Caller -> 1..(Batch + 1)]
  BY Zenon, <1>2, <1>3, NextGiven
<1>5. /\ \A u \in Thread : /\ pc'[u] = IF u = c THEN "push" ELSE pc[u]
                           /\ task'[u] = IF u = c THEN s ELSE task[u]
  BY Zenon, <1>1, <1>3 DEF TypeInv
<1>6. TypeInv'
  <2>1. pc' = [u \in Thread |-> pc'[u]]
    BY Zenon, <1>1, <1>3 DEF TypeInv
  <2>2. task' = [u \in Thread |-> task'[u]]
    BY Zenon, <1>1, <1>3 DEF TypeInv
  <2>3. index' \in Nat /\ i' \in [Thread -> Nat] /\ first' \in [Thread -> Nat]
    BY <1>1, <1>3 DEF TypeInv
  <2>4. \A u \in Thread : /\ pc'[u] \in Holding => task'[u] \in Held
                          /\ pc'[u] = "post" => task'[u] \in Task
                          /\ pc'[u] = "push" => len_thr > 0
    BY Zenon, <1>1, <1>3, <1>4, <1>5 DEF TypeInv, Held
  <2>5. \A d \in Caller : pc'[d] # "start" => round[d] <= Rounds
    BY Zenon, <1>1, <1>3, <1>5 DEF TypeInv, Thread
  <2>6. Held' = Held /\ Task' = Task
    BY Zenon DEF Held, Task
  <2> QED BY Zenon, <1>1, <1>3, <1>4, <2>1, <2>2, <2>3, <2>4, <2>5, <2>6 DEF TypeInv
<1>7. ASSUME NEW t \in Task PROVE OnePlace(t)'
  <2>1. \A u \in Thread : Holds(u, t)' <=> Holds(u, t) \/ (u = c /\ t = s)
    BY Zenon, <1>3, <1>5 DEF Holds, Holding
  <2>2. \A k, j : Lies(k, j, t)' <=> Lies(k, j, t)
    BY Zenon, <1>3 DEF Lies
  <2>3. CASE t = s
    <3>1. /\ ran'[t] = 0
          /\ \A u \in Thread : Holds(u, t)' <=> u = c
          /\ \A k \in Worker, j \in Nat : ~Lies(k, j, t)'
      BY Zenon, <1>3, <1>4, <2>1, <2>2, <2>3, NotGiven
    <3>2. Given(t)'
      BY Zenon, <1>4, <2>3
    <3> QED BY Zenon, <1>1, <3>1, <3>2 DEF OnePlace
  <2>4. CASE t # s
    BY Zenon, <1>3, <1>4, <2>1, <2>2, <2>4, PlaceKept DEF PoolInv
  <2> QED BY Zenon, <2>3, <2>4
<1>8. ASSUME NEW d \in Caller PROVE Answered(d)'
  <2>1. \A u \in Thread : Posts(u, d)' <=> Posts(u, d)
    BY SMTT(30), <1>3, <1>5 DEF Posts
  <2>2. pc'[d] = "start" <=> pc[d] = "start"
    BY SMTT(30), <1>3, <1>5 DEF Thread
  <2>3. CASE d # c
    <3>1. nth'[d] = nth[d]
      BY Zenon, <1>1, <1>3, <2>3 DEF TypeInv
    <3>2. SameAnswer(d)
      BY Zenon, <1>3, <2>1, <2>2, <3>1 DEF SameAnswer
    <3> QED BY Zenon, <1>1, <3>2, AnsweredKept DEF PoolInv
  <2>4. CASE d = c
    <3>1. Open(d)' = Open(d)
      BY Zenon, <1>3 DEF Open
    <3>2. pc[d] # "start" /\ pc'[d] # "start" /\ Answered(d)
      BY Zenon, <1>3, <2>2, <2>4 DEF PoolInv
    <3> QED BY Zenon, <1>1, <1>3, <2>1, <3>1, <3>2 DEF Answered
  <2> QED BY Zenon, <2>3, <2>4
<1> QED BY Zenon, <1>6, <1>7, <1>8 DEF PoolInv, Task

\* A pool without workers runs the task as it is pushed.
LEMMA RunInlineStep ==
  ASSUME PoolInv, NEW c \in Caller, RunInline(c)
  PROVE  PoolInv'
<1>1. TypeInv /\ Worker' = Worker /\ Thread' = Thread /\ c \in Thread
  BY Zenon DEF PoolInv, TypeInv, Worker, Thread, RunInline
<1>2. PICK n : n = nth[c]
  BY Zenon
<1>3. PICK s : s = <<c, round[c], nth[c]>>
  BY Zenon
<1>4. /\ pc[c] = "fill" /\ nth[c] <= Batch /\ Completed(c, c, "fill")
      /\ nth' = [nth EXCEPT ![c] = @ + 1]
      /\ task' = [task EXCEPT ![c] = s] /\ ran' = [ran EXCEPT ![s] = @ + 1]
      /\ UNCHANGED <<len_thr, index, ring, i, first, round, sem>>
  BY Zenon, <1>3 DEF RunInline
<1>5. /\ s \in Task /\ ~Given(s)
      /\ \A t \in Task : Given(t)' <=> Given(t) \/ t = s
      /\ nth' \in [Caller -> 1..(Batch + 1)]
      /\ nth[c] \in 1..Batch /\ round[c] \in 1..Rounds
  BY Zenon, <1>3, <1>4, NextGiven
<1>6. pc' = [pc EXCEPT ![c] = IF counter[c] = 1 THEN "post" ELSE "fill"]
  BY Zenon, <1>4 DEF Completed, Goto
<1>7. /\ \A u \in Thread : /\ pc'[u] = IF u = c THEN (IF counter[c] = 1 THEN "post" ELSE "fill") ELSE pc[u]
                           /\ task'[u] = IF u = c THEN s ELSE task[u]
  BY Zenon, <1>1, <1>4, <1>6 DEF TypeInv
<1>8. TypeInv'
  <2>1. pc' = [u \in Thread |-> pc'[u]]
    BY Zenon, <1>1, <1>6 DEF TypeInv
  <2>2. task' = [u \in Thread |-> task'[u]]
    BY Zenon, <1>1, <1>4 DEF TypeInv
  <2>3. counter' \in [Caller -> Int] /\ ran' \in [Task -> Nat]
    BY SMTT(30), <1>1, <1>4, <1>5 DEF TypeInv, Completed
  <2>4. \A u \in Thread : /\ pc'[u] \in Holding => task'[u] \in Held
                          /\ pc'[u] = "post" => task'[u] \in Task
                          /\ pc'[u] = "push" => len_thr > 0
    BY Zenon, <1>1, <1>5, <1>7 DEF TypeInv, Holding
  <2>5. \A d \in Caller : pc'[d] # "start" => round[d] <= Rounds
    BY Zenon, <1>1, <1>4, <1>7 DEF TypeInv, Thread
  <2>6. Held' = Held /\ Task' = Task
    BY Zenon DEF Held, Task
  <2> QED BY Zenon, <1>1, <1>4, <1>5, <2>1, <2>2, <2>3, <2>4, <2>5, <2>6 DEF TypeInv
<1>9. ASSUME NEW t \in Task PROVE OnePlace(t)'
  <2>1. \A u \in Thread : Holds(u, t)' <=> Holds(u, t)
    BY Zenon, <1>4, <1>7 DEF Holds, Holding
  <2>2. \A k, j : Lies(k, j, t)' <=> Lies(k, j, t)
    BY Zenon, <1>4 DEF Lies
  <2>3. CASE t = s
    <3>1. /\ ran[t] = 0
          /\ \A u \in Thread : ~Holds(u, t)'
          /\ \A k \in Worker, j \in Nat : ~Lies(k, j, t)'
      BY Zenon, <1>5, <2>1, <2>2, <2>3, NotGiven
    <3>2. Given(t)' /\ ran'[t] = 1
      BY SMTT(30), <1>1, <1>4, <1>5, <2>3, <3>1 DEF TypeInv
    <3> QED BY Zenon, <1>1, <3>1, <3>2 DEF OnePlace
  <2>4. CASE t # s
    <3>1. ran'[t] = ran[t]
      BY Zenon, <1>1, <1>4, <2>4 DEF TypeInv
    <3> QED BY Zenon, <1>4, <1>5, <2>1, <2>2, <2>4, <3>1, PlaceKept DEF PoolInv
  <2> QED BY Zenon, <2>3, <2>4
<1>10. \A r \in 1..Rounds, m \in 1..Batch, d \in Caller :
         d # c => ran'[<<d, r, m>>] = ran[<<d, r, m>>]
  <2> SUFFICES ASSUME NEW r \in 1..Rounds, NEW m \in 1..Batch, NEW d \in Caller, d # c
               PROVE  ran'[<<d, r, m>>] = ran[<<d, r, m>>]
    BY Zenon
  <2>1. <<d, r, m>> \in Task /\ <<d, r, m>> # s
    BY Zenon, <1>3, TaskParts
  <2> QED BY Zenon, <1>1, <1>4, <2>1 DEF TypeInv
<1>11. ASSUME NEW d \in Caller, d # c PROVE Answered(d)'
  <2>1. \A u \in Thread : Posts(u, d)' <=> Posts(u, d)
    <3>1. s[1] = c
      BY Zenon, <1>3
    <3>2. ~Posts(c, d) /\ ~Posts(c, d)'
      BY Zenon, <1>1, <1>4, <1>7, <1>11, <3>1 DEF Posts
    <3>3. \A u \in Thread \ {c} : Posts(u, d)' <=> Posts(u, d)
      BY Zenon, <1>7 DEF Posts
    <3> QED BY Zenon, <3>2, <3>3
  <2>2. pc'[d] = "start" <=> pc[d] = "start"
    BY Zenon, <1>7, <1>11 DEF Thread
  <2>3. nth'[d] = nth[d] /\ counter'[d] = counter[d]
    BY Zenon, <1>1, <1>4, <1>11 DEF TypeInv, Completed
  <2>4. SameAnswer(d)
    BY Zenon, <1>4, <1>10, <1>11, <2>1, <2>2, <2>3 DEF SameAnswer
  <2> QED BY Zenon, <1>1, <2>4, AnsweredKept DEF PoolInv
<1>12. Answered(c)'
  <2>1. ran[s] = 0
    BY Zenon, <1>5, NotGiven
  <2>2. n \in Open(c)
    BY Zenon, <1>2, <1>3, <1>5, <2>1 DEF Open
  <2>3. ran' = [ran EXCEPT ![<<c, round[c], n>>] = @ + 1]
    BY Zenon, <1>2, <1>3, <1>4
  <2>4. task'[c][1] = c /\ \A v \in Thread \ {c} : task'[v] = task[v]
    BY SMTT(30), <1>1, <1>3, <1>7
  <2>5. /\ Completed(c, c, "fill") /\ "fill" # "post" /\ "fill" # "start" /\ pc[c] # "start"
        /\ len_thr' = len_thr /\ round' = round /\ sem' = sem
    BY Zenon, <1>4
  <2>6. Answered(c)
    BY Zenon DEF PoolInv
  <2> QED BY Zenon, <1>1, <2>2, <2>3, <2>4, <2>5, <2>6, CompletedStep
<1> QED BY Zenon, <1>8, <1>9, <1>11, <1>12 DEF PoolInv, Task

-----------------------------------------------------------------------------
(* The invariant and the theorems                                          *)

\* The queue that a thread pushes to is one of the pool's.
LEMMA TargetIn ==
  ASSUME TypeInv, NEW t \in Thread, len_thr > 0
  PROVE  Target(t) \in Worker
<1>1. len_thr \in Nat \ {0} /\ i[t] + first[t] \in Nat
  BY Apart DEF TypeInv
<1> QED BY Zenon, <1>1, ModIn DEF Target, Worker

\* pushTpool keeps the invariant.
LEMMA PushStep ==
  ASSUME PoolInv, NEW t \in Thread, PushSteps(t)
  PROVE  PoolInv'
<1>1. CASE TryPush(t) \/ Push(t)
  <2>1. pc[t] = "push" /\ PutIn(t, Target(t))
    BY Zenon, <1>1 DEF TryPush, Push
  <2>2. TypeInv /\ len_thr > 0
    BY Zenon, <2>1 DEF PoolInv, TypeInv
  <2> QED BY Zenon, <2>1, <2>2, TargetIn, PutInStep
<1>2. CASE PassOver(t) \/ PushAsserts(t) \/ PushUnlock(t)
  BY Zenon, <1>2, PassOverStep
<1>3. CASE Signal(t)
  BY Zenon, <1>3, SignalStep
<1> QED BY Zenon, <1>1, <1>2, <1>3 DEF PushSteps

\* A worker that finds a task takes the first one.
LEMMA PopStep ==
  ASSUME PoolInv, NEW w \in Worker, TryPop(w) \/ Pop(w)
  PROVE  PoolInv'
<1>1. TypeInv /\ w \in Thread /\ w \notin Caller /\ len_thr \in Nat \ {0}
  <2>1. TypeInv /\ len_thr \in Workers /\ w \in Thread
    BY Zenon DEF PoolInv, TypeInv, Thread
  <2> QED BY <2>1, Apart
<1>2. CASE Pop(w)
  BY Zenon, <1>2, TakeOutStep DEF Pop, jobs, answer
<1>3. CASE TryPop(w)
  <2> DEFINE k == i[w] % len_thr
  <2>1. i[w] \in Nat
    BY Zenon, <1>1 DEF TypeInv
  <2>2. k \in Worker
    BY Zenon, <1>1, <2>1, ModIn DEF Worker
  <2>3. /\ pc[w] = "scan" /\ UNCHANGED <<len_thr, index, i, first, round, nth, counter, sem, ran>>
        /\ \/ Size(ring[k]) > 0 /\ TakeOut(w, k)
           \/ Size(ring[k]) = 0 /\ Goto(w, "peeked") /\ UNCHANGED <<ring, task>>
    BY Zenon, <1>3 DEF TryPop, jobs, answer
  <2> HIDE DEF k
  <2>4. CASE Size(ring[k]) > 0 /\ TakeOut(w, k)
    BY Zenon, <2>2, <2>3, <2>4, TakeOutStep
  <2>5. CASE Goto(w, "peeked") /\ UNCHANGED <<ring, task>>
    <3>1. index' \in Nat /\ i' \in [Thread -> Nat] /\ first' \in [Thread -> Nat]
      BY Zenon, <1>1, <2>3 DEF TypeInv
    <3>2. "peeked" \in Holding <=> pc[w] \in Holding
      BY Zenon, <2>3 DEF Holding
    <3> QED BY Zenon, <1>1, <2>3, <2>5, <3>1, <3>2, GotoQuiet DEF Goto
  <2> QED BY Zenon, <2>3, <2>4, <2>5
<1> QED BY Zenon, <1>2, <1>3

\* Every step keeps the invariant.
LEMMA PoolNext == PoolInv /\ [Next]_vars => PoolInv'
<1> SUFFICES ASSUME PoolInv, [Next]_vars PROVE PoolInv'
  BY Zenon
<1>1. CASE UNCHANGED vars
  <2>1. index' \in Nat /\ i' \in [Thread -> Nat] /\ first' \in [Thread -> Nat]
    BY Zenon, <1>1 DEF vars, PoolInv, TypeInv
  <2> QED BY Zenon, <1>1, <2>1, StayQuiet DEF vars
<1>2. ASSUME NEW w \in Worker, WorkerSteps(w) PROVE PoolInv'
  <2>1. w \in Thread
    BY Zenon DEF Thread
  <2>2. CASE TryPop(w) \/ Pop(w)
    BY Zenon, <2>2, PopStep
  <2>3. CASE SkipLocked(w) \/ PeekUnlock(w) \/ PopLock(w) \/ PopWait(w) \/ PopUnlock(w) \/ PassOn(w)
    BY Zenon, <2>3, WorkerQuiet
  <2>4. CASE Run(w)
    BY Zenon, <2>4, RunStep
  <2>5. CASE Post(w)
    BY Zenon, <2>1, <2>5, PostStep
  <2>6. CASE PushSteps(w)
    BY Zenon, <2>1, <2>6, PushStep
  <2> QED BY Zenon, <1>2, <2>2, <2>3, <2>4, <2>5, <2>6 DEF WorkerSteps
<1>3. ASSUME NEW c \in Caller, CallerSteps(c) PROVE PoolInv'
  <2>1. c \in Thread
    BY Zenon DEF Thread
  <2> QED BY Zenon, <1>3, <2>1, InitAnsStep, PushNextStep, RunInlineStep, PostStep, JoinStep, PushStep DEF CallerSteps
<1>4. ASSUME MainSteps PROVE PoolInv'
  <2>1. Main \in Thread
    BY Zenon DEF Thread
  <2> QED BY Zenon, <1>4, <2>1, MainStep, PushStep DEF MainSteps
<1>5. ASSUME NEW w \in Worker, SpuriousWake(w) PROVE PoolInv'
  BY Zenon, <1>5, WorkerQuiet
<1>6. ASSUME NEW t \in Thread, Step(t) PROVE PoolInv'
  BY Zenon, <1>2, <1>3, <1>4, <1>6 DEF Step
<1> QED BY Zenon, <1>1, <1>5, <1>6 DEF Next

\* The invariant holds in every pool, however many workers, callers and tasks
\* it has and however often its rings grow.
LEMMA PoolInvariant == Spec => []PoolInv
<1>1. Init => PoolInv
  BY Zenon, PoolInit
<1> QED BY <1>1, PoolNext, PTL DEF Spec

\* A task given to pushTpool is in one place or has been run once.
THEOREM PoolTasksAccounted == Spec => []TasksAccounted
<1>1. PoolInv => TasksAccounted
  <2> SUFFICES ASSUME PoolInv, NEW c \in Caller, NEW r \in 1..Rounds, NEW n \in 1..Batch
               PROVE  LET t == <<c, r, n>>
                      IN  ran[t] + Cardinality(Queued(t)) + Cardinality(InHand(t)) =
                            (IF r < round[c] \/ (r = round[c] /\ n < nth[c]) THEN 1 ELSE 0)
    BY Zenon DEF TasksAccounted
  <2>1. PICK t : t = <<c, r, n>>
    BY Zenon
  <2>2. t \in Task /\ t[1] = c /\ t[2] = r /\ t[3] = n
    BY Zenon, <2>1, TaskParts
  <2>3. TypeInv /\ OnePlace(t)
    BY Zenon, <2>2 DEF PoolInv
  <2>4. Given(t) <=> r < round[c] \/ (r = round[c] /\ n < nth[c])
    BY Zenon, <2>2 DEF Given
  <2>5. \A u : u \in InHand(t) <=> u \in Thread /\ Holds(u, t)
    BY Zenon DEF InHand, Holds, Holding
  <2>6. \A p : p \in Queued(t) <=> \E k \in Worker, j \in Nat : p = <<k, j>> /\ Lies(k, j, t)
    <3>1. \A k \in Worker : Size(ring[k]) \in Nat
      <4>1. \A k \in Worker : IsRing(ring[k])
        BY Zenon, <2>3 DEF TypeInv
      <4>2. ASSUME NEW q, IsRing(q) PROVE Size(q) \in Nat
        BY <4>2 DEF IsRing, Size
      <4> QED BY Zenon, <4>1, <4>2
    <3>2. ASSUME NEW p \in Queued(t) PROVE \E k \in Worker, j \in Nat : p = <<k, j>> /\ Lies(k, j, t)
      <4>1. PICK k \in Worker : p \in {k} \X (0..(Size(ring[k]) - 1))
        BY Zenon DEF Queued
      <4>2. PICK j \in 0..(Size(ring[k]) - 1) : p = <<k, j>>
        BY <4>1
      <4>3. Slot(ring[k], j) = t
        BY Zenon, <4>2 DEF Queued, Slot
      <4>4. j \in Nat /\ j < Size(ring[k])
        BY <3>1
      <4> QED BY Zenon, <4>2, <4>3, <4>4 DEF Lies
    <3>3. ASSUME NEW k \in Worker, NEW j \in Nat, Lies(k, j, t) PROVE <<k, j>> \in Queued(t)
      <4>1. j \in 0..(Size(ring[k]) - 1) /\ At(ring[k], ring[k].tail + j) = t
        BY <3>1, <3>3 DEF Lies, Slot
      <4>2. <<k, j>> \in {k} \X (0..(Size(ring[k]) - 1))
        BY Zenon, <4>1
      <4> QED BY Zenon, <4>1, <4>2 DEF Queued
    <3> QED BY Zenon, <3>2, <3>3
  <2>7. ran[t] \in Nat
    BY Zenon, <2>2, <2>3 DEF TypeInv
  <2>8. Cardinality({}) = 0 /\ \A x : Cardinality({x}) = 1
    BY Zenon, FS_EmptySet, FS_Singleton
  <2>9. ran[t] + Cardinality(Queued(t)) + Cardinality(InHand(t)) = (IF Given(t) THEN 1 ELSE 0)
    <3>1. CASE ran[t] # 0
      <4>1. InHand(t) = {} /\ Queued(t) = {} /\ ran[t] = 1 /\ Given(t)
        BY Zenon, <2>3, <2>5, <2>6, <3>1 DEF OnePlace
      <4> QED BY <2>8, <4>1
    <3>2. CASE ran[t] = 0 /\ \E u \in Thread : Holds(u, t)
      <4>1. PICK u \in Thread : Holds(u, t)
        BY Zenon, <3>2
      <4>2. InHand(t) = {u} /\ Queued(t) = {} /\ Given(t)
        BY Zenon, <2>3, <2>5, <2>6, <4>1 DEF OnePlace
      <4>3. Cardinality(InHand(t)) = 1 /\ Cardinality(Queued(t)) = 0
        BY Zenon, <2>8, <4>2
      <4> QED BY SMTT(30), <3>2, <4>2, <4>3
    <3>3. CASE ran[t] = 0 /\ \E k \in Worker, j \in Nat : Lies(k, j, t)
      <4>1. PICK k \in Worker, j \in Nat : Lies(k, j, t)
        BY Zenon, <3>3
      <4>2. InHand(t) = {} /\ Queued(t) = {<<k, j>>} /\ Given(t)
        BY SMTT(30), <2>3, <2>5, <2>6, <4>1 DEF OnePlace
      <4>3. Cardinality(InHand(t)) = 0 /\ Cardinality(Queued(t)) = 1
        BY Zenon, <2>8, <4>2
      <4> QED BY SMTT(30), <3>3, <4>2, <4>3
    <3>4. CASE /\ ran[t] = 0 /\ ~(\E u \in Thread : Holds(u, t))
                /\ ~(\E k \in Worker, j \in Nat : Lies(k, j, t))
      <4>1. InHand(t) = {} /\ Queued(t) = {} /\ ~Given(t)
        BY SMTT(30), <2>3, <2>5, <2>6, <3>4 DEF OnePlace
      <4> QED BY SMTT(30), <2>8, <3>4, <4>1
    <3> QED BY Zenon, <3>1, <3>2, <3>3, <3>4
  <2> QED BY Zenon, <2>1, <2>4, <2>9
<1> QED BY <1>1, PoolInvariant, PTL

\* join_task_ans returns when every task of the answer has been run, and
\* nobody posts to an answer that is over.
THEOREM PoolJoinWaits == Spec => []JoinWaits
<1>1. PoolInv => JoinWaits
  BY Zenon DEF PoolInv, Answered, Posts, JoinWaits
<1> QED BY <1>1, PoolInvariant, PTL

=============================================================================
