----------------------- MODULE NrPdcpRlcThreadsProofs ------------------------
(***************************************************************************)
(* Proofs about the order of PDUs and SDUs between PDCP and RLC, for any   *)
(* bearers, MAC threads and size of the queues.                            *)
(***************************************************************************)
EXTENDS NrPdcpRlcThreads, TLAPS

-----------------------------------------------------------------------------
(* A ring, what its consumer is doing and what it has handed over          *)

\* What a slot may hold
Slot(S) == S \cup {<<>>}

Ring(S) == [start : 0..(Size - 1), length : 0..Size, slot : [0..(Size - 1) -> Slot(S)]]

\* A ring r with items of S whose consumer, in state c, has handed over h
Sound(S, h, r, c) ==
  r \in Ring(S) /\ h \in Seq(S) /\ c \in {"idle", "busy", "done"} /\ (c # "idle" => r.length > 0)

First(c) == IF c = "done" THEN 1 ELSE 0

Place(r, k) == (r.start + k) % Size

\* Everything that was ever put in: what has been handed over, then what has not
Stream(h, r, c) ==
  [n \in 1..(Len(h) + r.length - First(c)) |->
     IF n <= Len(h) THEN h[n] ELSE r.slot[Place(r, First(c) + n - Len(h) - 1)]]

\* The ring after an item was put in
WithItem(r, item) == [r EXCEPT !.slot[(r.start + r.length) % Size] = item, !.length = @ + 1]

\* Places in the ring, which goes around once at most
LEMMA Around ==
  ASSUME NEW x \in Nat, x < 2 * Size
  PROVE  x % Size = IF x < Size THEN x ELSE x - Size
<1>1. Size \in Nat \ {0} BY ThreadAssumption
<1>2. CASE x < Size BY <1>1, <1>2
<1>3. CASE x >= Size
  <2>1. x - Size \in 0..(Size - 1) BY <1>1, <1>3
  <2> QED BY <1>1, <1>3, <2>1
<1> QED BY <1>1, <1>2, <1>3

\* The places of a ring are places of the array, and different ones.
LEMMA Places ==
  ASSUME NEW S, NEW r \in Ring(S), NEW k \in 0..(Size - 1)
  PROVE  /\ Place(r, k) \in 0..(Size - 1)
         /\ \A j \in 0..(Size - 1) : j < k => Place(r, j) # Place(r, k)
         /\ Place(r, 0) = r.start
<1>1. Size \in Nat \ {0} /\ r.start \in 0..(Size - 1) BY ThreadAssumption DEF Ring
<1>2. \A j \in 0..(Size - 1) : Place(r, j) = IF r.start + j < Size THEN r.start + j ELSE r.start + j - Size
  BY <1>1, Around DEF Place
<1> HIDE DEF Place
<1>3. 0 \in 0..(Size - 1) BY <1>1
<1> QED BY <1>1, <1>2, <1>3

\* Sequences of the same length with the same elements
LEMMA SameSeq ==
  ASSUME NEW S, NEW s \in Seq(S), NEW t \in Seq(S), Len(s) = Len(t), \A i \in 1..Len(s) : s[i] = t[i]
  PROVE  s = t
OBVIOUS

\* Length and elements of a sequence with one more element
LEMMA Appended ==
  ASSUME NEW S, NEW s \in Seq(S), NEW e \in S
  PROVE  /\ Append(s, e) \in Seq(S) /\ Len(Append(s, e)) = Len(s) + 1 /\ Len(s) \in Nat
         /\ \A i \in 1..Len(s) : Append(s, e)[i] = s[i]
         /\ Append(s, e)[Len(s) + 1] = e
OBVIOUS

\* Length and items of a stream
LEMMA StreamIs ==
  ASSUME NEW S, NEW h, NEW r, NEW c, Sound(S, h, r, c), NEW N, N = Len(h) + r.length - First(c)
  PROVE  /\ N \in Nat /\ Len(h) \in Nat /\ Len(h) <= N
         /\ Stream(h, r, c) \in Seq(Slot(S)) /\ Len(Stream(h, r, c)) = N
         /\ \A n \in 1..Len(h) : Stream(h, r, c)[n] = h[n]
         /\ \A n \in 1..N : n > Len(h) =>
               Stream(h, r, c)[n] = r.slot[Place(r, First(c) + n - Len(h) - 1)]
<1> DEFINE s == Stream(h, r, c)
<1>1. /\ r.length \in 0..Size /\ Size \in Nat /\ Len(h) \in Nat /\ r \in Ring(S) /\ h \in Seq(S)
      /\ r.slot \in [0..(Size - 1) -> Slot(S)]
  BY ThreadAssumption DEF Sound, Ring
<1>2. First(c) \in {0, 1} /\ First(c) <= r.length BY <1>1 DEF Sound, First
<1>3. N \in Nat /\ Len(h) <= N BY <1>1, <1>2
<1>4. s = [n \in 1..N |-> IF n <= Len(h) THEN h[n] ELSE r.slot[Place(r, First(c) + n - Len(h) - 1)]]
  BY DEF Stream
<1>5. ASSUME NEW n \in 1..N, n > Len(h) PROVE r.slot[Place(r, First(c) + n - Len(h) - 1)] \in Slot(S)
  <2>1. First(c) + n - Len(h) - 1 \in 0..(Size - 1) BY SMTT(30), <1>1, <1>2, <1>5
  <2>2. Place(r, First(c) + n - Len(h) - 1) \in 0..(Size - 1) BY <1>1, <2>1, Places
  <2> QED BY <1>1, <2>2
<1>6. \A n \in 1..Len(h) : h[n] \in Slot(S) BY <1>1 DEF Slot
<1> HIDE DEF s
<1>7. s \in [1..N -> Slot(S)] BY SMTT(30), <1>1, <1>3, <1>4, <1>5, <1>6
<1>8. s \in Seq(Slot(S)) /\ Len(s) = N BY <1>3, <1>7
<1> QED BY <1>1, <1>3, <1>4, <1>8 DEF s

\* The ring after an item has been put in
LEMMA RingPut ==
  ASSUME NEW S, NEW r \in Ring(S), r.length < Size, NEW item \in S, NEW r2, r2 = WithItem(r, item)
  PROVE  /\ r2 \in Ring(S) /\ r2.start = r.start /\ r2.length = r.length + 1
         /\ r2.slot[Place(r, r.length)] = item
         /\ \A i \in 0..(Size - 1) : i # Place(r, r.length) => r2.slot[i] = r.slot[i]
<1> DEFINE f == [r.slot EXCEPT ![Place(r, r.length)] = item]
<1>1. /\ r.length \in 0..(Size - 1) /\ r.start \in 0..(Size - 1) /\ Size \in Nat
      /\ r.slot \in [0..(Size - 1) -> Slot(S)]
  BY ThreadAssumption DEF Ring
<1>2. Place(r, r.length) \in 0..(Size - 1) BY <1>1, Places
<1>3. f \in [0..(Size - 1) -> Slot(S)] BY <1>1, <1>2 DEF Slot
<1>4. r.length + 1 \in 0..Size BY <1>1
<1>5. r2.start = r.start /\ r2.length = r.length + 1 /\ r2.slot = f BY DEF Ring, Place, WithItem
<1>6. r2 \in Ring(S)
  <2>1. r2 = [[r EXCEPT !.slot = f] EXCEPT !.length = r.length + 1] BY DEF Ring, Place, WithItem
  <2> HIDE DEF f
  <2>2. [r EXCEPT !.slot = f] \in Ring(S) BY <1>3, Zenon DEF Ring
  <2> QED BY <1>4, <2>1, <2>2, Zenon DEF Ring
<1>7. f[Place(r, r.length)] = item /\ \A i \in 0..(Size - 1) : i # Place(r, r.length) => f[i] = r.slot[i]
  BY <1>1, <1>2
<1> HIDE DEF f
<1>8. r2.slot[Place(r, r.length)] = item /\ \A i \in 0..(Size - 1) : i # Place(r, r.length) => r2.slot[i] = r.slot[i]
  BY <1>5, <1>7
<1> QED BY <1>5, <1>6, <1>8

\* Putting an item in appends it to the stream.
LEMMA PutAppends ==
  ASSUME NEW S, NEW h, NEW r, NEW c, Sound(S, h, r, c), r.length < Size, NEW item \in S,
         NEW r2 \in Ring(S), r2.start = r.start, r2.length = r.length + 1,
         r2.slot[Place(r, r.length)] = item,
         \A i \in 0..(Size - 1) : i # Place(r, r.length) => r2.slot[i] = r.slot[i]
  PROVE  Sound(S, h, r2, c) /\ Stream(h, r2, c) = Append(Stream(h, r, c), item)
<1> DEFINE N == Len(h) + r.length - First(c)
           s == Stream(h, r, c)
           s2 == Stream(h, r2, c)
           p == Place(r, r.length)
<1>1. /\ r \in Ring(S) /\ r.length \in 0..Size /\ r.length \in 0..(Size - 1) /\ r.start \in 0..(Size - 1)
      /\ Size \in Nat /\ h \in Seq(S) /\ Len(h) \in Nat /\ c \in {"idle", "busy", "done"}
      /\ r.slot \in [0..(Size - 1) -> Slot(S)]
  BY ThreadAssumption DEF Sound, Ring
<1>2. /\ p \in 0..(Size - 1)
      /\ \A j \in 0..(Size - 1) : j < r.length => Place(r, j) # p /\ Place(r, j) \in 0..(Size - 1)
  BY SMTT(30), <1>1, Places
<1>6. Sound(S, h, r2, c) BY <1>1 DEF Sound
<1>7. \A k : Place(r2, k) = Place(r, k) BY DEF Place
<1>8. First(c) \in {0, 1} /\ First(c) <= r.length BY <1>1 DEF Sound, First
<1>9. /\ N \in Nat /\ Len(h) <= N /\ s \in Seq(Slot(S)) /\ Len(s) = N
      /\ \A n \in 1..Len(h) : s[n] = h[n]
      /\ \A n \in 1..N : n > Len(h) => s[n] = r.slot[Place(r, First(c) + n - Len(h) - 1)]
  BY StreamIs
<1>10. Len(h) + r2.length - First(c) = N + 1
  <2> DEFINE a == Len(h)
             b == r.length
             d == First(c)
  <2>1. a \in Nat /\ b \in Nat /\ d \in Nat BY <1>1, <1>8
  <2> HIDE DEF a, b, d
  <2>2. a + (b + 1) - d = (a + b - d) + 1 BY <2>1
  <2> QED BY <2>2 DEF a, b, d
<1>11. /\ s2 \in Seq(Slot(S)) /\ Len(s2) = N + 1
       /\ \A n \in 1..Len(h) : s2[n] = h[n]
       /\ \A n \in 1..(N + 1) : n > Len(h) => s2[n] = r2.slot[Place(r, First(c) + n - Len(h) - 1)]
  <2>1. PICK M : M = N + 1 OBVIOUS
  <2>2. M = Len(h) + r2.length - First(c) BY <1>10, <2>1
  <2>3. /\ s2 \in Seq(Slot(S)) /\ Len(s2) = M
        /\ \A n \in 1..Len(h) : s2[n] = h[n]
        /\ \A n \in 1..M : n > Len(h) => s2[n] = r2.slot[Place(r2, First(c) + n - Len(h) - 1)]
    <3>1. Sound(S, h, r2, c) BY <1>6
    <3> QED BY <2>2, <3>1, StreamIs
  <2> QED BY <1>7, <2>1, <2>3
<1> HIDE DEF s, s2, p, First, Place
<1>12. \A n \in 1..N : s2[n] = s[n]
  <2>1. TAKE n \in 1..N
  <2>2. CASE n <= Len(h) BY SMTT(30), <1>1, <1>9, <1>11, <2>2
  <2>3. CASE n > Len(h)
    <3> DEFINE k == First(c) + n - Len(h) - 1
    <3>1. k \in 0..(Size - 1) /\ k < r.length
      <4>1. /\ First(c) \in Nat /\ Len(h) \in Nat /\ r.length \in 0..Size /\ n \in Nat
            /\ n <= N /\ Size \in Nat
        BY SMTT(30), <1>1, <1>8, <1>9
      <4> QED BY SMTT(30), <2>3, <4>1
    <3>2. n \in 1..(N + 1) BY <1>9
    <3> HIDE DEF k
    <3>3. r2.slot[Place(r, k)] = r.slot[Place(r, k)] BY SMTT(30), <1>1, <1>2, <3>1 DEF p
    <3> QED BY SMTT(30), <1>9, <1>11, <2>3, <3>2, <3>3 DEF k
  <2> QED BY <1>1, <1>9, <2>2, <2>3
<1>13. s2[N + 1] = item
  <2>1. First(c) + (N + 1) - Len(h) - 1 = r.length BY SMTT(30), <1>1, <1>8
  <2>2. N + 1 \in 1..(N + 1) /\ N + 1 > Len(h) BY SMTT(30), <1>1, <1>9
  <2>3. s2[N + 1] = r2.slot[p] BY <1>11, <2>1, <2>2 DEF p
  <2> QED BY <1>1, <1>2, <2>3 DEF p
<1>14. item \in Slot(S) BY DEF Slot
<1>15. /\ Append(s, item) \in Seq(Slot(S)) /\ Len(Append(s, item)) = N + 1
       /\ \A n \in 1..N : Append(s, item)[n] = s[n]
       /\ Append(s, item)[N + 1] = item
  BY SMTT(30), <1>9, <1>14, Appended
<1>16. \A n \in 1..(N + 1) : s2[n] = Append(s, item)[n] BY <1>9, <1>12, <1>13, <1>15
<1>17. s2 = Append(s, item) BY ZenonT(60), <1>11, <1>15, <1>16, SameSeq
<1> QED BY <1>6, <1>17 DEF s, s2

\* The same, for the ring that DataQueue's Put makes.
LEMMA PutStep ==
  ASSUME NEW S, NEW h, NEW r, NEW c, Sound(S, h, r, c), r.length < Size, NEW item \in S, NEW r2,
         r2 = WithItem(r, item)
  PROVE  Sound(S, h, r2, c) /\ Stream(h, r2, c) = Append(Stream(h, r, c), item)
<1>1. r \in Ring(S) BY DEF Sound
<1>2. /\ r2 \in Ring(S) /\ r2.start = r.start /\ r2.length = r.length + 1
      /\ r2.slot[Place(r, r.length)] = item
      /\ \A i \in 0..(Size - 1) : i # Place(r, r.length) => r2.slot[i] = r.slot[i]
  BY <1>1, RingPut
<1> QED BY <1>2, PutAppends

\* What the consumer is about to hand over is the stream's next item.
LEMMA OldestItem ==
  ASSUME NEW S, NEW h, NEW r, Sound(S, h, r, "busy")
  PROVE  LET s == Stream(h, r, "busy")
             N == Len(h) + r.length
         IN  /\ N \in Nat /\ Len(h) \in Nat /\ Len(h) < N /\ s \in Seq(Slot(S)) /\ Len(s) = N
             /\ \A n \in 1..Len(h) : s[n] = h[n]
             /\ \A n \in 1..N : n > Len(h) => s[n] = r.slot[Place(r, n - Len(h) - 1)]
             /\ s[Len(h) + 1] = r.slot[r.start]
<1> DEFINE N == Len(h) + r.length
           s == Stream(h, r, "busy")
<1>1. /\ r \in Ring(S) /\ r.length \in 1..Size /\ Size \in Nat \ {0} /\ h \in Seq(S) /\ Len(h) \in Nat
  BY ThreadAssumption DEF Sound, Ring
<1>2. Place(r, 0) = r.start
  <2>1. 0 \in 0..(Size - 1) BY <1>1
  <2> QED BY <1>1, <2>1, Places
<1>3. First("busy") = 0 BY DEF First
<1>4. N \in Nat /\ Len(h) < N /\ N = Len(h) + r.length - First("busy") BY <1>1, <1>3
<1>5. /\ s \in Seq(Slot(S)) /\ Len(s) = N
      /\ \A n \in 1..Len(h) : s[n] = h[n]
      /\ \A n \in 1..N : n > Len(h) => s[n] = r.slot[Place(r, First("busy") + n - Len(h) - 1)]
  <2> HIDE DEF N
  <2> QED BY <1>4, StreamIs
<1>6. \A n \in 1..N : n > Len(h) => s[n] = r.slot[Place(r, n - Len(h) - 1)]
  <2>1. \A n \in 1..N : 0 + n - Len(h) - 1 = n - Len(h) - 1 BY <1>1, <1>4
  <2> QED BY <1>3, <1>5, <2>1
<1>7. s[Len(h) + 1] = r.slot[r.start]
  <2>1. Len(h) + 1 \in 1..N /\ Len(h) + 1 > Len(h) /\ (Len(h) + 1) - Len(h) - 1 = 0 BY <1>1
  <2>2. s[Len(h) + 1] = r.slot[Place(r, 0)] BY <1>6, <2>1
  <2> QED BY <1>2, <2>2
<1> QED BY <1>1, <1>4, <1>5, <1>6, <1>7

\* Handing it over leaves the stream as it is.
LEMMA HandKeeps ==
  ASSUME NEW S, NEW h, NEW r, Sound(S, h, r, "busy"),
         NEW h2 \in Seq(S), Len(h2) = Len(h) + 1, h2[Len(h) + 1] = r.slot[r.start],
         \A n \in 1..Len(h) : h2[n] = h[n]
  PROVE  Sound(S, h2, r, "done") /\ Stream(h2, r, "done") = Stream(h, r, "busy")
<1> DEFINE N == Len(h) + r.length
           s == Stream(h, r, "busy")
           s2 == Stream(h2, r, "done")
<1>1. r \in Ring(S) /\ r.length \in 1..Size /\ Size \in Nat \ {0} /\ Len(h) \in Nat
  BY ThreadAssumption DEF Sound, Ring
<1>3. First("done") = 1 BY DEF First
<1>5. /\ N \in Nat /\ Len(h) < N /\ s \in Seq(Slot(S)) /\ Len(s) = N
      /\ \A n \in 1..Len(h) : s[n] = h[n]
      /\ \A n \in 1..N : n > Len(h) => s[n] = r.slot[Place(r, n - Len(h) - 1)]
      /\ s[Len(h) + 1] = r.slot[r.start]
  BY OldestItem
<1>8. Sound(S, h2, r, "done") BY <1>1 DEF Sound
<1>9. /\ s2 \in Seq(Slot(S)) /\ Len(s2) = N
      /\ \A n \in 1..(Len(h) + 1) : s2[n] = h2[n]
      /\ \A n \in 1..N : n > Len(h) + 1 => s2[n] = r.slot[Place(r, 1 + n - (Len(h) + 1) - 1)]
  <2>1. PICK M : M = N OBVIOUS
  <2>2. M = Len(h2) + r.length - First("done") BY SMTT(30), <1>1, <1>3, <2>1
  <2>3. /\ s2 \in Seq(Slot(S)) /\ Len(s2) = M
        /\ \A n \in 1..Len(h2) : s2[n] = h2[n]
        /\ \A n \in 1..M : n > Len(h2) => s2[n] = r.slot[Place(r, First("done") + n - Len(h2) - 1)]
    BY SMTT(30), <1>8, <2>2, StreamIs
  <2> QED BY <1>3, <2>1, <2>3
<1> HIDE DEF s, s2
<1>10. \A n \in 1..N : s2[n] = s[n]
  <2>1. TAKE n \in 1..N
  <2>2. CASE n <= Len(h) BY SMTT(30), <1>1, <1>5, <1>9, <2>2
  <2>3. CASE n = Len(h) + 1 BY SMTT(30), <1>1, <1>5, <1>9, <2>3
  <2>4. CASE n > Len(h) + 1
    <3>1. 1 + n - (Len(h) + 1) - 1 = n - Len(h) - 1 /\ n > Len(h) BY SMTT(30), <1>1, <1>5, <2>4
    <3> QED BY SMTT(30), <1>5, <1>9, <2>4, <3>1
  <2> QED BY SMTT(30), <1>1, <1>5, <2>2, <2>3, <2>4
<1>11. s2 = s BY <1>5, <1>9, <1>10, SameSeq
<1> QED BY <1>8, <1>11 DEF s, s2

\* The ring after the item at its start has been removed
LEMMA RingRemove ==
  ASSUME NEW S, NEW r \in Ring(S), r.length > 0
  PROVE  LET r2 == [r EXCEPT !.length = @ - 1, !.start = (@ + 1) % Size]
         IN  /\ r2 \in Ring(S) /\ r2.start = (r.start + 1) % Size /\ r2.length = r.length - 1
             /\ r2.slot = r.slot
<1> DEFINE r2 == [r EXCEPT !.length = @ - 1, !.start = (@ + 1) % Size]
<1>1. r.length \in 0..Size /\ r.start \in 0..(Size - 1) /\ Size \in Nat \ {0}
  BY ThreadAssumption DEF Ring
<1>2. r.length - 1 \in 0..Size /\ (r.start + 1) % Size \in 0..(Size - 1) BY <1>1
<1>3. r2.start = (r.start + 1) % Size /\ r2.length = r.length - 1 /\ r2.slot = r.slot BY DEF Ring
<1>4. r2 \in Ring(S)
  <2>1. r2 = [[r EXCEPT !.length = r.length - 1] EXCEPT !.start = (r.start + 1) % Size] BY DEF Ring
  <2> HIDE DEF r2
  <2>2. [r EXCEPT !.length = r.length - 1] \in Ring(S) BY <1>2, Zenon DEF Ring
  <2> QED BY <1>2, <2>1, <2>2, Zenon DEF Ring
<1> QED BY <1>3, <1>4 DEF r2

\* The place behind the k-th one
LEMMA NextPlace ==
  ASSUME NEW x \in 0..(Size - 1), NEW k \in 0..(Size - 1), k + 1 < Size
  PROVE  (((x + 1) % Size) + k) % Size = (x + (1 + k)) % Size
<1>1. Size \in Nat \ {0} BY ThreadAssumption
<1>2. PICK a \in Nat, b \in Nat : a = x + 1 /\ b = x + (1 + k) BY <1>1
<1>3. a < 2 * Size /\ b < 2 * Size BY <1>1, <1>2
<1>4. a % Size = IF a < Size THEN a ELSE a - Size BY <1>3, Around
<1>5. b % Size = IF b < Size THEN b ELSE b - Size BY <1>3, Around
<1>6. PICK y \in Nat : y = a % Size BY <1>1, <1>2, <1>4
<1>7. PICK d \in Nat : d = y + k BY <1>1
<1>8. d < 2 * Size BY SMTT(30), <1>1, <1>3, <1>4, <1>6, <1>7
<1>9. d % Size = IF d < Size THEN d ELSE d - Size BY <1>8, Around
<1>10. d % Size = b % Size BY SMTT(30), <1>1, <1>2, <1>4, <1>5, <1>6, <1>7, <1>9
<1> QED BY <1>2, <1>6, <1>7, <1>10

\* So does removing it.
LEMMA RemoveKeeps ==
  ASSUME NEW S, NEW h, NEW r, Sound(S, h, r, "done"),
         NEW r2 \in Ring(S), r2.start = (r.start + 1) % Size, r2.length = r.length - 1, r2.slot = r.slot
  PROVE  Sound(S, h, r2, "idle") /\ Stream(h, r2, "idle") = Stream(h, r, "done")
<1> DEFINE N == Len(h) + r.length - 1
           s == Stream(h, r, "done")
           s2 == Stream(h, r2, "idle")
<1>1. /\ r \in Ring(S) /\ r.length \in 1..Size /\ Size \in Nat \ {0} /\ h \in Seq(S) /\ Len(h) \in Nat
      /\ r.start \in 0..(Size - 1)
  BY ThreadAssumption DEF Sound, Ring
<1>2. First("idle") = 0 /\ First("done") = 1 BY DEF First
<1>3. Sound(S, h, r2, "idle") BY SMTT(30), <1>1 DEF Sound
<1>4. /\ N \in Nat /\ Len(h) <= N /\ s \in Seq(Slot(S)) /\ Len(s) = N
      /\ \A n \in 1..Len(h) : s[n] = h[n]
      /\ \A n \in 1..N : n > Len(h) => s[n] = r.slot[Place(r, 1 + n - Len(h) - 1)]
  <2>1. PICK M : M = N OBVIOUS
  <2>2. M = Len(h) + r.length - First("done") BY SMTT(30), <1>2, <2>1
  <2>3. /\ s \in Seq(Slot(S)) /\ Len(s) = M
        /\ \A n \in 1..Len(h) : s[n] = h[n]
        /\ \A n \in 1..M : n > Len(h) => s[n] = r.slot[Place(r, First("done") + n - Len(h) - 1)]
    BY <2>2, StreamIs
  <2>4. N \in Nat /\ Len(h) <= N BY SMTT(30), <1>1
  <2> QED BY <1>2, <2>1, <2>3, <2>4
<1>5. /\ s2 \in Seq(Slot(S)) /\ Len(s2) = N
      /\ \A n \in 1..Len(h) : s2[n] = h[n]
      /\ \A n \in 1..N : n > Len(h) => s2[n] = r.slot[Place(r2, 0 + n - Len(h) - 1)]
  <2>1. PICK M : M = N OBVIOUS
  <2>2. M = Len(h) + r2.length - First("idle") BY SMTT(30), <1>1, <1>2, <2>1
  <2>3. /\ s2 \in Seq(Slot(S)) /\ Len(s2) = M
        /\ \A n \in 1..Len(h) : s2[n] = h[n]
        /\ \A n \in 1..M : n > Len(h) => s2[n] = r2.slot[Place(r2, First("idle") + n - Len(h) - 1)]
    BY <1>3, <2>2, StreamIs
  <2> QED BY <1>2, <2>1, <2>3
<1> HIDE DEF s, s2
<1>6. \A k \in 0..(Size - 1) : k + 1 < Size => Place(r2, k) = Place(r, 1 + k)
  BY ZenonT(60), <1>1, NextPlace DEF Place
<1>7. \A n \in 1..N : s2[n] = s[n]
  <2>1. TAKE n \in 1..N
  <2>2. CASE n <= Len(h) BY SMTT(30), <1>1, <1>4, <1>5, <2>2
  <2>3. CASE n > Len(h)
    <3> DEFINE k == n - Len(h) - 1
    <3>1. k \in 0..(Size - 1) /\ k + 1 < Size /\ 0 + n - Len(h) - 1 = k /\ 1 + n - Len(h) - 1 = 1 + k
      BY SMTT(30), <1>1, <1>4, <2>3
    <3> HIDE DEF k
    <3>2. Place(r2, k) = Place(r, 1 + k) BY <1>6, <3>1
    <3> QED BY SMTT(30), <1>4, <1>5, <2>3, <3>1, <3>2
  <2> QED BY SMTT(30), <1>1, <1>4, <2>2, <2>3
<1>8. s2 = s BY ZenonT(60), <1>4, <1>5, <1>7, SameSeq
<1> QED BY <1>3, <1>8 DEF s, s2

\* So does beginning to work on it.
LEMMA GetKeeps ==
  ASSUME NEW S, NEW h, NEW r, Sound(S, h, r, "idle"), r.length > 0
  PROVE  Sound(S, h, r, "busy") /\ Stream(h, r, "busy") = Stream(h, r, "idle")
<1>1. First("busy") = 0 /\ First("idle") = 0 BY DEF First
<1> QED BY <1>1 DEF Sound, Stream

-----------------------------------------------------------------------------
(* The invariant                                                           *)

PqStream == Stream(pq_handed, pq, pq_consumer)
QStream == Stream(q_handed, q, q_consumer)

Pdu == Rb \X Nat

\* Who puts PDUs into RLC's queue
Below == Rb \cup {"pdcpq", "timer"}

\* What was ever put into PDCP's queue: the SDUs 1, 2, 3, ... that RLC delivered
SduInv ==
  /\ Sound(Nat, pq_handed, pq, pq_consumer)
  /\ up \in Nat /\ PqStream \in Seq(Nat) /\ Len(PqStream) = up
  /\ \A n \in 1..up : PqStream[n] = n

QueueInv == Sound(Pdu, q_handed, q, q_consumer) /\ QStream \in Seq(Pdu)

ThreadType ==
  /\ tx_next \in [Rb -> Nat] /\ pdu \in [Thread -> Slot(Pdu)] /\ answered \in Nat
  /\ pc \in [Thread -> {"idle", "locked", "enqueue", "deliver"}]
  /\ \A t \in Below : pc[t] = "enqueue" => pdu[t] \in Pdu

\* COUNTs go into RLC's queue in their order, and the next one is in the hands of
\* the bearer's thread or yet to be given out.
CountInv ==
  /\ InCountOrder(QStream)
  /\ pc["pdcpq"] # "enqueue" /\ pc["timer"] # "enqueue"
  /\ \A rb \in Rb :
       IF pc[rb] = "enqueue"
       THEN /\ pdu[rb][1] = rb /\ tx_next[rb] = pdu[rb][2] + 1
            /\ NextCount(QStream, Len(QStream), rb, pdu[rb][2])
       ELSE NextCount(QStream, Len(QStream), rb, tx_next[rb])

ThreadsInv == SduInv /\ QueueInv /\ ThreadType /\ (answered = 0 => CountInv)

-----------------------------------------------------------------------------
(* PDCP's queue                                                            *)

\* A step that does not touch PDCP's queue
LEMMA PqKept ==
  ASSUME SduInv, UNCHANGED <<pq, pq_consumer, pq_handed, up>>
  PROVE  SduInv'
BY DEF SduInv, PqStream

\* A MAC thread puts the next SDU in.
LEMMA PqPut ==
  ASSUME SduInv, NEW m, Pq!Put(m, up + 1), up' = up + 1
  PROVE  SduInv'
<1>1. /\ pq' = WithItem(pq, up + 1)
      /\ pq.length < Size /\ pq_consumer' = pq_consumer /\ pq_handed' = pq_handed
  BY DEF Pq!Put, WithItem
<1>2. /\ Sound(Nat, pq_handed, pq, pq_consumer) /\ pq \in Ring(Nat) /\ up + 1 \in Nat
      /\ PqStream \in Seq(Nat) /\ Len(PqStream) = up /\ \A n \in 1..up : PqStream[n] = n
  BY DEF SduInv, Sound
<1>3. PICK item \in Nat : item = up + 1 BY <1>2
<1>5. Sound(Nat, pq_handed', pq', pq_consumer') /\ PqStream' = Append(PqStream, up + 1)
  <2>1. pq' = WithItem(pq, item) BY <1>1, <1>3
  <2>2. Sound(Nat, pq_handed, pq', pq_consumer) /\ Stream(pq_handed, pq', pq_consumer) = Append(PqStream, item)
    BY SMTT(30), <1>1, <1>2, <2>1, PutStep DEF PqStream
  <2> QED BY <1>1, <1>3, <2>2 DEF PqStream
<1> HIDE DEF PqStream
<1>6. /\ Append(PqStream, up + 1) \in Seq(Nat) /\ Len(Append(PqStream, up + 1)) = up + 1
      /\ \A n \in 1..up : Append(PqStream, up + 1)[n] = PqStream[n]
      /\ Append(PqStream, up + 1)[up + 1] = up + 1
  BY <1>2, Appended
<1>7. \A n \in 1..(up + 1) : Append(PqStream, up + 1)[n] = n
  <2>1. \A n \in 1..(up + 1) : n \in 1..up \/ n = up + 1 BY DEF SduInv
  <2> QED BY <1>2, <1>6, <2>1
<1> QED BY <1>2, <1>5, <1>6, <1>7 DEF SduInv

\* The PDCP thread's dealings with its queue
LEMMA PqConsume ==
  ASSUME SduInv, up' = up, Pq!Get \/ Pq!WaitForItem \/ Pq!Hand \/ Pq!Remove
  PROVE  SduInv'
<1>1. /\ Sound(Nat, pq_handed, pq, pq_consumer) /\ pq \in Ring(Nat) /\ pq_handed \in Seq(Nat)
      /\ PqStream \in Seq(Nat)
  BY DEF SduInv, Sound
<1>2. SUFFICES Sound(Nat, pq_handed', pq', pq_consumer') /\ PqStream' = PqStream
  BY DEF SduInv
<1>3. CASE Pq!Get
  BY <1>1, <1>3, GetKeeps DEF Pq!Get, PqStream
<1>4. CASE Pq!WaitForItem
  BY <1>1, <1>4 DEF Pq!WaitForItem, PqStream
<1>5. CASE Pq!Hand
  <2>1. /\ pq_consumer = "busy" /\ pq_consumer' = "done" /\ pq' = pq
        /\ pq_handed' = Append(pq_handed, pq.slot[pq.start])
    BY <1>5 DEF Pq!Hand
  <2>2. Sound(Nat, pq_handed, pq, "busy") /\ PqStream = Stream(pq_handed, pq, "busy")
    BY SMTT(30), <1>1, <2>1 DEF PqStream
  <2>3. pq.slot[pq.start] \in Nat
    <3>1. /\ Len(pq_handed) \in Nat /\ Len(pq_handed) < Len(PqStream) /\ Len(PqStream) \in Nat
          /\ PqStream[Len(pq_handed) + 1] = pq.slot[pq.start]
      BY <2>2, OldestItem
    <3>2. Len(pq_handed) + 1 \in 1..Len(PqStream) BY <3>1
    <3> QED BY SMTT(30), <1>1, <3>1, <3>2
  <2>4. /\ pq_handed' \in Seq(Nat) /\ Len(pq_handed') = Len(pq_handed) + 1
        /\ pq_handed'[Len(pq_handed) + 1] = pq.slot[pq.start]
        /\ \A n \in 1..Len(pq_handed) : pq_handed'[n] = pq_handed[n]
    BY SMTT(30), <1>1, <2>1, <2>3, Appended
  <2>5. Sound(Nat, pq_handed', pq, "done") /\ Stream(pq_handed', pq, "done") = PqStream
    BY <2>2, <2>4, HandKeeps
  <2> QED BY <2>1, <2>5 DEF PqStream
<1>6. CASE Pq!Remove
  <2> DEFINE r2 == [pq EXCEPT !.length = @ - 1, !.start = (@ + 1) % Size]
  <2>1. pq_consumer = "done" /\ pq_consumer' = "idle" /\ pq_handed' = pq_handed /\ pq' = r2
    BY <1>6 DEF Pq!Remove
  <2>2. Sound(Nat, pq_handed, pq, "done") /\ PqStream = Stream(pq_handed, pq, "done") /\ pq.length > 0
    BY SMTT(30), <1>1, <2>1 DEF PqStream, Sound
  <2>3. /\ r2 \in Ring(Nat) /\ r2.start = (pq.start + 1) % Size /\ r2.length = pq.length - 1
        /\ r2.slot = pq.slot
    BY ZenonT(60), <1>1, <2>2, RingRemove
  <2> HIDE DEF r2
  <2>4. Sound(Nat, pq_handed, r2, "idle") /\ Stream(pq_handed, r2, "idle") = PqStream
    BY <2>2, <2>3, RemoveKeeps
  <2> QED BY <2>1, <2>4 DEF PqStream
<1> QED BY SMTT(30), <1>3, <1>4, <1>5, <1>6

-----------------------------------------------------------------------------
(* RLC's queue                                                             *)

\* A thread puts its PDU in.
LEMMA QPut ==
  ASSUME QueueInv, NEW t, NEW item \in Pdu, Q!Put(t, item)
  PROVE  QueueInv' /\ QStream' = Append(QStream, item)
<1>1. /\ q' = WithItem(q, item)
      /\ q.length < Size /\ q_consumer' = q_consumer /\ q_handed' = q_handed
  BY DEF Q!Put, WithItem
<1>2. Sound(Pdu, q_handed, q, q_consumer) /\ q \in Ring(Pdu) /\ QStream \in Seq(Pdu)
  BY DEF QueueInv, Sound
<1>5. Sound(Pdu, q_handed', q', q_consumer') /\ QStream' = Append(QStream, item)
  <2>1. Sound(Pdu, q_handed, q', q_consumer) /\ Stream(q_handed, q', q_consumer) = Append(QStream, item)
    BY SMTT(30), <1>1, <1>2, PutStep DEF QStream
  <2> QED BY <1>1, <2>1 DEF QStream
<1>6. Append(QStream, item) \in Seq(Pdu) BY <1>2, Appended
<1> QED BY <1>5, <1>6 DEF QueueInv

\* The RLC thread's dealings with its queue
LEMMA QConsume ==
  ASSUME QueueInv, Q!Get \/ Q!WaitForItem \/ Q!Hand \/ Q!Remove
  PROVE  QueueInv' /\ QStream' = QStream
<1>1. /\ Sound(Pdu, q_handed, q, q_consumer) /\ q \in Ring(Pdu) /\ q_handed \in Seq(Pdu)
      /\ QStream \in Seq(Pdu)
  BY DEF QueueInv, Sound
<1>2. SUFFICES Sound(Pdu, q_handed', q', q_consumer') /\ QStream' = QStream
  BY <1>1 DEF QueueInv
<1>3. CASE Q!Get
  BY SMTT(30), <1>1, <1>3, GetKeeps DEF Q!Get, QStream
<1>4. CASE Q!WaitForItem
  BY <1>1, <1>4 DEF Q!WaitForItem, QStream
<1>5. CASE Q!Hand
  <2>1. /\ q_consumer = "busy" /\ q_consumer' = "done" /\ q' = q
        /\ q_handed' = Append(q_handed, q.slot[q.start])
    BY <1>5 DEF Q!Hand
  <2>2. Sound(Pdu, q_handed, q, "busy") /\ QStream = Stream(q_handed, q, "busy")
    BY SMTT(30), <1>1, <2>1 DEF QStream
  <2>3. q.slot[q.start] \in Pdu
    <3>1. /\ Len(q_handed) \in Nat /\ Len(q_handed) < Len(QStream) /\ Len(QStream) \in Nat
          /\ QStream[Len(q_handed) + 1] = q.slot[q.start]
      BY <2>2, OldestItem
    <3>2. Len(q_handed) + 1 \in 1..Len(QStream) BY <3>1
    <3> QED BY SMTT(30), <1>1, <3>1, <3>2
  <2>4. /\ q_handed' \in Seq(Pdu) /\ Len(q_handed') = Len(q_handed) + 1
        /\ q_handed'[Len(q_handed) + 1] = q.slot[q.start]
        /\ \A n \in 1..Len(q_handed) : q_handed'[n] = q_handed[n]
    BY SMTT(30), <1>1, <2>1, <2>3, Appended
  <2>5. Sound(Pdu, q_handed', q, "done") /\ Stream(q_handed', q, "done") = QStream
    BY <2>2, <2>4, HandKeeps
  <2> QED BY <2>1, <2>5 DEF QStream
<1>6. CASE Q!Remove
  <2> DEFINE r2 == [q EXCEPT !.length = @ - 1, !.start = (@ + 1) % Size]
  <2>1. q_consumer = "done" /\ q_consumer' = "idle" /\ q_handed' = q_handed /\ q' = r2
    BY <1>6 DEF Q!Remove
  <2>2. Sound(Pdu, q_handed, q, "done") /\ QStream = Stream(q_handed, q, "done") /\ q.length > 0
    BY SMTT(30), <1>1, <2>1 DEF QStream, Sound
  <2>3. /\ r2 \in Ring(Pdu) /\ r2.start = (q.start + 1) % Size /\ r2.length = q.length - 1
        /\ r2.slot = q.slot
    BY ZenonT(60), <1>1, <2>2, RingRemove
  <2> HIDE DEF r2
  <2>4. Sound(Pdu, q_handed, r2, "idle") /\ Stream(q_handed, r2, "idle") = QStream
    BY SMTT(30), <2>2, <2>3, RemoveKeeps
  <2> QED BY <2>1, <2>4 DEF QStream
<1> QED BY <1>3, <1>4, <1>5, <1>6

-----------------------------------------------------------------------------
(* COUNTs                                                                  *)

\* A bearer's next COUNT behind the first m PDUs depends on these only.
LEMMA NextCountKept ==
  ASSUME NEW s, NEW s2, NEW m \in Nat, \A i \in 1..m : s2[i] = s[i], NEW b, NEW c, NextCount(s, m, b, c)
  PROVE  NextCount(s2, m, b, c)
<1>1. CASE c = 0 /\ \A j \in 1..m : s[j][1] # b BY <1>1 DEF NextCount
<1>2. CASE \E j \in 1..m : s[j][1] = b /\ c = s[j][2] + 1 /\ \A k \in (j + 1)..m : s[k][1] # b
  <2>1. PICK j \in 1..m : s[j][1] = b /\ c = s[j][2] + 1 /\ \A k \in (j + 1)..m : s[k][1] # b BY <1>2
  <2>2. \A k \in (j + 1)..m : k \in 1..m BY <2>1
  <2> QED BY <2>1, <2>2 DEF NextCount
<1> QED BY <1>1, <1>2 DEF NextCount

\* One more PDU of bearer rb, with the next COUNT
LEMMA CountAppended ==
  ASSUME NEW s \in Seq(Pdu), InCountOrder(s), NEW rb \in Rb, NEW item \in Pdu,
         item[1] = rb, NextCount(s, Len(s), rb, item[2]), NEW s2, s2 = Append(s, item)
  PROVE  /\ InCountOrder(s2)
         /\ NextCount(s2, Len(s2), rb, item[2] + 1)
         /\ \A b \in Rb : \A c : b # rb /\ NextCount(s, Len(s), b, c) => NextCount(s2, Len(s2), b, c)
<1> DEFINE N == Len(s)
<1>1. /\ N \in Nat /\ Len(s2) = N + 1
      /\ (\A i \in 1..N : s2[i] = s[i]) /\ s2[N + 1] = item
  BY Appended
<1> HIDE DEF N
<1>2. N + 1 \in 1..(N + 1) /\ \A i \in 1..(N + 1) : i \in 1..N \/ i = N + 1 BY <1>1
<1>3. Len(s) = N BY SMTT(30) DEF N
<1>4. NextCount(s2, N + 1, rb, item[2] + 1)
  <2>1. \A k \in ((N + 1) + 1)..(N + 1) : FALSE BY <1>1
  <2> QED BY SMTT(30), <1>1, <1>2, <2>1 DEF NextCount
<1>5. ASSUME NEW b \in Rb, NEW c, b # rb, NextCount(s, N, b, c) PROVE NextCount(s2, N + 1, b, c)
  <2>1. NextCount(s2, N, b, c) BY ZenonT(60), <1>1, <1>5, NextCountKept
  <2>2. CASE c = 0 /\ \A j \in 1..N : s2[j][1] # b BY SMTT(30), <1>1, <1>2, <1>5, <2>2 DEF NextCount
  <2>3. CASE \E j \in 1..N : s2[j][1] = b /\ c = s2[j][2] + 1 /\ \A k \in (j + 1)..N : s2[k][1] # b
    <3>1. PICK j \in 1..N : s2[j][1] = b /\ c = s2[j][2] + 1 /\ \A k \in (j + 1)..N : s2[k][1] # b BY ZenonT(60), <2>3
    <3>2. j \in 1..(N + 1) /\ \A k \in (j + 1)..(N + 1) : k \in (j + 1)..N \/ k = N + 1 BY <1>1
    <3> QED BY SMTT(30), <1>1, <1>5, <3>1, <3>2 DEF NextCount
  <2> QED BY ZenonT(60), <2>1, <2>2, <2>3 DEF NextCount
<1>6. InCountOrder(s2)
  <2>1. SUFFICES ASSUME NEW i \in 1..(N + 1) PROVE NextCount(s2, i - 1, s2[i][1], s2[i][2])
    BY SMTT(30), <1>1 DEF InCountOrder
  <2>2. CASE i \in 1..N
    <3>1. i - 1 \in Nat /\ \A j \in 1..(i - 1) : j \in 1..N BY SMTT(30), <1>1, <2>2
    <3>2. NextCount(s, i - 1, s[i][1], s[i][2]) BY SMTT(30), <1>3, <2>2 DEF InCountOrder
    <3>3. \A j \in 1..(i - 1) : s2[j] = s[j] BY <1>1, <3>1
    <3>4. PICK m \in Nat : m = i - 1 BY <3>1
    <3>5. NextCount(s2, i - 1, s[i][1], s[i][2]) BY ZenonT(60), <3>2, <3>3, <3>4, NextCountKept
    <3> QED BY SMTT(30), <1>1, <2>2, <3>5
  <2>3. CASE i = N + 1
    <3>1. i - 1 = N BY <1>1, <2>3
    <3>2. NextCount(s2, N, rb, item[2]) BY ZenonT(60), <1>1, <1>3, NextCountKept
    <3> QED BY <1>1, <2>3, <3>1, <3>2
  <2> QED BY ZenonT(60), <1>2, <2>2, <2>3
<1> QED BY SMTT(30), <1>1, <1>3, <1>4, <1>5, <1>6

-----------------------------------------------------------------------------
(* Threads                                                                 *)

\* A step that hands out no COUNT and puts nothing into RLC's queue
LEMMA Quiet ==
  ASSUME ThreadType, answered = 0 => CountInv, QStream' = QStream, UNCHANGED <<tx_next, pdu, answered>>,
         NEW t \in Thread, pc[t] # "enqueue", NEW x \in {"idle", "locked", "deliver"},
         pc' = pc \/ pc' = [pc EXCEPT ![t] = x]
  PROVE  ThreadType' /\ (answered' = 0 => CountInv')
<1>1. /\ pc' \in [Thread -> {"idle", "locked", "enqueue", "deliver"}]
      /\ \A u \in Thread : pc'[u] = "enqueue" <=> pc[u] = "enqueue"
  BY DEF ThreadType
<1>2. Below \subseteq Thread /\ Rb \subseteq Thread /\ "pdcpq" \in Thread /\ "timer" \in Thread
  BY DEF Below, Thread
<1>3. ThreadType' BY SMTT(30), <1>1, <1>2 DEF ThreadType
<1>4. ASSUME answered = 0 PROVE CountInv'
  <2>1. CountInv BY SMTT(30), <1>4
  <2>2. InCountOrder(QStream') BY <2>1 DEF CountInv
  <2> HIDE DEF QStream
  <2> QED BY SMTT(30), <1>1, <1>2, <2>1 DEF CountInv, InCountOrder
<1> QED BY <1>3, <1>4

\* The bearer's thread takes a COUNT.
LEMMA CountTaken ==
  ASSUME ThreadType, answered = 0 => CountInv, QStream' = QStream, answered' = answered,
         NEW t \in Rb, pc[t] = "locked", pc' = [pc EXCEPT ![t] = "enqueue"],
         tx_next' = [tx_next EXCEPT ![t] = @ + 1], pdu' = [pdu EXCEPT ![t] = <<t, tx_next[t]>>]
  PROVE  ThreadType' /\ (answered' = 0 => CountInv')
<1>1. /\ Below \subseteq Thread /\ t \in Thread /\ Rb \subseteq Thread /\ t \in Below
      /\ t \notin {"pdcpq", "timer"} /\ "pdcpq" \in Thread /\ "timer" \in Thread
  BY ThreadAssumption DEF Below, Thread
<1>2. tx_next[t] \in Nat /\ <<t, tx_next[t]>> \in Pdu /\ <<t, tx_next[t]>> \in Slot(Pdu)
  BY DEF ThreadType, Pdu, Slot
<1>3. ThreadType'
  <2>1. tx_next' \in [Rb -> Nat] BY <1>2 DEF ThreadType
  <2>2. pdu' \in [Thread -> Slot(Pdu)] BY ZenonT(60), <1>2 DEF ThreadType
  <2>3. pc' \in [Thread -> {"idle", "locked", "enqueue", "deliver"}] BY ZenonT(60) DEF ThreadType
  <2>4. ASSUME NEW u \in Below, pc'[u] = "enqueue" PROVE pdu'[u] \in Pdu
    <3>1. CASE u = t BY SMTT(30), <1>1, <1>2, <3>1 DEF ThreadType
    <3>2. CASE u # t BY SMTT(30), <1>1, <2>4, <3>2 DEF ThreadType
    <3> QED BY SMTT(30), <3>1, <3>2
  <2> QED BY SMTT(30), <2>1, <2>2, <2>3, <2>4 DEF ThreadType
<1>4. ASSUME answered = 0 PROVE CountInv'
  <2>1. CountInv BY SMTT(30), <1>4
  <2>2. InCountOrder(QStream') BY SMTT(30), <2>1 DEF CountInv
  <2>3. pc'["pdcpq"] # "enqueue" /\ pc'["timer"] # "enqueue" BY SMTT(30), <1>1, <2>1 DEF CountInv, ThreadType
  <2>4. NextCount(QStream, Len(QStream), t, tx_next[t]) BY SMTT(30), <2>1 DEF CountInv
  <2> HIDE DEF QStream
  <2>5. ASSUME NEW rb \in Rb
        PROVE  IF pc'[rb] = "enqueue"
               THEN /\ pdu'[rb][1] = rb /\ tx_next'[rb] = pdu'[rb][2] + 1
                    /\ NextCount(QStream, Len(QStream), rb, pdu'[rb][2])
               ELSE NextCount(QStream, Len(QStream), rb, tx_next'[rb])
    <3>1. CASE rb = t
      <4>1. pdu'[t] = <<t, tx_next[t]>> /\ tx_next'[t] = tx_next[t] + 1 BY <1>1 DEF ThreadType
      <4>2. pdu'[t][1] = t /\ pdu'[t][2] = tx_next[t] BY <4>1
      <4>3. pc'[t] = "enqueue" BY SMTT(30), <1>1 DEF ThreadType
      <4> QED BY SMTT(30), <2>4, <3>1, <4>1, <4>2, <4>3
    <3>2. CASE rb # t
      <4>1. pc'[rb] = pc[rb] /\ pdu'[rb] = pdu[rb] /\ tx_next'[rb] = tx_next[rb] BY SMTT(30), <1>1, <3>2 DEF ThreadType
      <4> QED BY SMTT(30), <2>1, <4>1 DEF CountInv
    <3> QED BY SMTT(30), <3>1, <3>2
  <2> QED BY SMTT(30), <2>2, <2>3, <2>5 DEF CountInv
<1> QED BY SMTT(30), <1>3, <1>4

\* SDAP answers from thread t.
LEMMA Answered ==
  ASSUME ThreadType, NEW t \in {"pdcpq", "timer"}, NEW rb \in Rb, answered' = answered + 1,
         tx_next' = [tx_next EXCEPT ![rb] = @ + 1], pdu' = [pdu EXCEPT ![t] = <<rb, tx_next[rb]>>],
         pc' = [pc EXCEPT ![t] = "enqueue"]
  PROVE  ThreadType' /\ (answered' = 0 => CountInv')
<1>1. Below \subseteq Thread /\ t \in Thread BY DEF Below, Thread
<1>2. tx_next[rb] \in Nat /\ <<rb, tx_next[rb]>> \in Pdu /\ <<rb, tx_next[rb]>> \in Slot(Pdu)
  BY DEF ThreadType, Pdu, Slot
<1>3. answered' \in Nat /\ answered' # 0 BY DEF ThreadType
<1>4. tx_next' \in [Rb -> Nat] BY <1>2 DEF ThreadType
<1>5. pdu' \in [Thread -> Slot(Pdu)] BY ZenonT(60), <1>2 DEF ThreadType
<1>6. pc' \in [Thread -> {"idle", "locked", "enqueue", "deliver"}] BY ZenonT(60) DEF ThreadType
<1>7. ASSUME NEW u \in Below, pc'[u] = "enqueue" PROVE pdu'[u] \in Pdu
  <2>1. CASE u = t BY SMTT(30), <1>1, <1>2, <2>1 DEF ThreadType
  <2>2. CASE u # t BY SMTT(30), <1>1, <1>7, <2>2 DEF ThreadType
  <2> QED BY SMTT(30), <2>1, <2>2
<1> QED BY SMTT(30), <1>3, <1>4, <1>5, <1>6, <1>7 DEF ThreadType

\* A thread puts the PDU that it has in its hands into RLC's queue.
LEMMA PduPut ==
  ASSUME ThreadType, answered = 0 => CountInv, QueueInv, answered' = answered, tx_next' = tx_next,
         NEW t \in Below, pc[t] = "enqueue", QStream' = Append(QStream, pdu[t]),
         pc' = [pc EXCEPT ![t] = "idle"], pdu' = [pdu EXCEPT ![t] = <<>>]
  PROVE  ThreadType' /\ (answered' = 0 => CountInv')
<1>1. /\ Below \subseteq Thread /\ t \in Thread /\ Rb \subseteq Thread
      /\ "pdcpq" \in Thread /\ "timer" \in Thread
  BY DEF Below, Thread
<1>2. <<>> \in Slot(Pdu) BY DEF Slot
<1>3. ThreadType'
  <2>1. pdu' \in [Thread -> Slot(Pdu)] BY ZenonT(60), <1>2 DEF ThreadType
  <2>2. pc' \in [Thread -> {"idle", "locked", "enqueue", "deliver"}] BY ZenonT(60) DEF ThreadType
  <2>3. \A u \in Below : pc'[u] = "enqueue" => u # t /\ pc[u] = "enqueue" /\ pdu'[u] = pdu[u]
    BY SMTT(30), <1>1 DEF ThreadType
  <2> QED BY <2>1, <2>2, <2>3 DEF ThreadType
<1>4. ASSUME answered = 0 PROVE CountInv'
  <2>1. CountInv BY SMTT(30), <1>4
  <2>2. t \in Rb BY SMTT(30), <2>1 DEF CountInv, Below
  <2> DEFINE s == QStream
             item == pdu[t]
  <2>3. s \in Seq(Pdu) /\ InCountOrder(s) BY SMTT(30), <2>1 DEF QueueInv, CountInv
  <2>4. /\ item \in Pdu /\ item[1] = t /\ tx_next[t] = item[2] + 1
        /\ NextCount(s, Len(s), t, item[2])
    BY <2>1, <2>2 DEF CountInv, ThreadType
  <2>5. QStream' = Append(s, item) BY SMTT(30)
  <2>7. \A rb \in Rb : IF pc[rb] = "enqueue"
                      THEN /\ pdu[rb][1] = rb /\ tx_next[rb] = pdu[rb][2] + 1
                           /\ NextCount(s, Len(s), rb, pdu[rb][2])
                      ELSE NextCount(s, Len(s), rb, tx_next[rb])
    BY <2>1 DEF CountInv
  <2> HIDE DEF s, item
  <2>6. PICK s2 : s2 = Append(s, item) BY ZenonT(60)
  <2>8. /\ InCountOrder(s2)
        /\ NextCount(s2, Len(s2), t, item[2] + 1)
        /\ \A b \in Rb : \A c : b # t /\ NextCount(s, Len(s), b, c) => NextCount(s2, Len(s2), b, c)
    BY ZenonT(60), <2>2, <2>3, <2>4, <2>6, CountAppended
  <2>9. pc'["pdcpq"] # "enqueue" /\ pc'["timer"] # "enqueue" BY SMTT(30), <1>1, <2>1 DEF CountInv, ThreadType
  <2>10. ASSUME NEW rb \in Rb
         PROVE  IF pc'[rb] = "enqueue"
                THEN /\ pdu'[rb][1] = rb /\ tx_next'[rb] = pdu'[rb][2] + 1
                     /\ NextCount(s2, Len(s2), rb, pdu'[rb][2])
                ELSE NextCount(s2, Len(s2), rb, tx_next'[rb])
    <3>1. CASE rb = t
      <4>1. pc'[t] = "idle" BY SMTT(30), <1>1 DEF ThreadType
      <4> QED BY SMTT(30), <2>4, <2>8, <3>1, <4>1
    <3>2. CASE rb # t
      <4>1. pc'[rb] = pc[rb] /\ pdu'[rb] = pdu[rb] BY <1>1, <3>2 DEF ThreadType
      <4> QED BY SMTT(30), <2>7, <2>8, <3>2, <4>1
    <3> QED BY SMTT(30), <3>1, <3>2
  <2> HIDE DEF QStream
  <2> QED BY SMTT(30), <2>5, <2>6, <2>8, <2>9, <2>10 DEF CountInv
<1> QED BY SMTT(30), <1>3, <1>4

-----------------------------------------------------------------------------
(* Every step                                                              *)

\* Taking a lock hands out nothing.
LEMMA LockStep ==
  ASSUME ThreadsInv, NEW t \in Thread, Lock(t)
  PROVE  ThreadsInv'
<1>1. SduInv' BY PqKept DEF ThreadsInv, Lock, pqVars
<1>2. QueueInv' /\ QStream' = QStream BY DEF ThreadsInv, Lock, qVars, QueueInv, QStream
<1>3. pc[t] # "enqueue" /\ pc' = [pc EXCEPT ![t] = "locked"] /\ UNCHANGED <<tx_next, pdu, answered>>
  BY DEF Lock, Wants
<1>4. ThreadType' /\ (answered' = 0 => CountInv') BY ZenonT(60), <1>2, <1>3, Quiet DEF ThreadsInv
<1> QED BY SMTT(30), <1>1, <1>2, <1>4 DEF ThreadsInv

\* A thread that has a PDU puts it into RLC's queue or waits for room.
LEMMA DeliverPduStep ==
  ASSUME ThreadsInv, NEW t \in Below, DeliverPdu(t)
  PROVE  ThreadsInv'
<1>1. SduInv' BY PqKept DEF ThreadsInv, DeliverPdu, pqVars
<1>2. CASE Q!WaitForRoom(t) /\ UNCHANGED <<lock, pc, pdu>>
  <2>1. QueueInv' /\ QStream' = QStream BY <1>2 DEF ThreadsInv, Q!WaitForRoom, QueueInv, QStream
  <2>2. UNCHANGED <<pc, tx_next, pdu, answered>> BY <1>2 DEF DeliverPdu
  <2>3. ThreadType' BY SMTT(30), <2>2 DEF ThreadsInv, ThreadType
  <2>4. ASSUME answered = 0 PROVE CountInv'
    <3>1. CountInv BY <2>4 DEF ThreadsInv
    <3> HIDE DEF QStream
    <3> QED BY <2>1, <2>2, <3>1 DEF CountInv
  <2> QED BY SMTT(30), <1>1, <2>1, <2>2, <2>3, <2>4 DEF ThreadsInv
<1>3. CASE /\ Q!Put(t, pdu[t])
           /\ pc' = [pc EXCEPT ![t] = "idle"] /\ pdu' = [pdu EXCEPT ![t] = <<>>]
  <2>1. pc[t] = "enqueue" /\ tx_next' = tx_next /\ answered' = answered BY DEF DeliverPdu
  <2>2. pdu[t] \in Pdu BY <2>1 DEF ThreadsInv, ThreadType
  <2>3. QueueInv' /\ QStream' = Append(QStream, pdu[t]) BY <1>3, <2>2, QPut DEF ThreadsInv
  <2>4. ThreadType' /\ (answered' = 0 => CountInv') BY ZenonT(60), <1>3, <2>1, <2>3, PduPut DEF ThreadsInv
  <2> QED BY <1>1, <2>3, <2>4 DEF ThreadsInv
<1> QED BY <1>2, <1>3 DEF DeliverPdu

\* A bearer's thread takes its COUNT with the PDCP lock held.
LEMMA ProcessSduStep ==
  ASSUME ThreadsInv, NEW t \in Rb, ProcessSdu(t)
  PROVE  ThreadsInv'
<1>1. SduInv' BY PqKept DEF ThreadsInv, ProcessSdu, pqVars
<1>2. QueueInv' /\ QStream' = QStream BY DEF ThreadsInv, ProcessSdu, qVars, QueueInv, QStream
<1>3. pc[t] = "locked" /\ answered' = answered /\ t \in Thread BY DEF ProcessSdu, Thread
<1>4. ThreadType' /\ (answered' = 0 => CountInv')
  <2>1. CASE "pdcp" \in gone
    <3>1. pc' = [pc EXCEPT ![t] = "idle"] /\ UNCHANGED <<tx_next, pdu>> BY <2>1 DEF ProcessSdu
    <3> QED BY ZenonT(60), <1>2, <1>3, <3>1, Quiet DEF ThreadsInv
  <2>2. CASE "pdcp" \notin gone
    <3>1. /\ tx_next' = [tx_next EXCEPT ![t] = @ + 1] /\ pdu' = [pdu EXCEPT ![t] = <<t, tx_next[t]>>]
          /\ pc' = [pc EXCEPT ![t] = "enqueue"]
      BY <2>2 DEF ProcessSdu
    <3> QED BY ZenonT(60), <1>2, <1>3, <3>1, CountTaken DEF ThreadsInv
  <2> QED BY <2>1, <2>2
<1> QED BY SMTT(30), <1>1, <1>2, <1>4 DEF ThreadsInv

\* A step that changes nothing but lock, todo, batch, gone and who waits
LEMMA Apart ==
  ASSUME ThreadsInv, QueueInv', QStream' = QStream, SduInv', UNCHANGED <<pc, tx_next, pdu, answered>>
  PROVE  ThreadsInv'
<1>1. "rlcq" \in Thread BY DEF Thread
<1>2. ThreadType' BY SMTT(30) DEF ThreadsInv, ThreadType
<1>3. ASSUME answered = 0 PROVE CountInv'
  <2>1. CountInv BY <1>3 DEF ThreadsInv
  <2> HIDE DEF QStream
  <2> QED BY <2>1 DEF CountInv
<1> QED BY <1>2, <1>3 DEF ThreadsInv

\* The RLC thread takes from its queue only.
LEMMA RlcThreadStep ==
  ASSUME ThreadsInv, RlcThread
  PROVE  ThreadsInv'
<1>1. CASE Lock("rlcq")
  BY <1>1, LockStep DEF Thread
<1>2. CASE /\ pc["rlcq"] = "locked" /\ Q!Hand
           /\ pc' = [pc EXCEPT !["rlcq"] = "idle"] /\ lock' = [lock EXCEPT !.rlc = None]
           /\ UNCHANGED <<todo, tx_next, pdu, batch, up, answered, gone, pqVars>>
  <2>1. SduInv' BY <1>2, PqKept DEF ThreadsInv, pqVars
  <2>2. QueueInv' /\ QStream' = QStream BY <1>2, QConsume DEF ThreadsInv
  <2>3. ThreadType' /\ (answered' = 0 => CountInv')
    <3>1. "rlcq" \in Thread /\ pc["rlcq"] # "enqueue" BY <1>2 DEF Thread
    <3> QED BY ZenonT(60), <1>2, <2>2, <3>1, Quiet DEF ThreadsInv
  <2> QED BY SMTT(30), <2>1, <2>2, <2>3 DEF ThreadsInv
<1>3. CASE (Q!Get \/ Q!WaitForItem \/ Q!Remove) /\ UNCHANGED <<threadVars, pqVars>>
  <2>1. SduInv' BY <1>3, PqKept DEF ThreadsInv, pqVars, threadVars
  <2>2. QueueInv' /\ QStream' = QStream BY <1>3, QConsume DEF ThreadsInv
  <2> QED BY SMTT(30), <1>3, <2>1, <2>2, Apart DEF threadVars
<1> QED BY SMTT(30), <1>1, <1>2, <1>3 DEF RlcThread

\* MAC threads put SDUs into PDCP's queue, in the order of up.
LEMMA MacThreadStep ==
  ASSUME ThreadsInv, NEW m \in Mac, MacThread(m)
  PROVE  ThreadsInv'
<1>1. m \in Thread BY DEF Thread
<1>2. CASE Lock(m) BY SMTT(30), <1>1, <1>2, LockStep
<1>3. CASE RecvPdu(m) \/ MacUnlock(m)
  <2>1. SduInv' BY <1>3, PqKept DEF ThreadsInv, RecvPdu, MacUnlock, pqVars
  <2>2. QueueInv' /\ QStream' = QStream
    BY <1>3 DEF ThreadsInv, RecvPdu, MacUnlock, qVars, QueueInv, QStream
  <2>3. /\ pc[m] # "enqueue" /\ UNCHANGED <<tx_next, pdu, answered>>
        /\ \E x \in {"idle", "deliver"} : pc' = [pc EXCEPT ![m] = x]
    BY <1>3 DEF RecvPdu, MacUnlock
  <2>4. ThreadType' /\ (answered' = 0 => CountInv') BY ZenonT(60), <1>1, <2>2, <2>3, Quiet DEF ThreadsInv
  <2> QED BY <2>1, <2>2, <2>4 DEF ThreadsInv
<1>4. CASE DeliverSdu(m)
  <2>1. QueueInv' /\ QStream' = QStream BY SMTT(30), <1>4 DEF ThreadsInv, DeliverSdu, qVars, QueueInv, QStream
  <2>2. UNCHANGED <<pc, tx_next, pdu, answered>> BY SMTT(30), <1>4 DEF DeliverSdu
  <2>3. SduInv'
    <3>1. CASE Pq!Put(m, up + 1) /\ up' = up + 1 BY SMTT(30), <3>1, PqPut DEF ThreadsInv
    <3>2. CASE Pq!WaitForRoom(m) /\ up' = up BY SMTT(30), <3>2, PqKept DEF ThreadsInv, Pq!WaitForRoom
    <3> QED BY SMTT(30), <1>4, <3>1, <3>2 DEF DeliverSdu
  <2> QED BY SMTT(30), <2>1, <2>2, <2>3, Apart
<1> QED BY SMTT(30), <1>2, <1>3, <1>4 DEF MacThread

\* Whoever delivers upwards ends, or comes back with an answer of SDAP.
LEMMA DeliveredUpStep ==
  ASSUME ThreadsInv, NEW t \in {"pdcpq", "timer"}, pc[t] = "locked", DeliveredUp(t), SduInv'
  PROVE  ThreadsInv'
<1>1. QueueInv' /\ QStream' = QStream BY DEF ThreadsInv, DeliveredUp, qVars, QueueInv, QStream
<1>2. t \in Thread BY DEF Thread
<1>3. ThreadType' /\ (answered' = 0 => CountInv')
  <2>1. CASE pc' = [pc EXCEPT ![t] = "idle"] /\ UNCHANGED <<tx_next, pdu, answered>>
    BY ZenonT(60), <1>1, <1>2, <2>1, Quiet DEF ThreadsInv
  <2>2. CASE /\ answered' = answered + 1
             /\ \E rb \in Rb : /\ tx_next' = [tx_next EXCEPT ![rb] = @ + 1]
                               /\ pdu' = [pdu EXCEPT ![t] = <<rb, tx_next[rb]>>]
             /\ pc' = [pc EXCEPT ![t] = "enqueue"]
    BY ZenonT(60), <2>2, Answered DEF ThreadsInv
  <2> QED BY <2>1, <2>2 DEF DeliveredUp
<1> QED BY <1>1, <1>3 DEF ThreadsInv

\* The PDCP thread takes from its queue, and may put an answer into RLC's.
LEMMA PdcpThreadStep ==
  ASSUME ThreadsInv, PdcpThread
  PROVE  ThreadsInv'
<1>1. CASE Lock("pdcpq") BY SMTT(30), <1>1, LockStep DEF Thread
<1>2. CASE pc["pdcpq"] = "locked" /\ Pq!Hand /\ DeliveredUp("pdcpq")
  <2>1. up' = up BY <1>2 DEF DeliveredUp
  <2>2. SduInv' BY SMTT(30), <1>2, <2>1, PqConsume DEF ThreadsInv
  <2> QED BY SMTT(30), <1>2, <2>2, DeliveredUpStep
<1>3. CASE DeliverPdu("pdcpq") BY SMTT(30), <1>3, DeliverPduStep DEF Below
<1>4. CASE (Pq!Get \/ Pq!WaitForItem \/ Pq!Remove) /\ UNCHANGED <<threadVars, qVars>>
  <2>1. SduInv' BY SMTT(30), <1>4, PqConsume DEF ThreadsInv, threadVars
  <2>2. QueueInv' /\ QStream' = QStream BY <1>4 DEF ThreadsInv, qVars, QueueInv, QStream
  <2> QED BY <1>4, <2>1, <2>2, Apart DEF threadVars
<1> QED BY SMTT(30), <1>1, <1>2, <1>3, <1>4 DEF PdcpThread

\* So may the timer thread.
LEMMA TimerThreadStep ==
  ASSUME ThreadsInv, TimerThread
  PROVE  ThreadsInv'
<1>1. CASE Lock("timer") BY SMTT(30), <1>1, LockStep DEF Thread
<1>2. CASE pc["timer"] = "locked" /\ DeliveredUp("timer") /\ UNCHANGED pqVars
  <2>1. SduInv' BY <1>2, PqKept DEF ThreadsInv, DeliveredUp, pqVars
  <2> QED BY SMTT(30), <1>2, <2>1, DeliveredUpStep
<1>3. CASE DeliverPdu("timer") BY <1>3, DeliverPduStep DEF Below
<1> QED BY SMTT(30), <1>1, <1>2, <1>3 DEF TimerThread

\* Nothing has been put in at the start.
LEMMA ThreadsInit == Init => ThreadsInv
<1> SUFFICES ASSUME Init PROVE ThreadsInv BY SMTT(30)
<1>1. EmptyRing \in Ring(Nat) /\ EmptyRing \in Ring(Pdu) /\ EmptyRing.length = 0
  BY ThreadAssumption DEF EmptyRing, Ring, Slot
<1>2. <<>> \in Seq(Nat) /\ <<>> \in Seq(Pdu) /\ Len(<<>>) = 0 OBVIOUS
<1>3. Sound(Nat, <<>>, EmptyRing, "idle") /\ Sound(Pdu, <<>>, EmptyRing, "idle") BY <1>1, <1>2 DEF Sound
<1>4. Stream(<<>>, EmptyRing, "idle") = <<>>
  <2>1. Len(<<>>) + EmptyRing.length - First("idle") = 0 BY SMTT(30), <1>1, <1>2 DEF First
  <2>2. /\ Stream(<<>>, EmptyRing, "idle") \in Seq(Slot(Nat)) /\ Len(Stream(<<>>, EmptyRing, "idle")) = 0
    BY SMTT(30), <1>3, <2>1, StreamIs
  <2> HIDE DEF Stream
  <2> QED BY <2>2
<1>5. PqStream = <<>> /\ QStream = <<>> BY SMTT(30), <1>4 DEF Init, PqStream, QStream
<1>6. SduInv BY SMTT(30), <1>2, <1>3, <1>5 DEF Init, SduInv
<1>7. QueueInv BY SMTT(30), <1>2, <1>3, <1>5 DEF Init, QueueInv
<1>8. ThreadType BY SMTT(30) DEF Init, ThreadType, Slot, Below, Thread
<1>9. CountInv
  <2>1. InCountOrder(QStream) BY SMTT(30), <1>2, <1>5 DEF InCountOrder
  <2>2. \A rb \in Rb : NextCount(QStream, Len(QStream), rb, 0) BY SMTT(30), <1>2, <1>5 DEF NextCount
  <2>4. \A t \in Thread : pc[t] = "idle" BY SMTT(30) DEF Init
  <2>5. \A rb \in Rb : tx_next[rb] = 0 BY DEF Init
  <2>6. Rb \subseteq Thread /\ "pdcpq" \in Thread /\ "timer" \in Thread BY DEF Thread
  <2> QED BY SMTT(30), <2>1, <2>2, <2>4, <2>5, <2>6 DEF CountInv
<1> QED BY SMTT(30), <1>6, <1>7, <1>8, <1>9 DEF ThreadsInv

\* Every step of every thread keeps the invariant.
LEMMA ThreadsStep == ThreadsInv /\ [Next]_vars => ThreadsInv'
<1> SUFFICES ASSUME ThreadsInv, [Next]_vars PROVE ThreadsInv' OBVIOUS
<1>1. ASSUME NEW t \in Rb, Sender(t) PROVE ThreadsInv'
  <2>1. t \in Thread /\ t \in Below BY DEF Thread, Below
  <2> QED BY SMTT(30), <1>1, <2>1, LockStep, ProcessSduStep, DeliverPduStep DEF Sender
<1>2. ASSUME UNCHANGED vars \/ \E layer \in {"pdcp", "rlc"} : RemoveUe(layer) PROVE ThreadsInv'
  <2>1. UNCHANGED <<qVars, pqVars, up, pc, tx_next, pdu, answered>> BY SMTT(30), <1>2 DEF vars, threadVars, RemoveUe
  <2>2. SduInv' BY SMTT(30), <2>1, PqKept DEF ThreadsInv, pqVars
  <2>3. QueueInv' /\ QStream' = QStream BY <2>1 DEF ThreadsInv, qVars, QueueInv, QStream
  <2> QED BY SMTT(30), <2>1, <2>2, <2>3, Apart
<1> QED BY SMTT(30), <1>1, <1>2, MacThreadStep, RlcThreadStep, PdcpThreadStep, TimerThreadStep DEF Next

\* PDCP gets the SDUs in the order in which RLC delivered them, for any number of
\* MAC threads, any batches and any size of the queue.
THEOREM SduOrder == Spec => []SdusInOrder
<1>1. ThreadsInv => SdusInOrder
  <2> SUFFICES ASSUME ThreadsInv PROVE SdusInOrder OBVIOUS
  <2>1. /\ Sound(Nat, pq_handed, pq, pq_consumer) /\ Len(PqStream) = up /\ up \in Nat
        /\ \A n \in 1..up : PqStream[n] = n
    BY SMTT(30) DEF ThreadsInv, SduInv
  <2>2. /\ Len(pq_handed) \in Nat /\ Len(pq_handed) <= Len(PqStream)
        /\ \A n \in 1..Len(pq_handed) : PqStream[n] = pq_handed[n]
    BY SMTT(30), <2>1, StreamIs DEF PqStream
  <2> QED BY <2>1, <2>2 DEF SdusInOrder
<1> QED BY <1>1, ThreadsInit, ThreadsStep, PTL DEF Spec

\* RLC gets each bearer's PDUs in the order of their COUNTs, for any number of
\* bearers and any size of the queue, as long as SDAP does not answer.
THEOREM PduOrder == Spec => []PdusInOrder
<1>1. ThreadsInv => PdusInOrder
  <2> SUFFICES ASSUME ThreadsInv, answered = 0 PROVE InCountOrder(q_handed)
    BY SMTT(30) DEF PdusInOrder, ThreadsInv, ThreadType
  <2>1. Sound(Pdu, q_handed, q, q_consumer) /\ InCountOrder(QStream)
    BY SMTT(30) DEF ThreadsInv, QueueInv, CountInv
  <2>2. /\ Len(q_handed) \in Nat /\ Len(q_handed) <= Len(QStream) /\ Len(QStream) \in Nat
        /\ \A n \in 1..Len(q_handed) : QStream[n] = q_handed[n]
    BY SMTT(30), <2>1, StreamIs DEF QStream
  <2>3. ASSUME NEW i \in 1..Len(q_handed)
        PROVE  NextCount(q_handed, i - 1, q_handed[i][1], q_handed[i][2])
    <3> HIDE DEF QStream
    <3>1. i \in 1..Len(QStream) /\ i - 1 \in Nat /\ \A j \in 1..(i - 1) : j \in 1..Len(q_handed) BY SMTT(30), <2>2
    <3>2. \A j \in 1..(i - 1) : q_handed[j] = QStream[j] BY SMTT(30), <2>2, <3>1
    <3>3. NextCount(QStream, i - 1, QStream[i][1], QStream[i][2]) BY <2>1, <3>1 DEF InCountOrder
    <3>4. PICK m \in Nat : m = i - 1 BY SMTT(30), <3>1
    <3>5. NextCount(q_handed, i - 1, QStream[i][1], QStream[i][2]) BY SMTT(30), <3>2, <3>3, <3>4, NextCountKept
    <3> QED BY SMTT(30), <2>2, <3>5
  <2> QED BY SMTT(30), <2>3 DEF InCountOrder
<1> QED BY <1>1, ThreadsInit, ThreadsStep, PTL DEF Spec
=============================================================================
