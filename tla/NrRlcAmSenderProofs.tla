------------------------- MODULE NrRlcAmSenderProofs -------------------------
(***************************************************************************)
(* Proofs about the transmitting side, for every modulus, set of SDUs,     *)
(* size of buffer, header and grants, polling configuration, number of     *)
(* NACKs in a STATUS PDU and number of re-establishments.                  *)
(***************************************************************************)
EXTENDS NrRlcAmSender, NrRlcSnTheorems

-----------------------------------------------------------------------------
(* Sequences                                                               *)

\* The elements of a sequence
LEMMA RangeIs ==
  ASSUME NEW S, NEW s \in Seq(S)
  PROVE  /\ Len(s) \in Nat /\ Range(s) \subseteq S
         /\ \A e : e \in Range(s) <=> \E i \in 1 .. Len(s) : e = s[i]
<1>1. DOMAIN s = 1 .. Len(s) /\ Len(s) \in Nat /\ \A i \in 1 .. Len(s) : s[i] \in S
  OBVIOUS
<1>2. \A e : e \in Range(s) <=> \E i \in 1 .. Len(s) : e = s[i]
  BY Zenon, <1>1 DEF Range
<1> QED BY Zenon, <1>1, <1>2

\* A sequence with no element twice
Once(s) == \A i, j \in 1 .. Len(s) : s[i] = s[j] => i = j

\* One more at the end
LEMMA Appended ==
  ASSUME NEW S, NEW s \in Seq(S), NEW e \in S, Once(s), e \notin Range(s)
  PROVE  /\ Append(s, e) \in Seq(S) /\ Once(Append(s, e))
         /\ Range(Append(s, e)) = Range(s) \cup {e}
<1> DEFINE a == Append(s, e)
<1>1. /\ a \in Seq(S) /\ Len(a) = Len(s) + 1 /\ Len(s) \in Nat
      /\ \A i \in 1 .. Len(s) : a[i] = s[i]
      /\ a[Len(s) + 1] = e
  OBVIOUS
<1> HIDE DEF a
<1>2. \A x : x \in Range(a) <=> x \in Range(s) \cup {e}
  <2>1. \A x : x \in Range(a) <=> \E i \in 1 .. Len(a) : x = a[i]
    BY SMTT(30), <1>1, RangeIs
  <2>2. \A x : x \in Range(s) <=> \E i \in 1 .. Len(s) : x = s[i]
    BY RangeIs
  <2>3. Len(s) + 1 \in 1 .. Len(a) /\ \A i \in 1 .. Len(s) : i \in 1 .. Len(a)
    BY SMTT(30), <1>1
  <2>4. ASSUME NEW x \in Range(a) PROVE x \in Range(s) \cup {e}
    <3>1. PICK i \in 1 .. Len(a) : x = a[i]
      BY <2>1
    <3>2. CASE i \in 1 .. Len(s)
      BY Zenon, <1>1, <2>2, <3>1, <3>2
    <3>3. CASE i = Len(s) + 1
      BY Zenon, <1>1, <3>1, <3>3
    <3> QED BY SMTT(30), <1>1, <3>2, <3>3
  <2>5. ASSUME NEW x \in Range(s) PROVE x \in Range(a)
    <3>1. PICK i \in 1 .. Len(s) : x = s[i]
      BY SMTT(30), <2>2
    <3> QED BY Zenon, <1>1, <2>1, <2>3, <3>1
  <2>6. e \in Range(a)
    BY Zenon, <1>1, <2>1, <2>3
  <2> QED BY Zenon, <2>4, <2>5, <2>6
<1>3. Once(a)
  <2>1. \A i \in 1 .. Len(s) : s[i] # e
    BY SMTT(30), RangeIs
  <2> QED BY SMTT(30), <1>1, <2>1 DEF Once
<1> QED BY Zenon, <1>1, <1>2, <1>3 DEF a

\* The first one taken away
LEMMA Tailed ==
  ASSUME NEW S, NEW s \in Seq(S), s # <<>>, Once(s)
  PROVE  /\ Tail(s) \in Seq(S) /\ Once(Tail(s))
         /\ Range(Tail(s)) = Range(s) \ {Head(s)} /\ Head(s) \in Range(s)
<1> DEFINE t == Tail(s)
<1>1. /\ t \in Seq(S) /\ Len(t) = Len(s) - 1 
      /\ \A i \in 1 .. Len(t) : t[i] = s[i + 1]
  BY SMTT(30)
<1>2. Len(s) \in Nat \ {0} /\ Head(s) = s[1]
  BY SMTT(30)
<1> HIDE DEF t
<1>3. Once(t)
  BY SMTT(30), <1>1, <1>2 DEF Once
<1>4. \A x : x \in Range(s) <=> \E i \in 1 .. Len(s) : x = s[i]
  BY RangeIs
<1>5. \A x : x \in Range(t) <=> \E i \in 1 .. Len(t) : x = t[i]
  BY SMTT(30), <1>1, RangeIs
<1>6. Head(s) \in Range(s)
  BY SMTT(30), <1>2, <1>4
<1>7. ASSUME NEW x \in Range(t) PROVE x \in Range(s) \ {Head(s)}
  <2>1. PICK i \in 1 .. Len(t) : x = s[i + 1]
    BY SMTT(30), <1>1, <1>5
  <2>2. i + 1 \in 1 .. Len(s) /\ i + 1 # 1 /\ 1 \in 1 .. Len(s)
    BY SMTT(30), <1>1, <1>2
  <2> QED BY Zenon, <1>2, <1>4, <2>1, <2>2 DEF Once
<1>8. ASSUME NEW x \in Range(s) \ {Head(s)} PROVE x \in Range(t)
  <2>1. PICK i \in 1 .. Len(s) : x = s[i]
    BY SMTT(30), <1>4
  <2>2. i # 1
    BY <2>1, <1>2
  <2>3. i - 1 \in 1 .. Len(t) /\ x = t[i - 1]
    BY SMTT(30), <2>1, <2>2, <1>1, <1>2
  <2> QED BY Zenon, <2>3, <1>5
<1> QED BY Zenon, <1>1, <1>3, <1>6, <1>7, <1>8 DEF t

\* One more in front
Cons(e, s) == <<e>> \o s

\* What that changes
LEMMA Prepended ==
  ASSUME NEW S, NEW s \in Seq(S), NEW e \in S, Once(s), e \notin Range(s)
  PROVE  /\ Cons(e, s) \in Seq(S) /\ Once(Cons(e, s))
         /\ Range(Cons(e, s)) = Range(s) \cup {e}
<1> DEFINE a == Cons(e, s)
<1>1. /\ a \in Seq(S) /\ Len(a) = Len(s) + 1 /\ Len(s) \in Nat
      /\ \A i \in 1 .. Len(s) : a[i + 1] = s[i]
      /\ a[1] = e
  BY DEF Cons
<1> HIDE DEF a
<1>2. \A i \in 1 .. Len(a) : i = 1 \/ (i - 1 \in 1 .. Len(s) /\ a[i] = s[i - 1])
  BY SMTT(30), <1>1
<1>3. Range(a) = Range(s) \cup {e}
  <2>1. \A x : x \in Range(a) <=> \E i \in 1 .. Len(a) : x = a[i]
    BY SMTT(30), <1>1, RangeIs
  <2>2. \A x : x \in Range(s) <=> \E i \in 1 .. Len(s) : x = s[i]
    BY RangeIs
  <2>3. 1 \in 1 .. Len(a) /\ \A i \in 1 .. Len(s) : i + 1 \in 1 .. Len(a)
    BY SMTT(30), <1>1
  <2>4. ASSUME NEW x \in Range(a) PROVE x \in Range(s) \cup {e}
    <3>1. PICK i \in 1 .. Len(a) : x = a[i]
      BY <2>1
    <3> QED BY Zenon, <1>1, <1>2, <2>2, <3>1
  <2>5. ASSUME NEW x \in Range(s) PROVE x \in Range(a)
    <3>1. PICK i \in 1 .. Len(s) : x = s[i]
      BY <2>2
    <3> QED BY Zenon, <1>1, <2>1, <2>3, <3>1
  <2>6. e \in Range(a)
    BY Zenon, <1>1, <2>1, <2>3
  <2> QED BY Zenon, <2>4, <2>5, <2>6
<1>4. Once(a)
  <2>1. \A i \in 1 .. Len(s) : s[i] # e
    BY RangeIs
  <2> SUFFICES ASSUME NEW i \in 1 .. Len(a), NEW j \in 1 .. Len(a), a[i] = a[j]
               PROVE  i = j
    BY Zenon DEF Once
  <2>2. CASE i = 1 \/ j = 1
    BY Zenon, <1>1, <1>2, <2>1, <2>2
  <2>3. CASE i # 1 /\ j # 1
    <3>1. i - 1 = j - 1
      BY Zenon, <1>2, <2>3 DEF Once
    <3> QED BY <3>1
  <2> QED BY Zenon, <2>2, <2>3
<1> QED BY Zenon, <1>1, <1>3, <1>4 DEF a

\* The elements of a concatenation
LEMMA Concatenated ==
  ASSUME NEW S, NEW s \in Seq(S), NEW t \in Seq(S)
  PROVE  /\ s \o t \in Seq(S) /\ Len(s \o t) = Len(s) + Len(t)
         /\ \A i \in 1 .. Len(s) : (s \o t)[i] = s[i]
         /\ \A i \in (Len(s) + 1) .. (Len(s) + Len(t)) : (s \o t)[i] = t[i - Len(s)]
OBVIOUS

\* One taken out
LEMMA Removed ==
  ASSUME NEW S, NEW s \in Seq(S), Once(s), NEW k \in DOMAIN s
  PROVE  /\ Without(s, k) \in Seq(S) /\ Once(Without(s, k))
         /\ Range(Without(s, k)) = Range(s) \ {s[k]} /\ s[k] \in Range(s)
<1> DEFINE a == SubSeq(s, 1, k - 1)
           b == SubSeq(s, k + 1, Len(s))
           r == Without(s, k)
<1>1. k \in 1 .. Len(s) /\ Len(s) \in Nat
  OBVIOUS
<1>2. /\ a \in Seq(S) /\ Len(a) = k - 1
      /\ \A i \in 1 .. (k - 1) : a[i] = s[i]
  BY SMTT(30), <1>1
<1>3. /\ b \in Seq(S) /\ Len(b) = Len(s) - k
      /\ \A i \in 1 .. (Len(s) - k) : b[i] = s[k + i]
  BY SMTT(30), <1>1
<1>4. r = a \o b
  BY DEF Without
<1> HIDE DEF a, b, r
<1>5. r \in Seq(S) /\ Len(r) = Len(s) - 1
  BY SMTT(30), <1>1, <1>2, <1>3, <1>4
<1> DEFINE p(i) == IF i < k THEN i ELSE i + 1
<1>6. ASSUME NEW i \in 1 .. Len(r) PROVE p(i) \in 1 .. Len(s) /\ p(i) # k /\ r[i] = s[p(i)]
  <2>1. CASE i < k
    <3>1. i \in 1 .. Len(a) /\ p(i) = i
      BY SMTT(30), <1>1, <1>2, <2>1
    <3>2. (a \o b)[i] = a[i]
      BY SMTT(30), <1>2, <1>3, <3>1
    <3> QED BY SMTT(30), <1>1, <1>2, <1>4, <2>1, <3>1, <3>2
  <2>2. CASE i >= k
    <3>1. i - (k - 1) \in 1 .. Len(b) /\ p(i) = i + 1 /\ i \in (Len(a) + 1) .. (Len(a) + Len(b))
      BY SMTT(30), <1>1, <1>2, <1>3, <1>5, <2>2
    <3>2. (a \o b)[i] = b[i - Len(a)]
      BY ZenonT(60), <1>2, <1>3, <3>1, Concatenated
    <3>3. b[i - (k - 1)] = s[k + (i - (k - 1))]
      BY ZenonT(60), <1>3, <3>1
    <3>4. r[i] = s[i + 1]
      BY SMTT(30), <1>1, <1>2, <1>4, <3>2, <3>3
    <3> QED BY SMTT(30), <1>1, <1>5, <2>2, <3>1, <3>4
  <2> QED BY SMTT(30), <1>1, <2>1, <2>2
<1>7. Once(r)
  <2> SUFFICES ASSUME NEW i \in 1 .. Len(r), NEW j \in 1 .. Len(r), r[i] = r[j]
               PROVE  i = j
    BY Zenon DEF Once
  <2>1. p(i) = p(j)
    <3> HIDE DEF p
    <3> QED BY Zenon, <1>6 DEF Once
  <2> QED BY SMTT(30), <1>1, <2>1
<1>8. \A x : x \in Range(s) <=> \E i \in 1 .. Len(s) : x = s[i]
  BY RangeIs
<1>9. \A x : x \in Range(r) <=> \E i \in 1 .. Len(r) : x = r[i]
  BY <1>5, RangeIs
<1>10. ASSUME NEW x \in Range(r) PROVE x \in Range(s) \ {s[k]}
  <2>1. PICK i \in 1 .. Len(r) : x = r[i]
    BY SMTT(30), <1>9
  <2>2. \E j \in 1 .. Len(s) : j # k /\ x = s[j]
    BY Zenon, <1>6, <2>1
  <2> QED BY Zenon, <1>1, <1>8, <2>2 DEF Once
<1>11. ASSUME NEW x \in Range(s) \ {s[k]} PROVE x \in Range(r)
  <2>1. PICK i \in 1 .. Len(s) : x = s[i]
    BY SMTT(30), <1>8
  <2>2. i # k
    BY SMTT(30), <2>1, <1>11
  <2> DEFINE j == IF i < k THEN i ELSE i - 1
  <2>3. j \in 1 .. Len(r) /\ p(j) = i
    BY SMTT(30), <1>1, <1>5, <2>1, <2>2
  <2>4. x = r[j]
    BY Zenon, <1>6, <2>1, <2>3
  <2> QED BY Zenon, <2>3, <2>4, <1>9
<1> QED BY Zenon, <1>1, <1>5, <1>7, <1>8, <1>10, <1>11 DEF r

\* What is left of the head of a list is listed
LEMMA Listed ==
  /\ AsList({}) = <<>>
  /\ \A x : AsList({x}) = <<x>>
<1>1. \A x : (CHOOSE e \in {x} : TRUE) = x /\ {x} # {}
  BY SMTT(30)
<1> QED BY SMTT(30), <1>1 DEF AsList

-----------------------------------------------------------------------------
(* Segments                                                                *)

\* A part of an SDU, of one byte or more
Segs == {s \in [sdu : Sdu, so : Nat, size : Nat \ {0}] :
           s.so + s.size <= SduSize[s.sdu]}

\* No two segments of the set share a byte.
Apart(S) ==
  \A s, t \in S : s.sdu = t.sdu /\ s # t =>
                    s.so + s.size <= t.so \/ t.so + t.size <= s.so

Covers(s, b) == s.so <= b /\ b < s.so + s.size

\* Fields of a segment
LEMMA SegmentIs ==
  /\ \A s \in Segs : /\ s.sdu \in Sdu /\ s.so \in Nat /\ s.size \in Nat \ {0}
                     /\ s.so + s.size <= SduSize[s.sdu]
                     /\ s = Segment(s.sdu, s.so, s.size)
                     /\ HeaderSize(s) \in Nat /\ PduSize(s) \in Nat
  /\ \A d \in Sdu, so \in Nat, size \in Nat \ {0} :
       so + size <= SduSize[d] => Segment(d, so, size) \in Segs
  /\ \A d, so, size : /\ Segment(d, so, size).sdu = d
                      /\ Segment(d, so, size).so = so
                      /\ Segment(d, so, size).size = size
BY SMTT(30), TxAssumption, SduSizeAssumption DEF Segs, Segment, HeaderSize, PduSize

\* resegment cuts a segment into two parts, of which neither is empty.
LEMMA Cut ==
  ASSUME NEW s \in Segs, NEW size \in Nat, HeaderSize(s) + 1 <= size
  PROVE  \/ FirstPart(s, size) = s /\ Rest(s, size) = {}
         \/ \E n \in Nat \ {0} :
              /\ n < s.size
              /\ FirstPart(s, size) = Segment(s.sdu, s.so, n)
              /\ Rest(s, size) = {Segment(s.sdu, s.so + n, s.size - n)}
<1>1. CASE PduSize(s) <= size
  BY <1>1 DEF FirstPart, Rest
<1>2. CASE ~(PduSize(s) <= size)
  <2> DEFINE n == size - HeaderSize(s)
  <2>1. n \in Nat \ {0} /\ n < s.size
    BY <1>2, SegmentIs DEF PduSize
  <2>2. /\ FirstPart(s, size) = Segment(s.sdu, s.so, n)
        /\ Rest(s, size) = {Segment(s.sdu, s.so + n, s.size - n)}
    BY <1>2 DEF FirstPart, Rest
  <2> QED BY <2>1, <2>2
<1> QED BY <1>1, <1>2

\* What a list becomes when one of its segments is cut
Recut(H, s, size) == (H \ {s}) \cup {FirstPart(s, size)} \cup Rest(s, size)

\* Cutting a segment leaves the segments apart, covers no more bytes, and makes
\* as many more segments as resegment adds references.
LEMMA Resegment ==
  ASSUME NEW H \in SUBSET Segs, Apart(H), IsFiniteSet(H),
         NEW s \in H, NEW size \in Nat, HeaderSize(s) + 1 <= size
  PROVE  LET a == FirstPart(s, size)
             R == Rest(s, size)
             N == Recut(H, s, size)
         IN  /\ a \in Segs /\ R \subseteq Segs /\ N \subseteq Segs
             /\ a.sdu = s.sdu /\ \A r \in R : r.sdu = s.sdu
             /\ a \notin R /\ a \notin H \ {s} /\ R \cap H = {}
             /\ R = {} \/ \E r : R = {r}
             /\ Apart(N) /\ IsFiniteSet(N) /\ Cardinality(R) \in Nat
             /\ \A d : Cardinality(OfSdu(N, d)) =
                         IF d = s.sdu THEN Cardinality(OfSdu(H, d)) + Cardinality(R)
                                      ELSE Cardinality(OfSdu(H, d))
             /\ \A x \in N : \A b \in Nat : Covers(x, b) =>
                  \E y \in H : y.sdu = x.sdu /\ Covers(y, b)
<1> DEFINE a == FirstPart(s, size)
           R == Rest(s, size)
           N == Recut(H, s, size)
<1>1. \A d : OfSdu(H, d) \in SUBSET H /\ IsFiniteSet(OfSdu(H, d)) /\ Cardinality(OfSdu(H, d)) \in Nat
  <2>1. \A d : OfSdu(H, d) \in SUBSET H
    BY DEF OfSdu
  <2> QED BY Zenon, <2>1, FS_Subset, FS_CardinalityType
<1>2. CASE a = s /\ R = {}
  <2>1. N = H
    BY <1>2 DEF Recut
  <2>2. Cardinality(R) = 0
    BY Zenon, <1>2, FS_EmptySet
  <2>3. \A d : Cardinality(OfSdu(N, d)) =
                 IF d = s.sdu THEN Cardinality(OfSdu(H, d)) + Cardinality(R)
                              ELSE Cardinality(OfSdu(H, d))
    BY <1>1, <2>1, <2>2
  <2> HIDE DEF a, R, N
  <2>4. a \notin R /\ a \notin H \ {s} /\ R \cap H = {} /\ a \in Segs /\ R \subseteq Segs
    BY <1>2
  <2>5. /\ N \subseteq Segs /\ a.sdu = s.sdu /\ \A r \in R : r.sdu = s.sdu
        /\ Apart(N) /\ IsFiniteSet(N)
    BY Zenon, <1>2, <2>1
  <2>7. Cardinality(R) \in Nat
    BY <2>2
  <2>6. \A x \in N : \A b \in Nat : Covers(x, b) =>
          \E y \in H : y.sdu = x.sdu /\ Covers(y, b)
    BY Zenon, <2>1
  <2> QED BY Zenon, <1>2, <2>3, <2>4, <2>5, <2>6, <2>7 DEF a, R, N
<1>3. CASE ~(a = s /\ R = {})
  <2>1. PICK n \in Nat \ {0} : /\ n < s.size /\ a = Segment(s.sdu, s.so, n)
                               /\ R = {Segment(s.sdu, s.so + n, s.size - n)}
    BY <1>3, Cut
  <2> DEFINE r == Segment(s.sdu, s.so + n, s.size - n)
  <2>2. /\ a.sdu = s.sdu /\ a.so = s.so /\ a.size = n
        /\ r.sdu = s.sdu /\ r.so = s.so + n /\ r.size = s.size - n
        /\ R = {r} /\ N = (H \ {s}) \cup {a} \cup {r}
    BY <2>1 DEF Segment, Recut
  <2>3. /\ s \in Segs /\ s.sdu \in Sdu /\ s.so \in Nat /\ s.size \in Nat
        /\ s.so + s.size <= SduSize[s.sdu] /\ SduSize[s.sdu] \in Nat
    BY SegmentIs, SduSizeAssumption
  <2>4. a \in Segs /\ r \in Segs
    <3>1. n \in Nat \ {0} /\ s.so + n \in Nat /\ s.size - n \in Nat \ {0}
      BY SMTT(30), <2>1, <2>3
    <3>2. s.so + n <= SduSize[s.sdu] /\ s.so + n + (s.size - n) <= SduSize[s.sdu]
      BY SMTT(30), <2>1, <2>3
    <3>3. Segment(s.sdu, s.so, n) \in Segs
      BY SMTT(30), <2>3, <3>1, <3>2, SegmentIs
    <3>4. r \in Segs
      BY SMTT(30), <2>3, <3>1, <3>2, SegmentIs
    <3> QED BY Zenon, <2>1, <3>3, <3>4
  <2> HIDE DEF a, R, N, r
  <2>5. \A t \in H : t.so \in Nat /\ t.size \in Nat \ {0}
    BY Zenon, SegmentIs
  <2>6. \A t \in H \ {s} : t.sdu = s.sdu =>
          t.so + t.size <= s.so \/ s.so + s.size <= t.so
    BY Zenon DEF Apart
  <2>7. a # r /\ a \notin H \ {s} /\ r \notin H
    <3>1. a # r
      BY SMTT(30), <2>1, <2>2, <2>3
    <3>2. a \notin H \ {s}
      BY SMTT(30), <2>1, <2>2, <2>3, <2>6
    <3>3. r \notin H \ {s} /\ r # s
      BY SMTT(30), <2>1, <2>2, <2>3, <2>6
    <3> QED BY Zenon, <3>1, <3>2, <3>3
  <2>8. Apart(N)
    <3> SUFFICES ASSUME NEW x \in N, NEW y \in N, x.sdu = y.sdu, x # y
                 PROVE  x.so + x.size <= y.so \/ y.so + y.size <= x.so
      BY Zenon DEF Apart
    <3>1. CASE x \in H \ {s} /\ y \in H \ {s}
      BY Zenon, <3>1 DEF Apart
    <3>2. CASE x \in H \ {s} /\ y \in {a, r}
      BY SMTT(30), <2>1, <2>2, <2>3, <2>5, <2>6, <3>2
    <3>3. CASE x \in {a, r} /\ y \in H \ {s}
      BY SMTT(30), <2>1, <2>2, <2>3, <2>5, <2>6, <3>3
    <3>4. CASE x \in {a, r} /\ y \in {a, r}
      BY <2>1, <2>2, <2>3, <3>4
    <3> QED BY Zenon, <2>2, <3>1, <3>2, <3>3, <3>4
  <2>9. Cardinality(R) = 1
    BY Zenon, <2>2, FS_Singleton
  <2>10. IsFiniteSet(N)
    <3>1. IsFiniteSet(H \ {s})
      BY Zenon, FS_RemoveElement
    <3>2. IsFiniteSet((H \ {s}) \cup {a})
      BY Zenon, <3>1, FS_AddElement
    <3> QED BY Zenon, <2>2, <3>2, FS_AddElement
  <2>11. ASSUME NEW d
         PROVE  Cardinality(OfSdu(N, d)) =
                  IF d = s.sdu THEN Cardinality(OfSdu(H, d)) + Cardinality(R)
                               ELSE Cardinality(OfSdu(H, d))
    <3> DEFINE O == OfSdu(H, d)
    <3>1. CASE d = s.sdu
      <4>1. OfSdu(N, d) = ((O \ {s}) \cup {a}) \cup {r}
        BY <2>2, <3>1 DEF OfSdu
      <4>2. s \in O /\ a \notin O \ {s} /\ r \notin (O \ {s}) \cup {a}
        BY <2>7, <3>1 DEF OfSdu
      <4> HIDE DEF O
      <4>3. IsFiniteSet(O) /\ Cardinality(O) \in Nat
        BY Zenon, <1>1 DEF O
      <4>4. IsFiniteSet(O \ {s}) /\ Cardinality(O \ {s}) = Cardinality(O) - 1
        BY <4>2, <4>3, FS_RemoveElement
      <4>5. /\ IsFiniteSet((O \ {s}) \cup {a})
            /\ Cardinality((O \ {s}) \cup {a}) = Cardinality(O \ {s}) + 1
        BY ZenonT(60), <4>2, <4>4, FS_AddElement
      <4>6. Cardinality(((O \ {s}) \cup {a}) \cup {r}) = Cardinality((O \ {s}) \cup {a}) + 1
        BY ZenonT(60), <4>2, <4>5, FS_AddElement
      <4>7. Cardinality(OfSdu(N, d)) = Cardinality(O) + 1
        BY SMTT(30), <4>1, <4>3, <4>4, <4>5, <4>6
      <4> QED BY Zenon, <2>9, <3>1, <4>7 DEF O
    <3>2. CASE d # s.sdu
      <4>1. OfSdu(N, d) = O
        BY <2>2, <3>2 DEF OfSdu
      <4> QED BY Zenon, <3>2, <4>1
    <3> QED BY Zenon, <3>1, <3>2
  <2>12. ASSUME NEW x \in N, NEW b \in Nat, Covers(x, b)
         PROVE  \E y \in H : y.sdu = x.sdu /\ Covers(y, b)
    <3>1. CASE x \in H
      BY Zenon, <2>12, <3>1
    <3>2. CASE x \in {a, r}
      <4>1. x.sdu = s.sdu /\ Covers(s, b)
        BY SMTT(30), <2>1, <2>2, <2>3, <2>12, <3>2 DEF Covers
      <4> QED BY Zenon, <4>1
    <3> QED BY Zenon, <2>2, <3>1, <3>2
  <2>13. N \subseteq Segs /\ R \subseteq Segs
    BY Zenon, <2>2, <2>4
  <2>14. /\ a \notin R /\ R \cap H = {} /\ \A q \in R : q.sdu = s.sdu
         /\ \E q : R = {q}
    BY Zenon, <2>2, <2>7
  <2>15. Cardinality(R) \in Nat
    BY <2>9
  <2> QED BY ZenonT(60), <2>2, <2>4, <2>7, <2>8, <2>10, <2>11, <2>12, <2>13, <2>14, <2>15 DEF a, R, N
<1> QED BY Zenon, <1>2, <1>3

-----------------------------------------------------------------------------
(* Sums of sizes                                                           *)

\* The PDU sizes of the segments of S have a sum.
Summed(S) == IsFiniteSet(Units([s \in S |-> PduSize(s)]))

\* One segment more
LEMMA PduAdd ==
  ASSUME NEW S, Summed(S), NEW s, s \notin S, PduSize(s) \in Nat
  PROVE  Summed(S \cup {s}) /\ TotalPduSize(S \cup {s}) = TotalPduSize(S) + PduSize(s)
<1> DEFINE f == [p \in S \cup {s} |-> PduSize(p)]
           g == [p \in S |-> PduSize(p)]
           h == [p \in {s} |-> PduSize(p)]
<1>1. DOMAIN h = {s} /\ h[s] \in Nat /\ h[s] = PduSize(s)
  OBVIOUS
<1>2. Combines(f, g, h) /\ IsFiniteSet(Units(g))
  BY DEF Combines, Summed
<1> HIDE DEF f, g, h
<1>3. IsFiniteSet(Units(h)) /\ Total(h) = h[s]
  BY Zenon, <1>1, TotalOne
<1>4. IsFiniteSet(Units(f)) /\ Total(f) = Total(g) + Total(h)
  BY <1>2, <1>3, TotalJoin
<1> QED BY Zenon, <1>1, <1>3, <1>4 DEF Summed, TotalPduSize, f, g

\* No segment, or one
LEMMA PduFew ==
  /\ Summed({}) /\ TotalPduSize({}) = 0
  /\ \A s : PduSize(s) \in Nat => Summed({s}) /\ TotalPduSize({s}) = PduSize(s)
<1> DEFINE g == [p \in {} |-> PduSize(p)]
<1>1. DOMAIN g = {}
  OBVIOUS
<1> HIDE DEF g
<1>2. IsFiniteSet(Units(g)) /\ Total(g) = 0
  BY <1>1, TotalEmpty
<1>3. Summed({}) /\ TotalPduSize({}) = 0
  BY Zenon, <1>2 DEF Summed, TotalPduSize, g
<1>4. ASSUME NEW s, PduSize(s) \in Nat
      PROVE  Summed({s}) /\ TotalPduSize({s}) = PduSize(s)
  <2> DEFINE h == [p \in {s} |-> PduSize(p)]
  <2>1. DOMAIN h = {s} /\ h[s] \in Nat /\ h[s] = PduSize(s)
    BY <1>4
  <2> HIDE DEF h
  <2>2. IsFiniteSet(Units(h)) /\ Total(h) = h[s]
    BY Zenon, <2>1, TotalOne
  <2> QED BY Zenon, <2>1, <2>2 DEF Summed, TotalPduSize, h
<1> QED BY Zenon, <1>3, <1>4

\* Two lists that share no segment
LEMMA PduJoin ==
  ASSUME NEW S, NEW T, S \cap T = {}, Summed(S), Summed(T)
  PROVE  /\ Summed(S \cup T) /\ TotalPduSize(S \cup T) = TotalPduSize(S) + TotalPduSize(T)
         /\ TotalPduSize(S) \in Nat /\ TotalPduSize(T) \in Nat
<1> DEFINE f == [p \in S \cup T |-> PduSize(p)]
           g == [p \in S |-> PduSize(p)]
           h == [p \in T |-> PduSize(p)]
<1>1. Combines(f, g, h) /\ IsFiniteSet(Units(g)) /\ IsFiniteSet(Units(h))
  BY DEF Combines, Summed
<1> HIDE DEF f, g, h
<1>2. /\ IsFiniteSet(Units(f)) /\ Total(f) = Total(g) + Total(h)
      /\ Total(g) \in Nat /\ Total(h) \in Nat
  BY <1>1, TotalJoin
<1> QED BY Zenon, <1>2 DEF Summed, TotalPduSize, f, g, h

\* A part of a list, and the rest
LEMMA PduSplit ==
  ASSUME NEW S, Summed(S), NEW T \in SUBSET S
  PROVE  /\ Summed(T) /\ Summed(S \ T)
         /\ TotalPduSize(S) = TotalPduSize(T) + TotalPduSize(S \ T)
         /\ TotalPduSize(T) \in Nat /\ TotalPduSize(S \ T) \in Nat
<1> DEFINE f == [p \in S |-> PduSize(p)]
           g == [p \in T |-> PduSize(p)]
           h == [p \in S \ T |-> PduSize(p)]
<1>1. Combines(f, g, h) /\ IsFiniteSet(Units(f))
  BY DEF Combines, Summed
<1> HIDE DEF f, g, h
<1>2. /\ IsFiniteSet(Units(g)) /\ IsFiniteSet(Units(h)) /\ Total(f) = Total(g) + Total(h)
      /\ Total(g) \in Nat /\ Total(h) \in Nat
  BY <1>1, TotalSplit
<1> QED BY Zenon, <1>2 DEF Summed, TotalPduSize, f, g, h

\* The sizes of the SDUs of D
SizeOfSdus(D) == Total([d \in D |-> SduSize[d]])

SummedSdus(D) == IsFiniteSet(Units([d \in D |-> SduSize[d]]))

\* No SDU; one more
LEMMA SduAdd ==
  /\ SummedSdus({}) /\ SizeOfSdus({}) = 0
  /\ \A D : \A d \in Sdu \ D : SummedSdus(D) =>
       SummedSdus(D \cup {d}) /\ SizeOfSdus(D \cup {d}) = SizeOfSdus(D) + SduSize[d]
<1> DEFINE e == [p \in {} |-> SduSize[p]]
<1>1. DOMAIN e = {}
  OBVIOUS
<1> HIDE DEF e
<1>2. IsFiniteSet(Units(e)) /\ Total(e) = 0
  BY <1>1, TotalEmpty
<1>3. SummedSdus({}) /\ SizeOfSdus({}) = 0
  BY Zenon, <1>2 DEF SummedSdus, SizeOfSdus, e
<1>4. ASSUME NEW D, NEW d \in Sdu \ D, SummedSdus(D)
      PROVE  SummedSdus(D \cup {d}) /\ SizeOfSdus(D \cup {d}) = SizeOfSdus(D) + SduSize[d]
  <2> DEFINE f == [p \in D \cup {d} |-> SduSize[p]]
             g == [p \in D |-> SduSize[p]]
             h == [p \in {d} |-> SduSize[p]]
  <2>1. DOMAIN h = {d} /\ h[d] \in Nat /\ h[d] = SduSize[d]
    BY SduSizeAssumption
  <2>2. Combines(f, g, h) /\ IsFiniteSet(Units(g))
    BY <1>4 DEF Combines, SummedSdus
  <2> HIDE DEF f, g, h
  <2>3. IsFiniteSet(Units(h)) /\ Total(h) = h[d]
    BY Zenon, <2>1, TotalOne
  <2>4. IsFiniteSet(Units(f)) /\ Total(f) = Total(g) + Total(h)
    BY <2>2, <2>3, TotalJoin
  <2> QED BY Zenon, <2>1, <2>3, <2>4 DEF SummedSdus, SizeOfSdus, f, g
<1> QED BY Zenon, <1>3, <1>4

\* Some SDUs fewer
LEMMA SduSplit ==
  ASSUME NEW D, SummedSdus(D), NEW E \in SUBSET D
  PROVE  /\ SummedSdus(E) /\ SummedSdus(D \ E)
         /\ SizeOfSdus(D) = SizeOfSdus(E) + SizeOfSdus(D \ E)
         /\ SizeOfSdus(E) \in Nat /\ SizeOfSdus(D \ E) \in Nat
<1> DEFINE f == [p \in D |-> SduSize[p]]
           g == [p \in E |-> SduSize[p]]
           h == [p \in D \ E |-> SduSize[p]]
<1>1. Combines(f, g, h) /\ IsFiniteSet(Units(f))
  BY DEF Combines, SummedSdus
<1> HIDE DEF f, g, h
<1>2. /\ IsFiniteSet(Units(g)) /\ IsFiniteSet(Units(h)) /\ Total(f) = Total(g) + Total(h)
      /\ Total(g) \in Nat /\ Total(h) \in Nat
  BY <1>1, TotalSplit
<1> QED BY Zenon, <1>2 DEF SummedSdus, SizeOfSdus, f, g, h

-----------------------------------------------------------------------------
(* The invariant                                                           *)

Held == Queued \cup Sent

InUse == {d \in Sdu : ref_count[d] > 0}

\* Every segment is in one place of one of the three lists, and no byte is
\* held twice.
Lists ==
  /\ tx_list \in Seq(Segs) /\ Once(tx_list)
  /\ wait_list \subseteq Segs /\ retransmit_list \subseteq Segs
  /\ Queued \cap Sent = {} /\ wait_list \cap retransmit_list = {}
  /\ Apart(Held) /\ IsFiniteSet(Held) /\ Summed(Held)

\* What was sent has a SN.
Numbers ==
  /\ tx_next \in Sn /\ tx_next_ack \in Sn /\ sdu_sn \in [Sdu -> Sn \cup {-1}]
  /\ \A s \in Sent : sdu_sn[s.sdu] \in Sn

\* Some byte of SDU d is in no segment of S.
Hole(S, d) ==
  \E b \in 0 .. (SduSize[d] - 1) : \A s \in S : s.sdu = d => ~Covers(s, b)

\* No more segments are held than are referenced and not freed, and no fewer
\* unless the peer makes the entity lose some.  Once a segment of an SDU is
\* freed the SDU has a hole.
Counts ==
  /\ ref_count \in [Sdu -> Nat] /\ free_count \in [Sdu -> Nat] /\ submitted \in Nat
  /\ \A d \in Sdu :
       /\ Cardinality(OfSdu(Held, d)) <= ref_count[d] - free_count[d]
       /\ StrictPeer => Cardinality(OfSdu(Held, d)) = ref_count[d] - free_count[d]
       /\ d >= submitted => ref_count[d] = 0
       /\ free_count[d] > 0 => Hole(Held, d)

Sums ==
  /\ SummedSdus(InUse) /\ tx_size = SizeOfSdus(InUse)
  /\ StrictPeer => BufferStatusExact

SenderInv == Lists /\ Numbers /\ Counts /\ Sums

-----------------------------------------------------------------------------
(* The order of the segments sent                                          *)

Dist(s) == Modulus(tx_next_ack, sdu_sn[s.sdu])

\* What was sent is ordered by SN, from tx_next_ack, then by offset.
LEMMA BeforeIs ==
  ASSUME Lists, Numbers
  PROVE  /\ \A s \in Sent : /\ Dist(s) \in Nat /\ s.so \in Nat /\ s.sdu \in Nat
                            /\ s.size \in Nat \ {0} /\ s.sdu \in Sdu
         /\ \A s, t \in Sent : TxBefore(s, t) <=> \/ Dist(s) < Dist(t)
                                                  \/ (Dist(s) = Dist(t) /\ s.so < t.so)
<1>1. Sdu \subseteq Nat
  BY SenderAssumption, FS_CardinalityType
<1>2. \A s \in Sent : s \in Segs /\ sdu_sn[s.sdu] \in Sn
  BY Zenon DEF Lists, Numbers, Sent
<1>3. \A s \in Sent : Dist(s) \in Nat
  <2>1. tx_next_ack \in Sn
    BY Zenon DEF Numbers
  <2>2. \A s \in Sent : Dist(s) \in Sn
    BY Zenon, <1>2, <2>1, ModulusType DEF Dist
  <2> QED BY <2>2, Window DEF Sn
<1>4. ASSUME NEW s \in Sent, NEW t \in Sent
      PROVE  TxBefore(s, t) <=> \/ Dist(s) < Dist(t)
                                \/ (Dist(s) = Dist(t) /\ s.so < t.so)
  <2>1. SnCompare(tx_next_ack, sdu_sn[s.sdu], sdu_sn[t.sdu]) = Dist(s) - Dist(t)
    BY Zenon DEF SnCompare, Dist
  <2>2. Dist(s) \in Nat /\ Dist(t) \in Nat
    BY Zenon, <1>3
    <2> QED BY <2>1, <2>2 DEF TxBefore
<1> QED BY Zenon, <1>1, <1>2, <1>3, <1>4, SegmentIs

\* The head of a list that is not empty is in it.
LEMMA FirstIs ==
  ASSUME Lists, Numbers, NEW S \in SUBSET Sent, S # {}
  PROVE  FirstOf(S) \in S
<1> DEFINE D == {Dist(s) : s \in S}
<1>1. D \in SUBSET Nat /\ D # {}
  <2>1. \A s \in S : Dist(s) \in Nat
    BY Zenon, BeforeIs
    <2> QED BY <2>1
<1>2. PICK k \in D : \A j \in D : k <= j
  BY ZenonT(60), <1>1, LeastNat
<1> DEFINE O == {s.so : s \in {t \in S : Dist(t) = k}}
<1>3. O \in SUBSET Nat /\ O # {}
  <2>1. \A s \in S : s.so \in Nat
    BY Zenon, BeforeIs
    <2> QED BY <1>2, <2>1
<1>4. PICK o \in O : \A j \in O : o <= j
  BY ZenonT(60), <1>3, LeastNat
<1>5. PICK s \in S : Dist(s) = k /\ s.so = o
  BY Zenon, <1>4
<1>6. ASSUME NEW t \in S PROVE ~TxBefore(t, s)
  <2>1. k <= Dist(t) /\ (Dist(t) = k => o <= t.so)
    BY Zenon, <1>2, <1>4
  <2>2. /\ k \in Nat /\ o \in Nat /\ Dist(t) \in Nat /\ t.so \in Nat
        /\ TxBefore(t, s) <=> Dist(t) < k \/ (Dist(t) = k /\ t.so < o)
    BY Zenon, <1>1, <1>3, <1>5, BeforeIs
    <2> QED BY <2>1, <2>2
<1> QED BY Zenon, <1>5, <1>6 DEF FirstOf

\* The walk of process_control_pdu meets segments that were sent, and none twice.
LEMMA MergedIs ==
  ASSUME Lists, Numbers
  PROVE  /\ Merged \in Seq(Sent)
         /\ \A i, j \in 1 .. Len(Merged) : Merged[i] = Merged[j] => i = j
<1> DEFINE S == Sent
           R(t, s) == TxBefore(t, s) \/ (~TxBefore(s, t) /\ t.sdu < s.sdu)
           before(s) == {t \in S : R(t, s)}
           n == Cardinality(S)
           nth(i) == CHOOSE s \in S : Cardinality(before(s)) = i - 1
           rank == [s \in S |-> Cardinality(before(s))]
<1>1. Merged = [i \in 1 .. n |-> nth(i)]
  BY Zenon DEF Merged, Sent
<1>2. IsFiniteSet(S) /\ n \in Nat
  <2>1. S \in SUBSET Held
    BY Zenon DEF Held
  <2> QED BY Zenon, <2>1, FS_Subset, FS_CardinalityType DEF Lists
<1>3. \A s, t \in S : s # t => R(s, t) \/ R(t, s)
  <2> SUFFICES ASSUME NEW s \in S, NEW t \in S, ~R(s, t), ~R(t, s) PROVE s = t
    BY Zenon
  <2>1. /\ Dist(s) \in Nat /\ s.so \in Nat /\ s.sdu \in Nat /\ s.size \in Nat \ {0}
        /\ Dist(t) \in Nat /\ t.so \in Nat /\ t.sdu \in Nat /\ t.size \in Nat \ {0}
    BY Zenon, BeforeIs
  <2>2. /\ TxBefore(s, t) <=> Dist(s) < Dist(t) \/ (Dist(s) = Dist(t) /\ s.so < t.so)
        /\ TxBefore(t, s) <=> Dist(t) < Dist(s) \/ (Dist(s) = Dist(t) /\ t.so < s.so)
    BY Zenon, BeforeIs
  <2>3. s.so = t.so /\ s.sdu = t.sdu
        <3> QED BY SMTT(30), <2>1, <2>2
  <2>4. ~(s.so + s.size <= t.so \/ t.so + t.size <= s.so)
    BY SMTT(30), <2>1, <2>3
  <2> QED BY Zenon, <2>3, <2>4 DEF Lists, Apart, Held
<1>4. \A s, t, u \in S : R(s, t) /\ R(t, u) => R(s, u)
  <2> SUFFICES ASSUME NEW s \in S, NEW t \in S, NEW u \in S, R(s, t), R(t, u) PROVE R(s, u)
    BY Zenon
  <2>1. /\ Dist(s) \in Nat /\ s.so \in Nat /\ s.sdu \in Nat
        /\ Dist(t) \in Nat /\ t.so \in Nat /\ t.sdu \in Nat
        /\ Dist(u) \in Nat /\ u.so \in Nat /\ u.sdu \in Nat
    BY Zenon, BeforeIs
  <2>2. /\ TxBefore(s, t) <=> Dist(s) < Dist(t) \/ (Dist(s) = Dist(t) /\ s.so < t.so)
        /\ TxBefore(t, s) <=> Dist(t) < Dist(s) \/ (Dist(t) = Dist(s) /\ t.so < s.so)
        /\ TxBefore(t, u) <=> Dist(t) < Dist(u) \/ (Dist(t) = Dist(u) /\ t.so < u.so)
        /\ TxBefore(u, t) <=> Dist(u) < Dist(t) \/ (Dist(u) = Dist(t) /\ u.so < t.so)
        /\ TxBefore(s, u) <=> Dist(s) < Dist(u) \/ (Dist(s) = Dist(u) /\ s.so < u.so)
        /\ TxBefore(u, s) <=> Dist(u) < Dist(s) \/ (Dist(u) = Dist(s) /\ u.so < s.so)
    BY Zenon, BeforeIs
    <2> QED BY <2>1, <2>2
<1>5. \A s \in S : ~R(s, s)
  <2> SUFFICES ASSUME NEW s \in S PROVE ~R(s, s)
    BY Zenon
  <2>1. Dist(s) \in Nat /\ s.so \in Nat /\ s.sdu \in Nat
    BY Zenon, BeforeIs
  <2>2. TxBefore(s, s) <=> Dist(s) < Dist(s) \/ (Dist(s) = Dist(s) /\ s.so < s.so)
    BY Zenon, BeforeIs
    <2> QED BY <2>1, <2>2
<1> HIDE DEF R, S
<1>6. \A s \in S : before(s) \in SUBSET S /\ before(s) # S
  BY Zenon, <1>5
<1>7. \A s, t \in S : R(s, t) => before(s) \in SUBSET before(t) /\ before(s) # before(t)
  <2> SUFFICES ASSUME NEW s \in S, NEW t \in S, R(s, t)
               PROVE  before(s) \in SUBSET before(t) /\ before(s) # before(t)
    BY Zenon
  <2>1. before(s) \in SUBSET before(t)
    BY Zenon, <1>4
  <2>2. s \in before(t) /\ s \notin before(s)
    BY Zenon, <1>5
  <2> QED BY Zenon, <2>1, <2>2
<1> HIDE DEF before
<1>8. \A s \in S : IsFiniteSet(before(s)) /\ Cardinality(before(s)) \in Nat
  BY Zenon, <1>2, <1>6, FS_Subset, FS_CardinalityType
<1>9. \A s \in S : Cardinality(before(s)) < n
  BY SMTT(30), <1>2, <1>6, <1>8, FS_Subset
<1>10. \A s, t \in S : R(s, t) => Cardinality(before(s)) < Cardinality(before(t))
  BY SMTT(30), <1>7, <1>8, FS_Subset
<1>11. rank \in Injection(S, 0 .. (n - 1))
  <2>1. rank \in [S -> 0 .. (n - 1)]
    BY SMTT(30), <1>2, <1>8, <1>9
  <2>2. ASSUME NEW s \in S, NEW t \in S, rank[s] = rank[t] PROVE s = t
    <3>1. ~R(s, t) /\ ~R(t, s)
      BY <2>2, <1>8, <1>10
    <3> QED BY Zenon, <3>1, <1>3
  <2> QED BY Zenon, <2>1, <2>2 DEF Injection, IsInjective
<1>12. rank \in Surjection(S, 0 .. (n - 1))
  <2>1. IsFiniteSet(0 .. (n - 1)) /\ Cardinality(0 .. (n - 1)) = n
    BY SMTT(30), <1>2, FS_Interval
  <2> QED BY Zenon, <2>1, <1>2, <1>11, FS_Injection
<1>13. ASSUME NEW i \in 1 .. n PROVE nth(i) \in S /\ Cardinality(before(nth(i))) = i - 1
  <2>1. i - 1 \in 0 .. (n - 1)
    BY <1>2
  <2>2. \E s \in S : Cardinality(before(s)) = i - 1
    BY ZenonT(60), <2>1, <1>12 DEF Surjection
  <2> QED BY Zenon, <2>2
<1> HIDE DEF nth
<1>14. \A i, j \in 1 .. n : nth(i) = nth(j) => i = j
  BY <1>2, <1>13
<1>15. Merged \in Seq(S) /\ Len(Merged) = n /\ \A i \in 1 .. n : Merged[i] = nth(i)
  BY <1>1, <1>2, <1>13
<1> QED BY Zenon, <1>14, <1>15 DEF S

-----------------------------------------------------------------------------
(* STATUS PDUs                                                             *)

\* The walk of process_control_pdu stops, for each segment, at a NACK by which
\* it is classified, or after the last one.
LEMMA NackIs ==
  ASSUME NEW m, NEW nacks, Len(m) \in Nat, Len(nacks) \in Nat
  PROVE  LET at == NackOf(m, nacks)
             last == Len(nacks)
         IN  \A j \in 1 .. Len(m) :
               /\ at[j] \in 1 .. (last + 1)
               /\ at[j] <= last => \/ Overlap(m[j], nacks[at[j]])
                                   \/ ~Beyond(m[j], nacks[at[j]])
<1> DEFINE last == Len(nacks)
           n == Len(m)
           H(j, k) == Overlap(m[j], nacks[k]) \/ ~Beyond(m[j], nacks[k])
           C(j, k) == {last + 1} \cup {i \in k .. last : H(j, i)}
           step(j, k) == Min(C(j, k))
           F(f, i) == f = [j \in 0 .. i |-> IF j = 0 THEN 1 ELSE step(j, f[j - 1])]
<1>1. n \in Nat /\ last \in Nat
  OBVIOUS
<1> HIDE DEF H, last, n
<1>2. ASSUME NEW j, NEW k \in 1 .. (last + 1)
      PROVE  step(j, k) \in 1 .. (last + 1) /\ step(j, k) \in C(j, k)
  <2>1. C(j, k) \in SUBSET Nat /\ C(j, k) # {} /\ \A i \in C(j, k) : i \in 1 .. (last + 1)
    BY <1>1
  <2>2. PICK i \in C(j, k) : \A h \in C(j, k) : i <= h
    BY Zenon, <2>1, LeastNat
  <2>3. step(j, k) \in C(j, k)
    BY Zenon, <2>2 DEF Min
  <2> QED BY Zenon, <2>1, <2>3
<1> HIDE DEF step
<1>3. \A i \in Nat : \E f : F(f, i)
  <2> DEFINE B == {i \in Nat : ~ \E f : F(f, i)}
  <2> SUFFICES ASSUME B # {} PROVE FALSE
    BY Zenon
  <2>1. PICK i \in B : \A h \in B : i <= h
    BY ZenonT(60), LeastNat
  <2>2. i # 0
    <3> DEFINE f == [j \in 0 .. 0 |-> 1]
    <3>1. F(f, 0)
      OBVIOUS
    <3> QED BY Zenon, <2>1, <3>1
  <2>3. i - 1 \in Nat /\ i - 1 \notin B /\ i \in Nat
    <3> HIDE DEF F
    <3>1. i \in Nat /\ i - 1 \in Nat /\ ~(i <= i - 1)
      BY <2>2
    <3> QED BY Zenon, <2>1, <3>1
  <2>4. PICK f : F(f, i - 1)
    BY Zenon, <2>3
  <2> DEFINE g == [j \in 0 .. i |-> IF j = 0 THEN 1 ELSE step(j, f[j - 1])]
  <2>5. \A j \in 0 .. (i - 1) : g[j] = f[j]
    BY SMTT(30), <2>3, <2>4
  <2>6. \A j \in 0 .. i : j # 0 => j - 1 \in 0 .. (i - 1)
    BY <2>3
  <2>7. F(g, i)
    <3> DEFINE h == [j \in 0 .. i |-> IF j = 0 THEN 1 ELSE step(j, g[j - 1])]
    <3>1. \A j \in 0 .. i : g[j] = h[j]
      BY Zenon, <2>5, <2>6
    <3> QED BY Zenon, <3>1
  <2> QED BY Zenon, <2>1, <2>7
<1> DEFINE at == NackOf(m, nacks)
<1>4. F(at, n)
  <2>1. at = CHOOSE f : F(f, n)
    BY Zenon DEF NackOf, last, n, H, step
  <2> QED BY Zenon, <1>1, <1>3, <2>1
<1> HIDE DEF at
<1>5. at[0] = 1 /\ \A j \in 1 .. n : at[j] = step(j, at[j - 1])
  BY <1>1, <1>4
<1> HIDE DEF F, C
<1>6. \A j \in 0 .. n : at[j] \in 1 .. (last + 1)
  <2> DEFINE B == {j \in 0 .. n : at[j] \notin 1 .. (last + 1)}
  <2> SUFFICES ASSUME B # {} PROVE FALSE
    BY Zenon
  <2>1. B \in SUBSET Nat
    BY <1>1
  <2>2. PICK i \in B : \A h \in B : i <= h
    BY Zenon, <2>1, LeastNat
  <2>3. 1 \in 1 .. (last + 1)
    BY <1>1
  <2>4. i # 0
    BY Zenon, <1>5, <2>2, <2>3
  <2>5. i \in 1 .. n /\ i - 1 \in 0 .. n /\ i - 1 \notin B
    BY SMTT(30), <1>1, <2>2, <2>4
  <2> QED BY Zenon, <1>2, <1>5, <2>2, <2>5
<1>7. ASSUME NEW j \in 1 .. n, at[j] <= last PROVE H(j, at[j])
  <2>1. j - 1 \in 0 .. n /\ j \in 0 .. n
    BY <1>1
  <2>2. at[j] \in C(j, at[j - 1])
    BY Zenon, <1>2, <1>5, <1>6, <2>1
  <2>3. at[j] # last + 1
    BY SMTT(30), <1>1, <1>6, <1>7, <2>1
  <2> QED BY Zenon, <2>2, <2>3 DEF C
<1>8. \A j \in 1 .. n : j \in 0 .. n
  BY SMTT(30), <1>1
<1> QED BY Zenon, <1>6, <1>7, <1>8 DEF at, H, last, n

\* The NACKs of a STATUS PDU
LEMMA StatusIs ==
  ASSUME NEW st \in Statuses
  PROVE  /\ st.ack_sn \in Sn /\ Len(st.nacks) \in Nat /\ DOMAIN st.nacks = 1 .. Len(st.nacks)
         /\ \A k \in DOMAIN st.nacks : st.nacks[k].sn \in Sn
<1>1. /\ st.ack_sn \in Sn
      /\ \E k \in 0 .. MaxNacks : st.nacks \in [1 .. k -> Nacks]
  BY Zenon DEF Statuses
<1>2. PICK k \in 0 .. MaxNacks : st.nacks \in [1 .. k -> Nacks]
  BY Zenon, <1>1
<1>3. \A n \in Nacks : n.sn \in Sn
  BY Zenon DEF Nacks
<1>4. k \in Nat
  OBVIOUS
<1> QED BY SMTT(30), <1>1, <1>2, <1>3, <1>4

\* What process_control_pdu takes off its lists had been sent, and it loses
\* nothing on the word of a peer that follows the standard: a segment at or
\* before a NACK lies below ack_sn.
LEMMA OutcomeIs ==
  ASSUME Lists, Numbers, NEW st \in Statuses
  PROVE  /\ Outcome(st).nacked \subseteq Sent /\ Outcome(st).acked \subseteq Sent
         /\ Outcome(st).nacked \cap Outcome(st).acked = {}
         /\ Outcome(st).lost \subseteq retransmit_list
         /\ ControlPduValid(st) /\ WellFormed(st) => Outcome(st).lost = {}
<1> DEFINE m == Merged
           last == Len(st.nacks)
           at == NackOf(m, st.nacks)
           hits == {j \in DOMAIN m : at[j] <= last /\ Overlap(m[j], st.nacks[at[j]])}
           lost == {j \in DOMAIN m \ hits :
                      /\ at[j] <= last
                      /\ ~Acked(m[j], st.ack_sn)
                      /\ \A k \in j .. Len(m) : m[k] \in retransmit_list}
           kept == {j \in DOMAIN m : \A k \in lost : j < k}
<1>1. /\ Outcome(st).nacked = {m[j] : j \in hits \cap kept}
      /\ Outcome(st).acked = {m[j] : j \in {k \in kept \ hits : Acked(m[k], st.ack_sn)}}
      /\ Outcome(st).lost = {m[j] : j \in DOMAIN m \ kept}
  BY ZenonT(60) DEF Outcome
<1>2. /\ \A j \in DOMAIN m : m[j] \in Sent /\ j \in 1 .. Len(m)
      /\ Len(m) \in Nat /\ DOMAIN m = 1 .. Len(m)
      /\ \A i, j \in DOMAIN m : m[i] = m[j] => i = j
  BY MergedIs
<1> HIDE DEF m, at, last
<1>3. lost \subseteq DOMAIN m /\ kept \subseteq DOMAIN m /\ hits \subseteq DOMAIN m
  BY Zenon
<1>4. \A j \in DOMAIN m \ kept : m[j] \in retransmit_list
  <2> SUFFICES ASSUME NEW j \in DOMAIN m, j \notin kept PROVE m[j] \in retransmit_list
    BY Zenon
  <2>1. PICK k \in lost : ~(j < k)
    BY Zenon
  <2>2. \A i \in k .. Len(m) : m[i] \in retransmit_list
    BY Zenon, <2>1
  <2>3. j \in k .. Len(m)
    <3>1. k \in 1 .. Len(m) /\ j \in 1 .. Len(m)
      BY Zenon, <1>2, <1>3, <2>1
    <3>2. Len(m) \in Nat /\ ~(j < k)
      BY ZenonT(60), <1>2, <2>1
    <3> QED BY SMTT(30), <3>1, <3>2
  <2> QED BY Zenon, <2>2, <2>3
<1>5. ControlPduValid(st) /\ WellFormed(st) => lost = {}
  <2> SUFFICES ASSUME ControlPduValid(st), WellFormed(st), NEW j \in lost PROVE FALSE
    BY Zenon
  <2> DEFINE k == at[j]
             a == Modulus(tx_next_ack, st.ack_sn)
             b == Modulus(tx_next_ack, st.nacks[k].sn)
  <2>1. /\ j \in DOMAIN m /\ k <= last /\ ~Overlap(m[j], st.nacks[k])
        /\ ~Acked(m[j], st.ack_sn)
    BY Zenon
  <2>2. /\ k \in 1 .. (last + 1) /\ last \in Nat
        /\ k <= last => Overlap(m[j], st.nacks[k]) \/ ~Beyond(m[j], st.nacks[k])
    BY Zenon, <1>2, <2>1, NackIs, StatusIs DEF at, last
  <2>3. k \in DOMAIN st.nacks /\ ~Beyond(m[j], st.nacks[k])
    <3>1. k \in 1 .. last
      BY SMTT(30), <2>1, <2>2
    <3> QED BY ZenonT(60), <2>1, <2>2, <3>1, StatusIs DEF last
  <2>4. /\ SnCompare(tx_next_ack, st.nacks[k].sn, st.ack_sn) <= 0
        /\ st.nacks[k].sn # st.ack_sn /\ st.nacks[k].sn \in Sn /\ st.ack_sn \in Sn
    BY Zenon, <2>3, StatusIs DEF ControlPduValid, WellFormed
  <2>5. tx_next_ack \in Sn /\ sdu_sn[m[j].sdu] \in Sn
    BY ZenonT(60), <1>2, <2>1 DEF Numbers
  <2>6. a \in Nat /\ b \in Nat /\ a # b /\ Dist(m[j]) \in Nat
    <3>1. a \in Sn /\ b \in Sn /\ a # b
      BY Zenon, <2>4, <2>5, ModulusType, ModulusInjective
    <3>2. Dist(m[j]) \in Nat
      BY Zenon, <1>2, <2>1, BeforeIs
    <3> QED BY SMTT(30), <3>1, <3>2, Window DEF Sn
  <2>7. b - a <= 0 /\ ~(Dist(m[j]) - a < 0) /\ ~(Dist(m[j]) - b > 0)
    BY Zenon, <2>1, <2>3, <2>4 DEF SnCompare, Acked, Beyond, Dist
  <2> QED BY SMTT(30), <2>6, <2>7
<1>6. lost = {} => DOMAIN m \ kept = {}
  BY Zenon
<1> DEFINE nacked == hits \cap kept
           acked == {k \in kept \ hits : Acked(m[k], st.ack_sn)}
<1>7. nacked \subseteq DOMAIN m /\ acked \subseteq DOMAIN m /\ nacked \cap acked = {}
  BY Zenon, <1>3
<1>8. Outcome(st).nacked = {m[j] : j \in nacked} /\ Outcome(st).acked = {m[j] : j \in acked}
  BY Zenon, <1>1
<1> HIDE DEF hits, lost, kept, nacked, acked
<1>9. Outcome(st).nacked \subseteq Sent /\ Outcome(st).acked \subseteq Sent
  BY SMTT(30), <1>2, <1>7, <1>8
<1>10. Outcome(st).nacked \cap Outcome(st).acked = {}
  BY SMTT(30), <1>2, <1>7, <1>8
<1>11. Outcome(st).lost \subseteq retransmit_list
  BY Zenon, <1>1, <1>4
<1>12. ControlPduValid(st) /\ WellFormed(st) => Outcome(st).lost = {}
  BY Zenon, <1>1, <1>5, <1>6
<1> QED BY Zenon, <1>9, <1>10, <1>11, <1>12

-----------------------------------------------------------------------------
(* The invariant after a step                                              *)

\* The parts of what is held are finite and have a sum.
LEMMA HeldIs ==
  ASSUME Lists
  PROVE  /\ Held \subseteq Segs /\ Queued \subseteq Held /\ Sent \subseteq Held
         /\ wait_list \subseteq Held /\ retransmit_list \subseteq Held
         /\ \A S \in SUBSET Held :
              /\ IsFiniteSet(S) /\ Cardinality(S) \in Nat /\ Cardinality(S) <= Cardinality(Held)
              /\ Summed(S) /\ TotalPduSize(S) \in Nat
              /\ \A d : OfSdu(S, d) \in SUBSET Held
<1>1. Queued \subseteq Segs
  BY RangeIs DEF Lists, Queued
<1>2. /\ Held \subseteq Segs /\ Queued \subseteq Held /\ Sent \subseteq Held
      /\ wait_list \subseteq Held /\ retransmit_list \subseteq Held
  BY Zenon, <1>1 DEF Lists, Held, Sent
<1>3. ASSUME NEW S \in SUBSET Held
      PROVE  /\ IsFiniteSet(S) /\ Cardinality(S) \in Nat /\ Cardinality(S) <= Cardinality(Held)
             /\ Summed(S) /\ TotalPduSize(S) \in Nat
             /\ \A d : OfSdu(S, d) \in SUBSET Held
  <2>1. IsFiniteSet(Held) /\ Summed(Held)
    BY Zenon DEF Lists
  <2>2. IsFiniteSet(S) /\ Cardinality(S) <= Cardinality(Held) /\ Cardinality(S) \in Nat
    BY Zenon, <2>1, FS_Subset, FS_CardinalityType
  <2>3. Summed(S) /\ TotalPduSize(S) \in Nat
    BY ZenonT(60), <2>1, PduSplit
  <2>4. \A d : OfSdu(S, d) \in SUBSET Held
    BY DEF OfSdu
  <2> QED BY Zenon, <2>2, <2>3, <2>4
<1> QED BY Zenon, <1>2, <1>3

\* The three lists after a step
LEMMA NextLists ==
  ASSUME NEW H, H = Range(tx_list') \cup (wait_list' \cup retransmit_list'),
         Apart(H), IsFiniteSet(H), Summed(H),
         tx_list' \in Seq(Segs), Once(tx_list'),
         wait_list' \subseteq Segs, retransmit_list' \subseteq Segs,
         Range(tx_list') \cap (wait_list' \cup retransmit_list') = {},
         wait_list' \cap retransmit_list' = {}
  PROVE  Lists' /\ Held' = H
<1>1. Held' = H /\ Queued' = Range(tx_list') /\ Sent' = wait_list' \cup retransmit_list'
  BY Zenon DEF Held, Queued, Sent
<1>2. /\ Apart(Held') /\ IsFiniteSet(Held') /\ Summed(Held')
      /\ Queued' \cap Sent' = {}
  BY Zenon, <1>1
<1> QED BY Zenon, <1>1, <1>2 DEF Lists

\* The counts after a step
LEMMA NextCounts ==
  ASSUME NEW H, Held' = H,
         ref_count' \in [Sdu -> Nat], free_count' \in [Sdu -> Nat], submitted' \in Nat,
         \A d \in Sdu :
           /\ Cardinality(OfSdu(H, d)) <= ref_count'[d] - free_count'[d]
           /\ StrictPeer => Cardinality(OfSdu(H, d)) = ref_count'[d] - free_count'[d]
           /\ d >= submitted' => ref_count'[d] = 0
           /\ free_count'[d] > 0 => Hole(H, d)
  PROVE  Counts'
BY Zenon DEF Counts

\* The sums after a step
LEMMA NextSums ==
  ASSUME NEW D, D = {d \in Sdu : ref_count'[d] > 0},
         SummedSdus(D), tx_size' = SizeOfSdus(D),
         StrictPeer => /\ bstatus_tx' = TotalPduSize(Range(tx_list'))
                       /\ bstatus_retx' = TotalPduSize(retransmit_list')
  PROVE  Sums'
<1>1. InUse' = D
  BY Zenon DEF InUse
<1>2. SummedSdus(InUse') /\ tx_size' = SizeOfSdus(InUse')
  BY Zenon, <1>1
<1>3. StrictPeer => BufferStatusExact'
  BY Zenon DEF BufferStatusExact, Queued
<1> QED BY Zenon, <1>2, <1>3 DEF Sums

\* nr_rlc_entity_am_recv_sdu
LEMMA SubmitStep ==
  ASSUME SenderInv, Submit
  PROVE  SenderInv'
<1> USE DEF SenderInv
<1>1. CASE TxFull(submitted)
  <2>1. UNCHANGED tx_vars /\ submitted \in Sdu /\ submitted' = submitted + 1
    BY Zenon, <1>1 DEF Submit, RecvSdu
  <2>2. Lists' /\ Numbers' /\ Sums' /\ Held' = Held
    BY Zenon, <2>1 DEF tx_vars, tx_lists, tx_sdus, Lists, Numbers, Sums, Held, Queued, Sent,
         InUse, BufferStatusExact
  <2>3. ref_count' = ref_count /\ free_count' = free_count
    BY Zenon, <2>1 DEF tx_vars, tx_sdus
  <2>4. submitted' \in Nat /\ \A d \in Sdu : d >= submitted' => d >= submitted
    <3>1. submitted \in Nat /\ Sdu \subseteq Nat
      BY SMTT(30), SenderAssumption, FS_CardinalityType DEF Counts
    <3> QED BY SMTT(30), <2>1, <3>1
  <2>5. Counts'
    BY Zenon, <2>2, <2>3, <2>4, NextCounts DEF Counts
  <2> QED BY Zenon, <2>2, <2>5
<1>2. CASE ~TxFull(submitted)
  <2> DEFINE d == submitted
             s == Segment(d, 0, SduSize[d])
             H == Held \cup {s}
  <2>1. /\ d \in Sdu /\ submitted' = d + 1
        /\ tx_list' = Append(tx_list, s) /\ tx_size' = tx_size + SduSize[d]
        /\ bstatus_tx' = bstatus_tx + PduSize(s)
        /\ ref_count' = [ref_count EXCEPT ![d] = 1]
        /\ wait_list' = wait_list /\ retransmit_list' = retransmit_list
        /\ bstatus_retx' = bstatus_retx /\ free_count' = free_count
        /\ tx_next' = tx_next /\ tx_next_ack' = tx_next_ack /\ sdu_sn' = sdu_sn
    BY Zenon, <1>2 DEF Submit, RecvSdu
  <2>2. /\ d \in Nat /\ Sdu \subseteq Nat /\ SduSize[d] \in Nat \ {0}
        /\ ref_count \in [Sdu -> Nat] /\ free_count \in [Sdu -> Nat]
    BY SMTT(30), SenderAssumption, SduSizeAssumption, FS_CardinalityType, <2>1 DEF Counts
  <2>3. s \in Segs /\ s.sdu = d /\ s.so = 0 /\ s.size = SduSize[d]
    <3>1. 0 \in Nat /\ 0 + SduSize[d] <= SduSize[d]
      BY <2>2
    <3> QED BY SMTT(30), <2>1, <2>2, <3>1, SegmentIs
  <2>4. ref_count[d] = 0 /\ free_count[d] = 0 /\ OfSdu(Held, d) = {}
    <3>1. /\ Cardinality(OfSdu(Held, d)) <= ref_count[d] - free_count[d]
          /\ d >= d => ref_count[d] = 0
      BY Zenon, <2>1 DEF Counts
    <3>2. IsFiniteSet(OfSdu(Held, d)) /\ Cardinality(OfSdu(Held, d)) \in Nat
      BY Zenon, HeldIs
    <3>3. ref_count[d] = 0 /\ free_count[d] = 0 /\ Cardinality(OfSdu(Held, d)) = 0
      BY SMTT(30), <2>1, <2>2, <3>1, <3>2
    <3> QED BY Zenon, <3>2, <3>3, FS_EmptySet
  <2>5. \A t \in Held : t.sdu # d
    BY Zenon, <2>4 DEF OfSdu
  <2> HIDE DEF s
  <2>6. s \notin Held /\ s \notin Queued /\ s \notin Sent
    BY Zenon, <2>3, <2>5, HeldIs
  <2>7. /\ tx_list' \in Seq(Segs) /\ Once(tx_list')
        /\ Range(tx_list') = Queued \cup {s}
    BY Zenon, <2>1, <2>3, <2>6, Appended DEF Lists, Queued
  <2>8. Apart(H)
    BY Zenon, <2>3, <2>5 DEF Lists, Apart
  <2>9. IsFiniteSet(H) /\ Summed(H)
    <3>1. PduSize(s) \in Nat
      BY Zenon, <2>3, SegmentIs
    <3> QED BY SMTT(30), <2>6, <3>1, FS_AddElement, PduAdd DEF Lists
  <2>10. Lists' /\ Held' = H
    <3>1. H = Range(tx_list') \cup (wait_list' \cup retransmit_list')
      BY Zenon, <2>1, <2>7 DEF Held, Sent
    <3>2. Range(tx_list') \cap (wait_list' \cup retransmit_list') = {}
      BY Zenon, <2>1, <2>6, <2>7 DEF Lists, Sent
    <3>3. wait_list' \subseteq Segs /\ retransmit_list' \subseteq Segs /\ wait_list' \cap retransmit_list' = {}
      BY Zenon, <2>1 DEF Lists
    <3> HIDE DEF H
    <3> QED BY Zenon, <2>7, <2>8, <2>9, <3>1, <3>2, <3>3, NextLists
  <2>11. Numbers'
    BY Zenon, <2>1 DEF Numbers, Sent
  <2>12. Counts'
    <3>1. OfSdu(H, d) = {s} /\ \A e : e # d => OfSdu(H, e) = OfSdu(Held, e)
      BY <2>3, <2>5 DEF OfSdu
    <3>2. \A e : e # d /\ Hole(Held, e) => Hole(H, e)
      BY Zenon, <2>3 DEF Hole
    <3>3. Cardinality(OfSdu(H, d)) = 1
      BY Zenon, <3>1, FS_Singleton
    <3>4. /\ ref_count' \in [Sdu -> Nat] /\ ref_count'[d] = 1
          /\ \A e \in Sdu : e # d => ref_count'[e] = ref_count[e]
      BY SMTT(30), <2>1, <2>2
    <3>5. /\ submitted' \in Nat /\ ~(d >= submitted')
          /\ \A e \in Sdu : e >= submitted' => e >= submitted
      BY SMTT(30), <2>1, <2>2
    <3>6. 1 <= 1 - 0 /\ 1 = 1 - 0 /\ ~(0 > 0)
      OBVIOUS
    <3> HIDE DEF H
    <3>7. ASSUME NEW e \in Sdu
          PROVE  /\ Cardinality(OfSdu(H, e)) <= ref_count'[e] - free_count'[e]
                 /\ StrictPeer => Cardinality(OfSdu(H, e)) = ref_count'[e] - free_count'[e]
                 /\ e >= submitted' => ref_count'[e] = 0
                 /\ free_count'[e] > 0 => Hole(H, e)
      <4>1. CASE e = d
        BY Zenon, <2>1, <2>4, <3>3, <3>4, <3>5, <3>6, <4>1
      <4>2. CASE e # d
        BY Zenon, <2>1, <3>1, <3>2, <3>4, <3>5, <4>2 DEF Counts
      <4> QED BY Zenon, <4>1, <4>2
    <3> QED BY ZenonT(60), <2>1, <2>2, <2>10, <3>4, <3>5, <3>7, NextCounts
  <2>13. Sums'
    <3> DEFINE D == InUse \cup {d}
    <3>1. D = {e \in Sdu : ref_count'[e] > 0}
      BY SMTT(30), <2>1, <2>2 DEF InUse
    <3>2. d \in Sdu \ InUse
      BY <2>1, <2>4 DEF InUse
    <3>3. SummedSdus(D) /\ SizeOfSdus(D) = SizeOfSdus(InUse) + SduSize[d]
      BY Zenon, <3>2, SduAdd DEF Sums
    <3>4. tx_size' = SizeOfSdus(D)
      BY Zenon, <2>1, <3>3 DEF Sums
    <3>5. TotalPduSize(Range(tx_list')) = TotalPduSize(Queued) + PduSize(s)
      <4>1. Summed(Queued) /\ PduSize(s) \in Nat
        BY Zenon, <2>3, HeldIs, SegmentIs
      <4> QED BY SMTT(30), <2>6, <2>7, <4>1, PduAdd
    <3>6. StrictPeer => /\ bstatus_tx' = TotalPduSize(Range(tx_list'))
                        /\ bstatus_retx' = TotalPduSize(retransmit_list')
      BY Zenon, <2>1, <3>5 DEF Sums, BufferStatusExact
    <3> HIDE DEF D
    <3> QED BY Zenon, <3>1, <3>3, <3>4, <3>6, NextSums
  <2> QED BY Zenon, <2>10, <2>11, <2>12, <2>13
<1> QED BY Zenon, <1>1, <1>2

\* The sum after a segment is replaced by others
LEMMA CutSum ==
  ASSUME NEW L \in SUBSET Segs, Summed(L), NEW s \in L, NEW R, Summed(R), R \cap (L \ {s}) = {}
  PROVE  /\ Summed((L \ {s}) \cup R)
         /\ TotalPduSize((L \ {s}) \cup R) = TotalPduSize(L) - PduSize(s) + TotalPduSize(R)
<1>1. PduSize(s) \in Nat
  BY Zenon, SegmentIs
<1>2. TotalPduSize({s}) = PduSize(s)
  BY Zenon, <1>1, PduFew
<1>3. /\ Summed(L \ {s}) /\ TotalPduSize(L) = TotalPduSize({s}) + TotalPduSize(L \ {s})
      /\ TotalPduSize(L \ {s}) \in Nat
  BY ZenonT(60), PduSplit
<1>4. /\ Summed((L \ {s}) \cup R) /\ TotalPduSize(R) \in Nat
      /\ TotalPduSize((L \ {s}) \cup R) = TotalPduSize(L \ {s}) + TotalPduSize(R)
  BY ZenonT(60), <1>3, PduJoin
<1> QED BY SMTT(30), <1>1, <1>2, <1>3, <1>4

\* Cutting a held segment keeps the counts right and holds nothing twice.
LEMMA CutKeeps ==
  ASSUME SenderInv, NEW s \in Held, NEW size \in Nat, HeaderSize(s) + 1 <= size
  PROVE  LET H == Recut(Held, s, size)
         IN  /\ Apart(H) /\ IsFiniteSet(H) /\ Summed(H) /\ Summed(Rest(s, size))
             /\ /\ Held' = H /\ ref_count' = Referenced(s, Rest(s, size))
                /\ free_count' = free_count /\ submitted' = submitted
                => Counts' /\ InUse = {d \in Sdu : ref_count'[d] > 0}
<1> DEFINE a == FirstPart(s, size)
           R == Rest(s, size)
           H == Recut(Held, s, size)
           n == Cardinality(R)
<1> USE DEF SenderInv
<1>1. /\ Held \in SUBSET Segs /\ Apart(Held) /\ IsFiniteSet(Held) /\ Summed(Held)
      /\ s \in Segs /\ s.sdu \in Sdu
  BY Zenon, HeldIs, SegmentIs DEF Lists
<1>2. /\ a \in Segs /\ R \subseteq Segs
      /\ a \notin R /\ a \notin Held \ {s} /\ R \cap Held = {}
      /\ Apart(H) /\ IsFiniteSet(H) /\ n \in Nat
  BY SMTT(30), <1>1, Resegment
<1>3. R = {} \/ \E r : R = {r}
  BY ZenonT(60), <1>1, Cut
<1>4. \A d : Cardinality(OfSdu(H, d)) =
               IF d = s.sdu THEN Cardinality(OfSdu(Held, d)) + n
                            ELSE Cardinality(OfSdu(Held, d))
  BY SMTT(30), <1>1, Resegment
<1>5. \A x \in H : \A b \in Nat : Covers(x, b) =>
        \E y \in Held : y.sdu = x.sdu /\ Covers(y, b)
  BY SMTT(30), <1>1, Resegment
<1>6. H = (Held \ {s}) \cup ({a} \cup R)
  BY Zenon DEF Recut
<1> HIDE DEF a, R, H, n
<1>7. Summed(R)
  <2>1. CASE R = {}
    BY Zenon, <2>1, PduFew
  <2>2. CASE R # {}
    <3>1. PICK r : R = {r}
      BY Zenon, <1>3, <2>2
    <3>2. PduSize(r) \in Nat
      BY Zenon, <1>2, <3>1, SegmentIs
    <3> QED BY Zenon, <3>1, <3>2, PduFew
  <2> QED BY Zenon, <2>1, <2>2
<1>8. Summed(H)
  <2>1. Summed({a})
    BY Zenon, <1>2, SegmentIs, PduFew
  <2>2. {a} \cap R = {}
    BY Zenon, <1>2
  <2>3. Summed({a} \cup R)
    BY ZenonT(60), <1>7, <2>1, <2>2, PduJoin
  <2>4. ({a} \cup R) \cap (Held \ {s}) = {}
    BY Zenon, <1>2
  <2> QED BY Zenon, <1>1, <1>6, <2>3, <2>4, CutSum
<1>9. ASSUME Held' = H, ref_count' = Referenced(s, R), free_count' = free_count,
             submitted' = submitted
      PROVE  Counts' /\ InUse = {d \in Sdu : ref_count'[d] > 0}
  <2>1. /\ ref_count \in [Sdu -> Nat] /\ free_count \in [Sdu -> Nat] /\ submitted \in Nat
    BY Zenon DEF Counts
  <2>2. /\ ref_count' \in [Sdu -> Nat] /\ ref_count'[s.sdu] = ref_count[s.sdu] + n
        /\ \A d \in Sdu : d # s.sdu => ref_count'[d] = ref_count[d]
    BY SMTT(30), <1>1, <1>2, <1>9, <2>1 DEF Referenced, n
  <2>3. ref_count[s.sdu] > 0
    <3>1. s \in OfSdu(Held, s.sdu)
      BY DEF OfSdu
    <3>2. IsFiniteSet(OfSdu(Held, s.sdu)) /\ Cardinality(OfSdu(Held, s.sdu)) \in Nat
      BY Zenon, HeldIs
    <3>3. Cardinality(OfSdu(Held, s.sdu)) # 0
      BY Zenon, <3>1, <3>2, FS_EmptySet
    <3>4. Cardinality(OfSdu(Held, s.sdu)) <= ref_count[s.sdu] - free_count[s.sdu]
      BY Zenon, <1>1 DEF Counts
    <3>5. ref_count[s.sdu] \in Nat /\ free_count[s.sdu] \in Nat
      BY SMTT(30), <1>1, <2>1
    <3> QED BY SMTT(30), <3>2, <3>3, <3>4, <3>5
  <2>4. InUse = {d \in Sdu : ref_count'[d] > 0}
    <3>1. \A d \in Sdu : ref_count'[d] > 0 <=> ref_count[d] > 0
      BY SMTT(30), <1>1, <1>2, <2>1, <2>2, <2>3
    <3> QED BY Zenon, <3>1 DEF InUse
  <2>5. ASSUME NEW d \in Sdu
        PROVE  /\ Cardinality(OfSdu(H, d)) <= ref_count'[d] - free_count'[d]
               /\ StrictPeer => Cardinality(OfSdu(H, d)) = ref_count'[d] - free_count'[d]
               /\ d >= submitted' => ref_count'[d] = 0
               /\ free_count'[d] > 0 => Hole(H, d)
    <3>1. /\ Cardinality(OfSdu(Held, d)) <= ref_count[d] - free_count[d]
          /\ StrictPeer => Cardinality(OfSdu(Held, d)) = ref_count[d] - free_count[d]
          /\ d >= submitted => ref_count[d] = 0
          /\ free_count[d] > 0 => Hole(Held, d)
      BY Zenon DEF Counts
    <3>2. Hole(Held, d) => Hole(H, d)
      <4> SUFFICES ASSUME Hole(Held, d) PROVE Hole(H, d)
        OBVIOUS
      <4>1. PICK b \in 0 .. (SduSize[d] - 1) : \A t \in Held : t.sdu = d => ~Covers(t, b)
        BY Zenon DEF Hole
      <4>2. b \in Nat
        BY SMTT(30), SduSizeAssumption
      <4>3. \A t \in H : t.sdu = d => ~Covers(t, b)
        BY Zenon, <1>5, <4>1, <4>2
      <4> QED BY Zenon, <4>3 DEF Hole
    <3>3. Cardinality(OfSdu(Held, d)) \in Nat /\ ref_count[d] \in Nat /\ free_count[d] \in Nat
      BY Zenon, <2>1, HeldIs
    <3>4. CASE d = s.sdu
      <4>1. /\ Cardinality(OfSdu(H, d)) = Cardinality(OfSdu(Held, d)) + n
            /\ ref_count'[d] = ref_count[d] + n
        BY ZenonT(60), <1>4, <2>2, <3>4
      <4>2. /\ Cardinality(OfSdu(H, d)) <= ref_count'[d] - free_count[d]
            /\ StrictPeer => Cardinality(OfSdu(H, d)) = ref_count'[d] - free_count[d]
        BY SMTT(30), <1>2, <3>1, <3>3, <4>1
      <4>3. ~(d >= submitted)
        BY SMTT(30), <2>3, <3>1, <3>3, <3>4
      <4> QED BY Zenon, <1>9, <3>1, <3>2, <4>2, <4>3
    <3>5. CASE d # s.sdu
      <4>1. /\ Cardinality(OfSdu(H, d)) = Cardinality(OfSdu(Held, d))
            /\ ref_count'[d] = ref_count[d]
        BY Zenon, <1>4, <2>2, <3>5
      <4> QED BY Zenon, <1>9, <3>1, <3>2, <4>1
    <3> QED BY Zenon, <3>4, <3>5
  <2>6. Counts'
    BY Zenon, <1>9, <2>1, <2>2, <2>5, NextCounts
  <2> QED BY Zenon, <2>4, <2>6
<1> QED BY Zenon, <1>2, <1>7, <1>8, <1>9 DEF H, R

\* generate_retx_pdu
LEMMA RetxStep ==
  ASSUME SenderInv, NEW size \in Nat, GenerateRetxPdu(size), UNCHANGED submitted
  PROVE  SenderInv'
<1> DEFINE s == FirstOf(retransmit_list)
           a == FirstPart(s, size)
           R == Rest(s, size)
           H == Recut(Held, s, size)
<1> USE DEF SenderInv
<1>1. /\ retransmit_list # {} /\ HeaderSize(s) + 1 <= size
      /\ retransmit_list' = (retransmit_list \ {s}) \cup R
      /\ wait_list' = wait_list \cup {a}
      /\ bstatus_retx' = bstatus_retx - PduSize(s) + TotalPduSize(R)
      /\ ref_count' = Referenced(s, R)
      /\ tx_list' = tx_list /\ tx_size' = tx_size /\ bstatus_tx' = bstatus_tx
      /\ tx_next' = tx_next /\ tx_next_ack' = tx_next_ack
      /\ sdu_sn' = sdu_sn /\ free_count' = free_count
  BY ZenonT(60) DEF GenerateRetxPdu, RetxFits, RetxLeft, RetxPdu
<1>2. /\ s \in retransmit_list /\ s \in Sent /\ s \in Held /\ s \notin Queued /\ s \notin wait_list
      /\ Held \in SUBSET Segs /\ Apart(Held) /\ IsFiniteSet(Held)
  <2>1. retransmit_list \in SUBSET Sent
    BY Zenon DEF Sent
  <2>2. s \in retransmit_list
    BY ZenonT(60), <1>1, <2>1, FirstIs
  <2> QED BY Zenon, <2>1, <2>2, HeldIs DEF Lists
<1> HIDE DEF s
<1>3. /\ a \in Segs /\ R \subseteq Segs
      /\ a.sdu = s.sdu /\ \A r \in R : r.sdu = s.sdu
      /\ a \notin R /\ a \notin Held \ {s} /\ R \cap Held = {}
  BY SMTT(30), <1>1, <1>2, Resegment
<1>4. /\ Apart(H) /\ IsFiniteSet(H) /\ Summed(H) /\ Summed(R)
      /\ /\ Held' = H /\ ref_count' = Referenced(s, R)
         /\ free_count' = free_count /\ submitted' = submitted
         => Counts' /\ InUse = {d \in Sdu : ref_count'[d] > 0}
  BY Zenon, <1>1, <1>2, CutKeeps
<1>5. H = Queued \cup ((wait_list \cup {a}) \cup ((retransmit_list \ {s}) \cup R))
  BY Zenon, <1>2 DEF Recut, Held, Sent
<1> HIDE DEF a, R, H
<1>6. Lists' /\ Held' = H
  <2>1. H = Range(tx_list') \cup (wait_list' \cup retransmit_list')
    BY Zenon, <1>1, <1>5 DEF Queued
  <2>2. /\ tx_list' \in Seq(Segs) /\ Once(tx_list')
        /\ wait_list' \subseteq Segs /\ retransmit_list' \subseteq Segs
    BY Zenon, <1>1, <1>3 DEF Lists
  <2>3. Range(tx_list') \cap (wait_list' \cup retransmit_list') = {}
    BY Zenon, <1>1, <1>2, <1>3 DEF Lists, Held, Sent, Queued
  <2>4. wait_list' \cap retransmit_list' = {}
    BY Zenon, <1>1, <1>2, <1>3 DEF Lists, Held, Sent
  <2> QED BY Zenon, <1>4, <2>1, <2>2, <2>3, <2>4, NextLists
<1>7. Numbers'
  BY Zenon, <1>1, <1>2, <1>3 DEF Numbers, Sent
<1>8. Counts' /\ InUse = {d \in Sdu : ref_count'[d] > 0}
  BY Zenon, <1>1, <1>4, <1>6
<1>9. Sums'
  <2>1. SummedSdus(InUse) /\ tx_size' = SizeOfSdus(InUse)
    BY Zenon, <1>1 DEF Sums
  <2>2. TotalPduSize((retransmit_list \ {s}) \cup R)
          = TotalPduSize(retransmit_list) - PduSize(s) + TotalPduSize(R)
    <3>1. /\ retransmit_list \in SUBSET Segs /\ Summed(retransmit_list)
          /\ R \cap (retransmit_list \ {s}) = {}
      BY Zenon, <1>3, HeldIs
    <3>2. s \in retransmit_list /\ Summed(R)
      BY Zenon, <1>2, <1>4
    <3> QED BY ZenonT(60), <3>1, <3>2, CutSum
  <2>3. StrictPeer => /\ bstatus_tx' = TotalPduSize(Range(tx_list'))
                      /\ bstatus_retx' = TotalPduSize(retransmit_list')
    BY ZenonT(60), <1>1, <2>2 DEF Sums, BufferStatusExact, Queued
  <2> QED BY Zenon, <1>8, <2>1, <2>3, NextSums
<1> QED BY Zenon, <1>6, <1>7, <1>8, <1>9

\* generate_tx_pdu
LEMMA TxStep ==
  ASSUME SenderInv, NEW size \in Nat, GenerateTxPdu(size), UNCHANGED submitted
  PROVE  SenderInv'
<1> DEFINE s == Head(tx_list)
           a == FirstPart(s, size)
           R == Rest(s, size)
           H == Recut(Held, s, size)
           sn == IF sdu_sn[s.sdu] = -1 THEN tx_next ELSE sdu_sn[s.sdu]
<1> USE DEF SenderInv
<1>1. /\ tx_list # <<>> /\ HeaderSize(s) + 1 <= size
      /\ tx_list' = AsList(R) \o Tail(tx_list)
      /\ wait_list' = wait_list \cup {a}
      /\ bstatus_tx' = bstatus_tx - PduSize(s) + TotalPduSize(R)
      /\ ref_count' = Referenced(s, R)
      /\ sdu_sn' = [sdu_sn EXCEPT ![s.sdu] = sn]
      /\ tx_next' = NextAfter(s)
      /\ retransmit_list' = retransmit_list /\ tx_size' = tx_size
      /\ bstatus_retx' = bstatus_retx /\ tx_next_ack' = tx_next_ack
      /\ free_count' = free_count
  BY ZenonT(60) DEF GenerateTxPdu, TxFits, TxLeft, TxPdu
<1>2. /\ s \in Queued /\ Tail(tx_list) \in Seq(Segs) /\ Once(Tail(tx_list))
      /\ Range(Tail(tx_list)) = Queued \ {s}
  BY ZenonT(60), <1>1, Tailed DEF Lists, Queued
<1>3. /\ s \in Held /\ s \notin Sent /\ s.sdu \in Sdu
      /\ Held \in SUBSET Segs /\ Apart(Held) /\ IsFiniteSet(Held)
  BY ZenonT(60), <1>2, HeldIs, SegmentIs DEF Lists
<1> HIDE DEF s
<1>4. /\ a \in Segs /\ R \subseteq Segs
      /\ a.sdu = s.sdu /\ \A r \in R : r.sdu = s.sdu
      /\ a \notin R /\ a \notin Held \ {s} /\ R \cap Held = {}
  BY SMTT(30), <1>1, <1>3, Resegment
<1>5. R = {} \/ \E r : R = {r}
  BY ZenonT(60), <1>1, <1>3, Cut
<1>6. /\ Apart(H) /\ IsFiniteSet(H) /\ Summed(H) /\ Summed(R)
      /\ /\ Held' = H /\ ref_count' = Referenced(s, R)
         /\ free_count' = free_count /\ submitted' = submitted
         => Counts' /\ InUse = {d \in Sdu : ref_count'[d] > 0}
  BY Zenon, <1>1, <1>3, CutKeeps
<1>7. H = ((Queued \ {s}) \cup R) \cup ((wait_list \cup {a}) \cup retransmit_list)
  BY Zenon, <1>3 DEF Recut, Held, Sent
<1> HIDE DEF a, R, H
<1>8. /\ tx_list' \in Seq(Segs) /\ Once(tx_list')
      /\ Range(tx_list') = (Queued \ {s}) \cup R
  <2>1. CASE R = {}
    <3>1. AsList(R) = <<>>
      BY Zenon, <2>1, Listed
    <3>2. <<>> \o Tail(tx_list) = Tail(tx_list)
      BY SMTT(30), <1>2
    <3> QED BY Zenon, <1>1, <1>2, <2>1, <3>1, <3>2
  <2>2. CASE R # {}
    <3>1. PICK r : R = {r}
      BY Zenon, <1>5, <2>2
    <3>2. AsList(R) = <<r>>
      BY Zenon, <3>1, Listed
    <3>3. /\ r \in Segs /\ r \notin Range(Tail(tx_list))
          /\ Tail(tx_list) \in Seq(Segs) /\ Once(Tail(tx_list))
      BY Zenon, <1>2, <1>4, <3>1, HeldIs
    <3>4. /\ Cons(r, Tail(tx_list)) \in Seq(Segs) /\ Once(Cons(r, Tail(tx_list)))
          /\ Range(Cons(r, Tail(tx_list))) = Range(Tail(tx_list)) \cup {r}
      BY ZenonT(60), <3>3, Prepended
    <3>5. tx_list' = Cons(r, Tail(tx_list))
      BY Zenon, <1>1, <3>2 DEF Cons
    <3> QED BY Zenon, <1>2, <3>1, <3>4, <3>5
  <2> QED BY Zenon, <2>1, <2>2
<1>9. Lists' /\ Held' = H
  <2>1. H = Range(tx_list') \cup (wait_list' \cup retransmit_list')
    BY Zenon, <1>1, <1>7, <1>8
  <2>2. wait_list' \subseteq Segs /\ retransmit_list' \subseteq Segs
    BY Zenon, <1>1, <1>4 DEF Lists
  <2>3. Range(tx_list') \cap (wait_list' \cup retransmit_list') = {}
    BY Zenon, <1>1, <1>3, <1>4, <1>8 DEF Lists, Held, Sent
  <2>4. wait_list' \cap retransmit_list' = {}
    BY Zenon, <1>1, <1>3, <1>4 DEF Lists, Held, Sent
  <2> QED BY Zenon, <1>6, <1>8, <2>1, <2>2, <2>3, <2>4, NextLists
<1>10. Numbers'
  <2>1. tx_next \in Sn /\ tx_next_ack \in Sn /\ sdu_sn \in [Sdu -> Sn \cup {-1}]
    BY Zenon DEF Numbers
  <2>2. sn \in Sn
    BY SMTT(30), <1>3, <2>1
  <2>3. tx_next' \in Sn
    <3>1. SnAdd(tx_next, 1) \in Sn
      BY SMTT(30), <2>1, SnAddType, Window
    <3> QED BY Zenon, <1>1, <2>1, <3>1 DEF NextAfter
  <2>4. sdu_sn' \in [Sdu -> Sn \cup {-1}]
    BY ZenonT(60), <1>1, <2>1, <2>2
  <2> HIDE DEF sn
  <2>5. /\ sdu_sn'[s.sdu] = sn
        /\ \A d \in Sdu : d # s.sdu => sdu_sn'[d] = sdu_sn[d]
    BY SMTT(30), <1>1, <1>3, <2>1
  <2>6. ASSUME NEW t \in Sent' PROVE sdu_sn'[t.sdu] \in Sn
    <3>1. CASE t.sdu = s.sdu
      BY Zenon, <2>2, <2>5, <3>1
    <3>2. CASE t.sdu # s.sdu
      <4>1. t \in Sent /\ t.sdu \in Sdu
        BY Zenon, <1>1, <1>4, <3>2, HeldIs, SegmentIs DEF Sent
      <4> QED BY Zenon, <2>5, <3>2, <4>1 DEF Numbers
    <3> QED BY Zenon, <3>1, <3>2
  <2> QED BY Zenon, <1>1, <2>1, <2>3, <2>4, <2>6 DEF Numbers
<1>11. Counts' /\ InUse = {d \in Sdu : ref_count'[d] > 0}
  BY ZenonT(60), <1>1, <1>6, <1>9
<1>12. Sums'
  <2>1. SummedSdus(InUse) /\ tx_size' = SizeOfSdus(InUse)
    BY Zenon, <1>1 DEF Sums
  <2>2. TotalPduSize((Queued \ {s}) \cup R)
          = TotalPduSize(Queued) - PduSize(s) + TotalPduSize(R)
    <3>1. /\ Queued \in SUBSET Segs /\ Summed(Queued)
          /\ R \cap (Queued \ {s}) = {}
      BY Zenon, <1>4, HeldIs
    <3>2. s \in Queued /\ Summed(R)
      BY Zenon, <1>2, <1>6
    <3> QED BY ZenonT(60), <3>1, <3>2, CutSum
  <2>3. StrictPeer => /\ bstatus_tx' = TotalPduSize(Range(tx_list'))
                      /\ bstatus_retx' = TotalPduSize(retransmit_list')
    BY Zenon, <1>1, <1>8, <2>2 DEF Sums, BufferStatusExact
  <2> QED BY Zenon, <1>11, <2>1, <2>3, NextSums
<1> QED BY Zenon, <1>9, <1>10, <1>11, <1>12

\* nr_rlc_entity_am_generate_pdu
LEMMA GenerateStep ==
  ASSUME SenderInv, Generate
  PROVE  SenderInv'
<1>1. PICK size \in Grants : GenerateRetxPdu(size) \/ GenerateTxPdu(size)
  BY Zenon DEF Generate
<1>2. size \in Nat /\ UNCHANGED submitted
  BY Zenon, SenderAssumption DEF Generate
<1> QED BY Zenon, <1>1, <1>2, RetxStep, TxStep

\* nr_rlc_entity_am_discard_sdu: the SDU is held whole, so none of it is freed.
LEMMA DiscardStep ==
  ASSUME SenderInv, Discard
  PROVE  SenderInv'
<1> USE DEF SenderInv
<1>1. PICK d \in Sdu : DiscardSdu(d) /\ UNCHANGED submitted
  BY Zenon DEF Discard
<1> DEFINE s == Segment(d, 0, SduSize[d])
           H == Held \ {s}
<1>2. PICK k \in DOMAIN tx_list : tx_list[k] = s /\ tx_list' = Without(tx_list, k)
  BY Zenon, <1>1 DEF DiscardSdu
<1>3. /\ tx_size' = tx_size - SduSize[d] /\ bstatus_tx' = bstatus_tx - PduSize(s)
      /\ ref_count' = [ref_count EXCEPT ![d] = 0]
      /\ wait_list' = wait_list /\ retransmit_list' = retransmit_list
      /\ bstatus_retx' = bstatus_retx /\ tx_next' = tx_next /\ tx_next_ack' = tx_next_ack
      /\ sdu_sn' = sdu_sn /\ free_count' = free_count
  BY Zenon, <1>1 DEF DiscardSdu
<1>4. s.sdu = d /\ s.so = 0 /\ s.size = SduSize[d] /\ SduSize[d] \in Nat \ {0}
  BY SMTT(30), SduSizeAssumption DEF Segment
<1> HIDE DEF s
<1>5. /\ tx_list' \in Seq(Segs) /\ Once(tx_list')
      /\ Range(tx_list') = Queued \ {s} /\ s \in Queued
  BY SMTT(30), <1>2, Removed DEF Lists, Queued
<1>6. s \in Held /\ s \notin Sent
  BY Zenon, <1>5 DEF Lists, Held
<1>7. OfSdu(Held, d) = {s}
  <2>1. ASSUME NEW t \in Held, t.sdu = d, t # s PROVE FALSE
    <3>1. t.so + t.size <= s.so \/ s.so + s.size <= t.so
      BY Zenon, <1>4, <1>6, <2>1 DEF Lists, Apart
    <3>2. t.so \in Nat /\ t.size \in Nat \ {0} /\ t.so + t.size <= SduSize[d]
      BY Zenon, <2>1, HeldIs, SegmentIs
    <3> QED BY SMTT(30), <1>4, <3>1, <3>2
  <2> QED BY Zenon, <1>4, <1>6, <2>1 DEF OfSdu
<1>8. /\ ref_count \in [Sdu -> Nat] /\ free_count \in [Sdu -> Nat]
      /\ free_count[d] = 0 /\ ref_count[d] > 0
  <2>1. ~Hole(Held, d)
    <3>1. \A b \in 0 .. (SduSize[d] - 1) : Covers(s, b)
      BY <1>4 DEF Covers
    <3> QED BY Zenon, <1>4, <1>6, <3>1 DEF Hole
  <2>2. /\ ref_count \in [Sdu -> Nat] /\ free_count \in [Sdu -> Nat]
        /\ ~(free_count[d] > 0)
        /\ Cardinality(OfSdu(Held, d)) <= ref_count[d] - free_count[d]
    BY Zenon, <2>1 DEF Counts
  <2>3. Cardinality(OfSdu(Held, d)) = 1
    BY Zenon, <1>7, FS_Singleton
  <2> QED BY <2>2, <2>3
<1>9. Lists' /\ Held' = H
  <2>1. H = Range(tx_list') \cup (wait_list' \cup retransmit_list')
    BY Zenon, <1>3, <1>5, <1>6 DEF Held, Sent
  <2>2. H \in SUBSET Held
    BY Zenon
  <2>3. Apart(H)
    BY Zenon DEF Apart, Lists
  <2>4. IsFiniteSet(H) /\ Summed(H)
    BY Zenon, <2>2, HeldIs
  <2>5. /\ Range(tx_list') \cap (wait_list' \cup retransmit_list') = {}
        /\ wait_list' \subseteq Segs /\ retransmit_list' \subseteq Segs
        /\ wait_list' \cap retransmit_list' = {}
    BY Zenon, <1>3, <1>5 DEF Lists, Sent
  <2> HIDE DEF H
  <2> QED BY Zenon, <1>5, <2>1, <2>3, <2>4, <2>5, NextLists
<1>10. Numbers'
  BY Zenon, <1>3 DEF Numbers, Sent
<1>11. Counts'
  <2>1. OfSdu(H, d) = {} /\ \A e : e # d => OfSdu(H, e) = OfSdu(Held, e)
    BY <1>4, <1>7 DEF OfSdu
  <2>2. \A e : Hole(Held, e) => Hole(H, e)
    BY Zenon DEF Hole
  <2>3. Cardinality(OfSdu(H, d)) = 0
    BY Zenon, <2>1, FS_EmptySet
  <2>4. /\ ref_count' \in [Sdu -> Nat] /\ ref_count'[d] = 0
        /\ \A e \in Sdu : e # d => ref_count'[e] = ref_count[e]
    BY SMTT(30), <1>3, <1>8
  <2>5. 0 <= 0 - 0 /\ 0 = 0 - 0 /\ ~(0 > 0)
    OBVIOUS
  <2> HIDE DEF H
  <2>6. ASSUME NEW e \in Sdu
        PROVE  /\ Cardinality(OfSdu(H, e)) <= ref_count'[e] - free_count'[e]
               /\ StrictPeer => Cardinality(OfSdu(H, e)) = ref_count'[e] - free_count'[e]
               /\ e >= submitted' => ref_count'[e] = 0
               /\ free_count'[e] > 0 => Hole(H, e)
    <3>1. CASE e = d
      BY Zenon, <1>3, <1>8, <2>3, <2>4, <2>5, <3>1
    <3>2. CASE e # d
      BY Zenon, <1>1, <1>3, <2>1, <2>2, <2>4, <3>2 DEF Counts
    <3> QED BY Zenon, <3>1, <3>2
  <2>7. submitted' \in Nat
    BY Zenon, <1>1 DEF Counts
  <2> QED BY Zenon, <1>3, <1>8, <1>9, <2>4, <2>6, <2>7, NextCounts
<1>12. Sums'
  <2> DEFINE D == InUse \ {d}
  <2>1. D = {e \in Sdu : ref_count'[e] > 0}
    BY SMTT(30), <1>3, <1>8 DEF InUse
  <2>2. d \in InUse /\ {d} \in SUBSET InUse
    BY Zenon, <1>8 DEF InUse
  <2>3. SizeOfSdus({d}) = SduSize[d]
    <3>1. /\ d \in Sdu \ {} /\ SummedSdus({}) /\ SizeOfSdus({}) = 0
          /\ {} \cup {d} = {d}
      BY Zenon, SduAdd
    <3>2. SizeOfSdus({} \cup {d}) = SizeOfSdus({}) + SduSize[d]
      BY Zenon, <3>1, SduAdd
    <3>3. SizeOfSdus({d}) = 0 + SduSize[d]
      BY Zenon, <3>1, <3>2
    <3> QED BY SMTT(30), <1>4, <3>3
  <2>4. /\ SummedSdus(D) /\ SizeOfSdus(InUse) = SizeOfSdus({d}) + SizeOfSdus(D)
        /\ SizeOfSdus(D) \in Nat
    BY SMTT(30), <2>2, SduSplit DEF Sums
  <2>5. tx_size = SizeOfSdus(InUse)
    BY Zenon DEF Sums
  <2> HIDE DEF D
  <2>6. tx_size' = SizeOfSdus(D)
    BY SMTT(30), <1>3, <1>4, <2>3, <2>4, <2>5
  <2>7. TotalPduSize(Range(tx_list')) = TotalPduSize(Queued) - PduSize(s)
    <3>1. /\ Queued \in SUBSET Held /\ Summed(Queued) /\ {s} \in SUBSET Queued
          /\ PduSize(s) \in Nat
      BY Zenon, <1>5, <1>6, HeldIs, SegmentIs
    <3>2. TotalPduSize({s}) = PduSize(s)
      BY Zenon, <3>1, PduFew
    <3>3. /\ TotalPduSize(Queued) = TotalPduSize({s}) + TotalPduSize(Queued \ {s})
          /\ TotalPduSize(Queued \ {s}) \in Nat
      BY ZenonT(60), <3>1, PduSplit
    <3> QED BY SMTT(30), <1>5, <3>1, <3>2, <3>3
  <2>8. StrictPeer => /\ bstatus_tx' = TotalPduSize(Range(tx_list'))
                      /\ bstatus_retx' = TotalPduSize(retransmit_list')
    BY Zenon, <1>3, <2>7 DEF Sums, BufferStatusExact
  <2> QED BY ZenonT(60), <2>1, <2>4, <2>6, <2>8, NextSums
<1> QED BY Zenon, <1>9, <1>10, <1>11, <1>12

Off(sn) == Modulus(tx_next_ack, sn)

\* The new tx_next_ack is one of the SNs it is the least of.
LEMMA NextAckIs ==
  ASSUME Numbers, NEW W, NEW X, NEW ack \in Sn, \A s \in W \cup X : sdu_sn[s.sdu] \in Sn
  PROVE  NextAck(W, X, ack) \in Sn
<1> DEFINE sns == {tx_next, ack} \cup {sdu_sn[s.sdu] : s \in W \cup X}
           P(sn) == \A other \in sns : SnCompare(tx_next_ack, sn, other) <= 0
           D == {Off(sn) : sn \in sns}
<1>1. sns \subseteq Sn /\ tx_next \in sns
  BY Zenon DEF Numbers
<1>2. NextAck(W, X, ack) = CHOOSE sn \in sns : P(sn)
  BY Zenon DEF NextAck
<1> HIDE DEF sns
<1>3. \A sn \in sns : Off(sn) \in Nat
  <2>1. \A sn \in sns : Off(sn) \in Sn
    BY Zenon, <1>1, ModulusType DEF Off, Numbers
  <2> QED BY <2>1, Window DEF Sn
<1>4. D \in SUBSET Nat /\ D # {}
  BY <1>1, <1>3
<1>5. PICK k \in D : \A j \in D : k <= j
  BY Zenon, <1>4, LeastNat
<1>6. PICK sn \in sns : Off(sn) = k
  BY Zenon, <1>5
<1>7. \A other \in sns : Off(sn) <= Off(other)
  BY Zenon, <1>5, <1>6
<1>8. \A x, y \in sns : SnCompare(tx_next_ack, x, y) <= 0 <=> Off(x) <= Off(y)
  <2>1. \A x, y \in sns : SnCompare(tx_next_ack, x, y) = Off(x) - Off(y)
    BY Zenon DEF SnCompare, Off
  <2> QED BY <1>3, <2>1
<1>9. P(sn)
  BY Zenon, <1>7, <1>8
<1>10. NextAck(W, X, ack) \in sns
  BY Zenon, <1>2, <1>9
<1> QED BY Zenon, <1>1, <1>10

\* The segments of SDU d that are left when those of A are freed and those of L
\* are lost
LEMMA LeftIs ==
  ASSUME Lists, NEW A \in SUBSET Held, NEW L \in SUBSET Held, NEW d
  PROVE  /\ Cardinality(OfSdu(A, d)) \in Nat
         /\ Cardinality(OfSdu(Held, d)) \in Nat
         /\ Cardinality(OfSdu(Held \ (A \cup L), d)) \in Nat
         /\ Cardinality(OfSdu(Held \ (A \cup L), d))
              <= Cardinality(OfSdu(Held, d)) - Cardinality(OfSdu(A, d))
         /\ L = {} => Cardinality(OfSdu(Held \ (A \cup L), d))
                        = Cardinality(OfSdu(Held, d)) - Cardinality(OfSdu(A, d))
         /\ OfSdu(A, d) # {} => Cardinality(OfSdu(A, d)) # 0
         /\ OfSdu(A, d) = {} => Cardinality(OfSdu(A, d)) = 0
<1> DEFINE O == OfSdu(Held, d)
           F == OfSdu(A, d)
           N == OfSdu(Held \ (A \cup L), d)
<1>1. F \in SUBSET O /\ N \in SUBSET (O \ F) /\ (L = {} => N = O \ F)
  BY DEF OfSdu
<1>2. /\ IsFiniteSet(O) /\ Cardinality(O) \in Nat
      /\ IsFiniteSet(F) /\ Cardinality(F) \in Nat
  BY Zenon, HeldIs
<1> HIDE DEF O, F, N
<1>3. O \cap F = F
  BY Zenon, <1>1
<1>4. IsFiniteSet(O \ F) /\ Cardinality(O \ F) = Cardinality(O) - Cardinality(O \cap F)
  BY Zenon, <1>2, FS_Difference
<1>5. IsFiniteSet(N) /\ Cardinality(N) \in Nat /\ Cardinality(N) <= Cardinality(O \ F)
  BY Zenon, <1>1, <1>4, FS_Subset, FS_CardinalityType
<1>6. F = {} <=> Cardinality(F) = 0
  BY Zenon, <1>2, FS_EmptySet
<1>7. /\ Cardinality(N) <= Cardinality(O) - Cardinality(F)
      /\ L = {} => Cardinality(N) = Cardinality(O) - Cardinality(F)
  BY Zenon, <1>1, <1>3, <1>4, <1>5
<1> QED BY Zenon, <1>2, <1>5, <1>6, <1>7 DEF O, F, N

\* A segment that is freed leaves a hole.
LEMMA FreedHole ==
  ASSUME Lists, NEW A \in SUBSET Held, NEW L, NEW d \in Sdu,
         OfSdu(A, d) # {} \/ Hole(Held, d)
  PROVE  Hole(Held \ (A \cup L), d)
<1> DEFINE H == Held \ (A \cup L)
<1>1. CASE Hole(Held, d)
  BY Zenon, <1>1 DEF Hole
<1>2. CASE OfSdu(A, d) # {}
  <2>1. PICK s \in A : s.sdu = d
    BY ZenonT(60), <1>2 DEF OfSdu
  <2>2. /\ s \in Held /\ s.so \in Nat /\ s.size \in Nat \ {0} /\ s.so + s.size <= SduSize[d]
        /\ SduSize[d] \in Nat
    BY SMTT(30), <2>1, HeldIs, SegmentIs, SduSizeAssumption
  <2>3. ASSUME NEW t \in H, t.sdu = d PROVE ~Covers(t, s.so)
    <3>1. t \in Held /\ t # s /\ t.so \in Nat /\ t.size \in Nat
      BY SMTT(30), <2>1, HeldIs, SegmentIs
    <3>2. t.so + t.size <= s.so \/ s.so + s.size <= t.so
      BY Zenon, <2>1, <2>2, <2>3, <3>1 DEF Lists, Apart
    <3> QED BY SMTT(30), <2>2, <3>1, <3>2 DEF Covers
  <2>4. s.so \in 0 .. (SduSize[d] - 1)
    BY <2>2
  <2> QED BY Zenon, <2>3, <2>4 DEF Hole
<1> QED BY Zenon, <1>1, <1>2

\* nr_rlc_free_sdu_segment: the counts stay right, and an SDU is over when the
\* last of its segments is freed.
LEMMA FreeKeeps ==
  ASSUME SenderInv, NEW A \in SUBSET Held, NEW L \in SUBSET Held, StrictPeer => L = {},
         FreeSegments(A), UNCHANGED submitted, Held' = Held \ (A \cup L)
  PROVE  /\ Counts'
         /\ LET D == {d \in Sdu : ref_count'[d] > 0}
            IN  SummedSdus(D) /\ tx_size' = SizeOfSdus(D)
         /\ sdu_sn' \in [Sdu -> Sn \cup {-1}]
         /\ \A s \in Held' : sdu_sn'[s.sdu] = sdu_sn[s.sdu]
<1> USE DEF SenderInv
<1> DEFINE H == Held \ (A \cup L)
           k(d) == Cardinality(OfSdu(A, d))
           over == {d \in Sdu : OfSdu(A, d) # {} /\ free_count[d] + k(d) = ref_count[d]}
<1>1. /\ free_count' = [d \in Sdu |-> IF d \in over THEN 0 ELSE free_count[d] + k(d)]
      /\ ref_count' = [d \in Sdu |-> IF d \in over THEN 0 ELSE ref_count[d]]
      /\ sdu_sn' = [d \in Sdu |-> IF d \in over THEN -1 ELSE sdu_sn[d]]
      /\ tx_size' = tx_size - SizeOfSdus(over)
  BY Zenon DEF FreeSegments, SizeOfSdus
<1>2. \A d \in Sdu :
        /\ k(d) \in Nat /\ Cardinality(OfSdu(Held, d)) \in Nat /\ Cardinality(OfSdu(H, d)) \in Nat
        /\ Cardinality(OfSdu(H, d)) <= Cardinality(OfSdu(Held, d)) - k(d)
        /\ L = {} => Cardinality(OfSdu(H, d)) = Cardinality(OfSdu(Held, d)) - k(d)
        /\ OfSdu(A, d) # {} => k(d) # 0
        /\ OfSdu(A, d) = {} => k(d) = 0
  BY Zenon, LeftIs
<1>3. /\ ref_count \in [Sdu -> Nat] /\ free_count \in [Sdu -> Nat] /\ submitted \in Nat
      /\ \A d \in Sdu :
           /\ Cardinality(OfSdu(Held, d)) <= ref_count[d] - free_count[d]
           /\ StrictPeer => Cardinality(OfSdu(Held, d)) = ref_count[d] - free_count[d]
           /\ d >= submitted => ref_count[d] = 0
           /\ free_count[d] > 0 => Hole(Held, d)
  BY Zenon DEF Counts
<1>4. over \subseteq Sdu /\ \A d \in over : OfSdu(A, d) # {} /\ free_count[d] + k(d) = ref_count[d]
  BY Zenon
<1>5. \A d \in Sdu : OfSdu(A, d) # {} \/ Hole(Held, d) => Hole(H, d)
  BY Zenon, FreedHole
<1> HIDE DEF k, over
<1>6. ref_count' \in [Sdu -> Nat] /\ free_count' \in [Sdu -> Nat]
  BY SMTT(30), <1>1, <1>2, <1>3
<1>7. \A d \in over : Cardinality(OfSdu(H, d)) = 0
  <2> SUFFICES ASSUME NEW d \in over PROVE Cardinality(OfSdu(H, d)) = 0
    BY Zenon
  <2>1. /\ d \in Sdu /\ free_count[d] + k(d) = ref_count[d]
        /\ Cardinality(OfSdu(Held, d)) <= ref_count[d] - free_count[d]
        /\ Cardinality(OfSdu(H, d)) <= Cardinality(OfSdu(Held, d)) - k(d)
        /\ k(d) \in Nat /\ Cardinality(OfSdu(Held, d)) \in Nat /\ Cardinality(OfSdu(H, d)) \in Nat
        /\ ref_count[d] \in Nat /\ free_count[d] \in Nat
    BY Zenon, <1>2, <1>3, <1>4
  <2> HIDE DEF H
  <2> QED BY <2>1
<1>8. ASSUME NEW d \in Sdu
      PROVE  /\ Cardinality(OfSdu(H, d)) <= ref_count'[d] - free_count'[d]
             /\ StrictPeer => Cardinality(OfSdu(H, d)) = ref_count'[d] - free_count'[d]
             /\ d >= submitted' => ref_count'[d] = 0
             /\ free_count'[d] > 0 => Hole(H, d)
  <2>1. CASE d \in over
    <3>1. ref_count'[d] = 0 /\ free_count'[d] = 0
      BY Zenon, <1>1, <2>1
    <3>2. Cardinality(OfSdu(H, d)) = 0
      BY Zenon, <1>7, <2>1
    <3>3. 0 <= 0 - 0 /\ 0 = 0 - 0 /\ ~(0 > 0)
      OBVIOUS
    <3> QED BY Zenon, <3>1, <3>2, <3>3
  <2>2. CASE d \notin over
    <3>1. ref_count'[d] = ref_count[d] /\ free_count'[d] = free_count[d] + k(d)
      BY Zenon, <1>1, <2>2
    <3>2. /\ Cardinality(OfSdu(Held, d)) <= ref_count[d] - free_count[d]
          /\ StrictPeer => Cardinality(OfSdu(Held, d)) = ref_count[d] - free_count[d]
          /\ Cardinality(OfSdu(H, d)) <= Cardinality(OfSdu(Held, d)) - k(d)
          /\ StrictPeer => Cardinality(OfSdu(H, d)) = Cardinality(OfSdu(Held, d)) - k(d)
          /\ k(d) \in Nat /\ Cardinality(OfSdu(Held, d)) \in Nat /\ Cardinality(OfSdu(H, d)) \in Nat
          /\ ref_count[d] \in Nat /\ free_count[d] \in Nat
      BY ZenonT(60), <1>2, <1>3
    <3> HIDE DEF H
    <3>3. /\ Cardinality(OfSdu(H, d)) <= ref_count'[d] - free_count'[d]
          /\ StrictPeer => Cardinality(OfSdu(H, d)) = ref_count'[d] - free_count'[d]
      BY <3>1, <3>2
    <3>4. d >= submitted' => ref_count'[d] = 0
      BY Zenon, <1>3, <3>1
    <3>5. ASSUME free_count'[d] > 0 PROVE Hole(H, d)
      <4>1. free_count[d] > 0 \/ k(d) # 0
        BY SMTT(30), <3>1, <3>2, <3>5
      <4> QED BY ZenonT(60), <1>2, <1>3, <1>5, <4>1
    <3> QED BY Zenon, <3>3, <3>4, <3>5
  <2> QED BY Zenon, <2>1, <2>2
<1>9. Counts'
  <2> HIDE DEF H
  <2>1. Held' = H
    BY Zenon DEF H
  <2>2. submitted' \in Nat
    BY Zenon, <1>3
  <2> QED BY Zenon, <1>6, <1>8, <2>1, <2>2, NextCounts
<1>10. {d \in Sdu : ref_count'[d] > 0} = InUse \ over
  <2>1. \A d \in Sdu : ref_count'[d] > 0 <=> ref_count[d] > 0 /\ d \notin over
    BY SMTT(30), <1>1, <1>3
  <2> QED BY Zenon, <2>1 DEF InUse
<1>11. over \in SUBSET InUse
  <2>1. \A d \in over : ref_count[d] > 0
    BY SMTT(30), <1>2, <1>3, <1>4
  <2> QED BY ZenonT(60), <1>4, <2>1 DEF InUse
<1>12. SummedSdus(InUse \ over) /\ tx_size' = SizeOfSdus(InUse \ over)
  <2>1. SummedSdus(InUse) /\ tx_size = SizeOfSdus(InUse)
    BY Zenon DEF Sums
  <2>2. /\ SummedSdus(InUse \ over)
        /\ SizeOfSdus(InUse) = SizeOfSdus(over) + SizeOfSdus(InUse \ over)
        /\ SizeOfSdus(over) \in Nat /\ SizeOfSdus(InUse \ over) \in Nat
    BY SMTT(30), <1>11, <2>1, SduSplit
  <2>3. tx_size' = SizeOfSdus(InUse \ over)
    BY SMTT(30), <1>1, <2>1, <2>2
  <2> QED BY Zenon, <2>2, <2>3
<1>13. sdu_sn' \in [Sdu -> Sn \cup {-1}]
  BY <1>1 DEF Numbers
<1>14. ASSUME NEW s \in Held' PROVE sdu_sn'[s.sdu] = sdu_sn[s.sdu]
  <2>1. s \in H /\ s.sdu \in Sdu
    BY Zenon, HeldIs, SegmentIs
  <2>2. s \in OfSdu(H, s.sdu)
    BY Zenon, <2>1 DEF OfSdu
  <2>3. OfSdu(H, s.sdu) \in SUBSET Held /\ IsFiniteSet(OfSdu(H, s.sdu))
    BY Zenon, HeldIs
  <2>4. Cardinality(OfSdu(H, s.sdu)) # 0
    BY Zenon, <2>2, <2>3, FS_EmptySet
  <2> QED BY Zenon, <1>1, <1>7, <2>1, <2>4
<1> QED BY Zenon, <1>9, <1>10, <1>12, <1>13, <1>14

\* What changes none of the entity's variables
LEMMA Unchanged ==
  ASSUME SenderInv, UNCHANGED <<tx_vars, submitted>>
  PROVE  SenderInv'
<1>1. /\ UNCHANGED <<tx_list, wait_list, retransmit_list, tx_size, bstatus_tx, bstatus_retx>>
      /\ UNCHANGED <<tx_next, tx_next_ack, sdu_sn, ref_count, free_count, submitted>>
  BY Zenon DEF tx_vars, tx_lists, tx_sdus
<1>2. Held' = Held /\ InUse' = InUse
  BY Zenon, <1>1 DEF Held, Queued, Sent, InUse
<1>3. Lists' /\ Numbers'
  BY Zenon, <1>1, <1>2 DEF SenderInv, Lists, Numbers, Queued, Sent
<1>4. Counts'
  BY Zenon, <1>1, <1>2 DEF SenderInv, Counts
<1>5. Sums'
  BY Zenon, <1>1, <1>2 DEF SenderInv, Sums, BufferStatusExact, Queued
<1> QED BY Zenon, <1>3, <1>4, <1>5 DEF SenderInv

\* process_control_pdu
LEMMA StatusStep ==
  ASSUME SenderInv, ReceiveStatus
  PROVE  SenderInv'
<1> USE DEF SenderInv
<1>1. PICK st \in Statuses : (StrictPeer => WellFormed(st)) /\ ProcessControlPdu(st)
  BY Zenon DEF ReceiveStatus
<1>2. submitted' = submitted
  BY Zenon DEF ReceiveStatus
<1>3. CASE ~ControlPduValid(st)
  <2>1. UNCHANGED tx_vars
    BY Zenon, <1>1, <1>3 DEF ProcessControlPdu
  <2> QED BY Zenon, <1>2, <2>1, Unchanged
<1>4. CASE ControlPduValid(st)
  <2> DEFINE A == Outcome(st).acked
             N == Outcome(st).nacked
             L == Outcome(st).lost
             again == N \cap wait_list
             W == wait_list \ (again \cup A)
             X == (retransmit_list \ (A \cup L)) \cup again
             H == Held \ (A \cup L)
  <2>1. /\ wait_list' = W /\ retransmit_list' = X
        /\ bstatus_retx' = bstatus_retx + TotalPduSize(again)
                           - TotalPduSize(A \cap retransmit_list)
        /\ FreeSegments(A)
        /\ tx_next_ack' = NextAck(W, X, st.ack_sn)
        /\ tx_list' = tx_list /\ bstatus_tx' = bstatus_tx /\ tx_next' = tx_next
    <3>1. PICK out \in {Outcome(st)} :
            LET hit == out.nacked \cap wait_list
                wait == wait_list \ (hit \cup out.acked)
                retransmit == (retransmit_list \ (out.acked \cup out.lost)) \cup hit
            IN  /\ wait_list' = wait /\ retransmit_list' = retransmit
                /\ bstatus_retx' = bstatus_retx + TotalPduSize(hit)
                                   - TotalPduSize(out.acked \cap retransmit_list)
                /\ FreeSegments(out.acked)
                /\ tx_next_ack' = NextAck(wait, retransmit, st.ack_sn)
                /\ tx_list' = tx_list /\ bstatus_tx' = bstatus_tx /\ tx_next' = tx_next
      BY Zenon, <1>1, <1>4 DEF ProcessControlPdu
    <3>2. out = Outcome(st)
      BY Zenon, <3>1
    <3> QED BY Zenon, <3>1, <3>2
  <2>2. /\ N \subseteq Sent /\ A \subseteq Sent /\ N \cap A = {} /\ L \subseteq retransmit_list
        /\ StrictPeer => L = {}
    BY Zenon, <1>1, <1>4, OutcomeIs
  <2> HIDE DEF A, N, L
  <2>3. /\ A \in SUBSET Held /\ L \in SUBSET Held /\ H \in SUBSET Held
        /\ again \subseteq wait_list /\ A \cap again = {}
        /\ wait_list \cap retransmit_list = {} /\ Queued \cap Sent = {}
        /\ wait_list \subseteq Segs /\ retransmit_list \subseteq Segs
    BY Zenon, <2>2, HeldIs DEF Lists
  <2>4. W \cup X = Sent \ (A \cup L)
    <3>1. ASSUME NEW s \in W \cup X PROVE s \in Sent \ (A \cup L)
      BY Zenon, <2>2, <2>3 DEF Sent
    <3>2. ASSUME NEW s \in Sent \ (A \cup L) PROVE s \in W \cup X
      BY Zenon DEF Sent
    <3> QED BY Zenon, <3>1, <3>2
  <2>5. Lists' /\ Held' = H
    <3>1. H = Range(tx_list') \cup (wait_list' \cup retransmit_list')
      <4>1. Range(tx_list') = Queued /\ wait_list' \cup retransmit_list' = Sent \ (A \cup L)
        BY ZenonT(60), <2>1, <2>4 DEF Queued
      <4>2. H = Queued \cup (Sent \ (A \cup L))
        BY ZenonT(60), <2>2, <2>3 DEF Held, Sent
      <4> QED BY Zenon, <4>1, <4>2
    <3>2. Apart(H) /\ IsFiniteSet(H) /\ Summed(H)
      <4>1. Apart(H)
        BY Zenon DEF Apart, Lists
      <4> QED BY ZenonT(60), <2>3, <4>1, HeldIs
    <3>3. tx_list' \in Seq(Segs) /\ Once(tx_list')
      BY Zenon, <2>1 DEF Lists
    <3>4. /\ wait_list' \subseteq Segs /\ retransmit_list' \subseteq Segs
          /\ wait_list' \cap retransmit_list' = {}
      BY ZenonT(60), <2>1, <2>3
    <3>5. Range(tx_list') \cap (wait_list' \cup retransmit_list') = {}
      BY ZenonT(60), <2>1, <2>3, <2>4 DEF Queued
    <3> HIDE DEF H
    <3> QED BY ZenonT(60), <3>1, <3>2, <3>3, <3>4, <3>5, NextLists
  <2>6. /\ Counts'
        /\ LET D == {d \in Sdu : ref_count'[d] > 0}
           IN  SummedSdus(D) /\ tx_size' = SizeOfSdus(D)
        /\ sdu_sn' \in [Sdu -> Sn \cup {-1}]
        /\ \A s \in Held' : sdu_sn'[s.sdu] = sdu_sn[s.sdu]
    BY ZenonT(60), <1>2, <2>1, <2>2, <2>3, <2>5, FreeKeeps
  <2>7. \A s \in Sent' : /\ s \in W \cup X /\ sdu_sn[s.sdu] \in Sn
                         /\ sdu_sn'[s.sdu] = sdu_sn[s.sdu]
    <3>1. Sent' = W \cup X /\ Sent' \subseteq Held'
      BY Zenon, <2>1 DEF Sent, Held
    <3> QED BY Zenon, <2>4, <2>6, <3>1 DEF Numbers
  <2>8. tx_next_ack' \in Sn
    <3>1. \A s \in W \cup X : sdu_sn[s.sdu] \in Sn
      BY Zenon, <2>4 DEF Numbers
    <3>2. st.ack_sn \in Sn
      BY Zenon, StatusIs
    <3> HIDE DEF W, X
    <3> QED BY Zenon, <2>1, <3>1, <3>2, NextAckIs
  <2>9. Numbers'
    BY Zenon, <2>1, <2>6, <2>7, <2>8 DEF Numbers
  <2>10. Sums'
    <3>1. ASSUME StrictPeer
          PROVE  TotalPduSize(X) = TotalPduSize(retransmit_list) + TotalPduSize(again)
                                   - TotalPduSize(A \cap retransmit_list)
      <4> DEFINE B == A \cap retransmit_list
                 K == retransmit_list \ B
      <4>1. X = K \cup again /\ K \cap again = {} /\ B \in SUBSET retransmit_list
        <5>1. L = {}
          BY Zenon, <2>2, <3>1
        <5>2. retransmit_list \ (A \cup L) = K
          BY Zenon, <5>1
        <5> QED BY Zenon, <2>3, <5>2
      <4>2. Summed(retransmit_list) /\ Summed(again) /\ again \in SUBSET Held
        BY Zenon, <2>3, HeldIs
      <4> HIDE DEF B, K, X, again
      <4>3. /\ Summed(K) /\ TotalPduSize(retransmit_list) = TotalPduSize(B) + TotalPduSize(K)
            /\ TotalPduSize(B) \in Nat /\ TotalPduSize(K) \in Nat
        BY SMTT(30), <4>1, <4>2, PduSplit DEF K
      <4>4. /\ TotalPduSize(K \cup again) = TotalPduSize(K) + TotalPduSize(again)
            /\ TotalPduSize(again) \in Nat
        BY ZenonT(60), <4>1, <4>2, <4>3, PduJoin
      <4>5. TotalPduSize(X) = TotalPduSize(retransmit_list) + TotalPduSize(again)
                              - TotalPduSize(B)
        BY <4>1, <4>3, <4>4
      <4> QED BY Zenon, <4>5 DEF B
    <3>2. StrictPeer => /\ bstatus_tx' = TotalPduSize(Range(tx_list'))
                        /\ bstatus_retx' = TotalPduSize(retransmit_list')
      BY Zenon, <2>1, <3>1 DEF Sums, BufferStatusExact, Queued
    <3> QED BY Zenon, <2>6, <3>2, NextSums
  <2> QED BY Zenon, <2>5, <2>6, <2>9, <2>10
<1> QED BY Zenon, <1>3, <1>4

\* check_t_poll_retransmit
LEMMA ExpireStep ==
  ASSUME SenderInv, Expire
  PROVE  SenderInv'
<1> USE DEF SenderInv
<1> DEFINE again == OfSdu(wait_list, FirstOf(wait_list).sdu)
<1>1. /\ tx_list' = tx_list /\ tx_size' = tx_size /\ bstatus_tx' = bstatus_tx
      /\ tx_next' = tx_next /\ tx_next_ack' = tx_next_ack /\ sdu_sn' = sdu_sn
      /\ ref_count' = ref_count /\ free_count' = free_count /\ submitted' = submitted
  BY Zenon DEF Expire, TPollRetransmitExpires
<1>2. \/ /\ wait_list' = wait_list /\ retransmit_list' = retransmit_list
         /\ bstatus_retx' = bstatus_retx
      \/ /\ wait_list' = wait_list \ again /\ retransmit_list' = retransmit_list \cup again
         /\ bstatus_retx' = bstatus_retx + TotalPduSize(again)
  BY Zenon DEF Expire, TPollRetransmitExpires
<1>3. again \subseteq wait_list
  BY Zenon DEF OfSdu
<1> HIDE DEF again
<1>4. Sent' = Sent
  BY Zenon, <1>2, <1>3 DEF Sent
<1>5. Held' = Held /\ Queued' = Queued /\ InUse' = InUse
  BY Zenon, <1>1, <1>4 DEF Held, Queued, InUse
<1>6. Lists'
  <2>1. /\ wait_list' \subseteq Segs /\ retransmit_list' \subseteq Segs
        /\ wait_list' \cap retransmit_list' = {}
    BY Zenon, <1>2, <1>3 DEF Lists
  <2> QED BY Zenon, <1>1, <1>4, <1>5, <2>1 DEF Lists
<1>7. Numbers' /\ Counts'
  BY Zenon, <1>1, <1>4, <1>5 DEF Numbers, Counts
<1>8. Sums'
  <2>1. ASSUME StrictPeer PROVE bstatus_retx' = TotalPduSize(retransmit_list')
    <3>1. bstatus_retx = TotalPduSize(retransmit_list)
      BY Zenon, <2>1 DEF Sums, BufferStatusExact
    <3>2. /\ Summed(retransmit_list) /\ Summed(again) /\ retransmit_list \cap again = {}
      BY Zenon, <1>3, HeldIs DEF Lists
    <3>3. TotalPduSize(retransmit_list \cup again)
            = TotalPduSize(retransmit_list) + TotalPduSize(again)
      BY SMTT(30), <3>2, PduJoin
    <3> QED BY Zenon, <1>2, <3>1, <3>3
  <2> QED BY Zenon, <1>1, <1>5, <2>1 DEF Sums, BufferStatusExact
<1> QED BY Zenon, <1>6, <1>7, <1>8

\* Nothing is held after creation and re-establishment.
Empty ==
  /\ tx_list = <<>> /\ wait_list = {} /\ retransmit_list = {} /\ tx_next = 0 /\ tx_next_ack = 0
  /\ tx_size = 0 /\ bstatus_tx = 0 /\ bstatus_retx = 0 /\ sdu_sn = [d \in Sdu |-> -1]
  /\ ref_count = [d \in Sdu |-> 0] /\ free_count = [d \in Sdu |-> 0] /\ submitted \in Nat

\* So the invariant holds then.
LEMMA EmptyHolds == Empty => SenderInv
<1> SUFFICES ASSUME Empty PROVE SenderInv
  BY SMTT(30)
<1> USE DEF Empty
<1>1. Queued = {} /\ Sent = {} /\ Held = {}
  BY DEF Queued, Sent, Held, Range
<1>2. InUse = {}
  BY SMTT(30) DEF InUse
<1>3. IsFiniteSet({}) /\ Cardinality({}) = 0
  BY SMTT(30), FS_EmptySet
<1>4. Lists
  <2>1. Apart({}) /\ Summed({})
    BY Zenon, PduFew DEF Apart
  <2>2. tx_list \in Seq(Segs) /\ Once(tx_list)
    BY SMTT(30) DEF Once
  <2> QED BY Zenon, <1>1, <1>3, <2>1, <2>2 DEF Lists
<1>5. Numbers
  BY SMTT(30), <1>1, Window DEF Numbers, Sn
<1>6. Counts
  <2>1. \A d : Cardinality(OfSdu({}, d)) = 0
    <3>1. \A d : OfSdu({}, d) = {}
      BY DEF OfSdu
    <3> QED BY Zenon, <1>3, <3>1
  <2>2. /\ ref_count \in [Sdu -> Nat] /\ free_count \in [Sdu -> Nat]
        /\ \A d \in Sdu : ref_count[d] = 0 /\ free_count[d] = 0
    OBVIOUS
  <2>3. 0 <= 0 - 0 /\ 0 = 0 - 0 /\ ~(0 > 0)
    OBVIOUS
  <2> QED BY Zenon, <1>1, <2>1, <2>2, <2>3 DEF Counts
<1>7. Sums
  <2>1. /\ SummedSdus({}) /\ SizeOfSdus({}) = 0 /\ TotalPduSize({}) = 0
    BY Zenon, SduAdd, PduFew
  <2> QED BY Zenon, <1>1, <1>2, <2>1 DEF Sums, BufferStatusExact
<1> QED BY Zenon, <1>4, <1>5, <1>6, <1>7 DEF SenderInv

\* The same in the next state
LEMMA EmptyNext == Empty' => SenderInv'
BY EmptyHolds, PTL

-----------------------------------------------------------------------------
(* Confirmations                                                           *)

\* An SDU that was confirmed is no longer referenced and is not submitted again.
Confirmed ==
  /\ confirmed \in [Sdu -> {0, 1}]
  /\ \A d \in Sdu : confirmed[d] = 1 => ref_count[d] = 0 /\ d < submitted

\* SDUs are the numbers of their submission.
LEMMA SduNat == Sdu \subseteq Nat
<1>1. \A n \in Nat : 0 .. (n - 1) \subseteq Nat
  OBVIOUS
<1>2. Cardinality(Sdu) \in Nat
  BY Zenon, SenderAssumption, FS_CardinalityType
<1>3. 0 .. (Cardinality(Sdu) - 1) \subseteq Nat
  BY Zenon, <1>1, <1>2
<1> QED BY Zenon, <1>3, SenderAssumption

\* The SDU of a segment that is held is referenced, so it is not yet confirmed.
LEMMA HeldUnconfirmed ==
  ASSUME SenderInv, Confirmed, NEW s \in Held
  PROVE  /\ s.sdu \in Sdu /\ ref_count[s.sdu] # 0
         /\ confirmed[s.sdu] = 0 /\ s.sdu < submitted
<1> DEFINE d == s.sdu
           c == Cardinality(OfSdu(Held, d))
<1>1. Lists /\ Counts
  BY Zenon DEF SenderInv
<1>2. d \in Sdu
  BY Zenon, <1>1, HeldIs, SegmentIs
<1>3. s \in OfSdu(Held, d) /\ OfSdu(Held, d) \in SUBSET Held
  BY Zenon, <1>1, HeldIs DEF OfSdu
<1>4. c \in Nat /\ IsFiniteSet(OfSdu(Held, d))
  BY Zenon, <1>1, <1>3, HeldIs
<1>5. c # 0
  BY Zenon, <1>3, <1>4, FS_EmptySet
<1>6. /\ c <= ref_count[d] - free_count[d] /\ ref_count[d] \in Nat /\ free_count[d] \in Nat
      /\ submitted \in Nat /\ (d >= submitted => ref_count[d] = 0)
  BY Zenon, <1>1, <1>2 DEF Counts
<1> HIDE DEF c
<1>7. ref_count[d] # 0
  BY <1>4, <1>5, <1>6
<1>8. d \in Nat
  BY Zenon, <1>2, SduNat
<1>9. d < submitted
  BY <1>6, <1>7, <1>8
<1>10. confirmed[d] = 0
  BY <1>2, <1>7 DEF Confirmed
<1> QED BY Zenon, <1>2, <1>7, <1>9, <1>10

\* A step that confirms nothing and references no SDU anew
LEMMA ConfirmedStill ==
  ASSUME Confirmed, confirmed' = confirmed, submitted' = submitted,
         \A d \in Sdu : ref_count[d] = 0 => ref_count'[d] = 0
  PROVE  Confirmed'
BY Zenon DEF Confirmed

\* resegment adds its reference to an SDU that is not confirmed.
LEMMA ConfirmedCut ==
  ASSUME SenderInv, Confirmed, NEW s \in Held, NEW R,
         ref_count' = Referenced(s, R), confirmed' = confirmed, submitted' = submitted
  PROVE  Confirmed'
<1>1. s.sdu \in Sdu /\ ref_count[s.sdu] # 0
  BY Zenon, HeldUnconfirmed
<1>2. ref_count \in [Sdu -> Nat]
  BY Zenon DEF SenderInv, Counts
<1>3. \A d \in Sdu : d # s.sdu => ref_count'[d] = ref_count[d]
  BY <1>1, <1>2 DEF Referenced
<1>4. \A d \in Sdu : ref_count[d] = 0 => ref_count'[d] = 0
  BY Zenon, <1>1, <1>3
<1> QED BY Zenon, <1>4, ConfirmedStill

\* nr_rlc_entity_am_generate_pdu
LEMMA ConfirmedGenerate ==
  ASSUME SenderInv, Confirmed, Generate
  PROVE  Confirmed'
<1>1. PICK size \in Grants : GenerateRetxPdu(size) \/ GenerateTxPdu(size)
  BY Zenon DEF Generate
<1>2. submitted' = submitted /\ Lists /\ Numbers
  BY Zenon DEF Generate, SenderInv
<1>3. CASE GenerateRetxPdu(size)
  <2> DEFINE s == FirstOf(retransmit_list)
  <2>1. /\ retransmit_list # {} /\ confirmed' = confirmed
        /\ ref_count' = Referenced(s, Rest(s, size))
    BY ZenonT(60), <1>3 DEF GenerateRetxPdu, RetxFits, tx_history
  <2>2. retransmit_list \in SUBSET Sent
    BY Zenon DEF Sent
  <2>3. s \in retransmit_list
    BY ZenonT(60), <1>2, <2>1, <2>2, FirstIs
  <2>4. s \in Held
    BY Zenon, <1>2, <2>3, HeldIs
  <2> HIDE DEF s
  <2> QED BY Zenon, <1>2, <2>1, <2>4, ConfirmedCut
<1>4. CASE GenerateTxPdu(size)
  <2> DEFINE s == Head(tx_list)
  <2>1. /\ tx_list # <<>> /\ confirmed' = confirmed
        /\ ref_count' = Referenced(s, Rest(s, size))
    BY ZenonT(60), <1>4 DEF GenerateTxPdu, TxFits, tx_history
  <2>2. tx_list \in Seq(Segs)
    BY Zenon, <1>2 DEF Lists
  <2>3. s \in Queued
    BY <2>1, <2>2, RangeIs DEF Queued
  <2>4. s \in Held
    BY Zenon, <1>2, <2>3, HeldIs
  <2> HIDE DEF s
  <2> QED BY Zenon, <1>2, <2>1, <2>4, ConfirmedCut
<1> QED BY Zenon, <1>1, <1>3, <1>4

\* nr_rlc_entity_am_recv_sdu: PDCP hands over an SDU that was not submitted before.
LEMMA ConfirmedSubmit ==
  ASSUME SenderInv, Confirmed, Submit
  PROVE  Confirmed'
<1>1. /\ submitted \in Sdu /\ submitted' = submitted + 1 /\ confirmed' = confirmed
      /\ ref_count' = ref_count \/ ref_count' = [ref_count EXCEPT ![submitted] = 1]
  BY ZenonT(60) DEF Submit, RecvSdu, tx_vars, tx_sdus, tx_history
<1>2. ref_count \in [Sdu -> Nat] /\ submitted \in Nat /\ Sdu \subseteq Nat
  <2>1. ref_count \in [Sdu -> Nat] /\ submitted \in Nat
    BY Zenon DEF SenderInv, Counts
  <2> QED BY Zenon, <2>1, SduNat
<1>3. \A d \in Sdu : d # submitted => ref_count'[d] = ref_count[d]
  BY <1>1, <1>2
<1>4. \A d \in Sdu : d < submitted => d # submitted /\ d < submitted'
  BY <1>1, <1>2
<1> QED BY Zenon, <1>1, <1>3, <1>4 DEF Confirmed

\* process_control_pdu: an SDU whose last segment is freed was held, and from
\* then on is not.
LEMMA ConfirmedStatus ==
  ASSUME SenderInv, Confirmed, ReceiveStatus
  PROVE  Confirmed'
<1>1. PICK st \in Statuses : ProcessControlPdu(st)
  BY Zenon DEF ReceiveStatus
<1>2. submitted' = submitted /\ Lists /\ Numbers
  BY Zenon DEF ReceiveStatus, SenderInv
<1>3. CASE ~ControlPduValid(st)
  <2>1. confirmed' = confirmed /\ ref_count' = ref_count
    BY Zenon, <1>1, <1>3 DEF ProcessControlPdu, tx_vars, tx_sdus, tx_history
  <2> QED BY Zenon, <1>2, <2>1, ConfirmedStill
<1>4. CASE ControlPduValid(st)
  <2> DEFINE A == Outcome(st).acked
             over == {d \in Sdu : /\ OfSdu(A, d) # {}
                                 /\ free_count[d] + Cardinality(OfSdu(A, d)) = ref_count[d]}
  <2>1. FreeSegments(A)
    <3>1. PICK out \in {Outcome(st)} : FreeSegments(out.acked)
      BY Zenon, <1>1, <1>4 DEF ProcessControlPdu
    <3>2. out = Outcome(st)
      BY Zenon, <3>1
    <3> QED BY Zenon, <3>1, <3>2
  <2>2. /\ ref_count' = [d \in Sdu |-> IF d \in over THEN 0 ELSE ref_count[d]]
        /\ confirmed' = [d \in Sdu |-> confirmed[d] + (IF d \in over THEN 1 ELSE 0)]
    BY Zenon, <2>1 DEF FreeSegments
  <2>3. A \subseteq Held
    BY Zenon, <1>2, OutcomeIs, HeldIs
  <2>4. \A d \in over : confirmed[d] = 0 /\ d < submitted
    <3> SUFFICES ASSUME NEW d \in over PROVE confirmed[d] = 0 /\ d < submitted
      BY Zenon
    <3>1. PICK s \in A : s.sdu = d
      BY Zenon DEF OfSdu
    <3> QED BY Zenon, <2>3, <3>1, HeldUnconfirmed
  <2> HIDE DEF over, A
  <2>5. confirmed \in [Sdu -> {0, 1}]
    BY Zenon DEF Confirmed
  <2>6. ASSUME NEW d \in Sdu
        PROVE  /\ confirmed'[d] \in {0, 1}
               /\ confirmed'[d] = 1 => ref_count'[d] = 0 /\ d < submitted
    <3>1. CASE d \in over
      <4>1. ref_count'[d] = 0 /\ d < submitted /\ confirmed'[d] = 0 + 1
        BY Zenon, <2>2, <2>4, <3>1
      <4> QED BY <4>1
    <3>2. CASE d \notin over
      <4>1. ref_count'[d] = ref_count[d] /\ confirmed'[d] = confirmed[d] + 0
        BY Zenon, <2>2, <3>2
      <4>2. confirmed'[d] = confirmed[d]
        BY <2>5, <4>1
      <4> QED BY Zenon, <2>5, <4>1, <4>2 DEF Confirmed
    <3> QED BY Zenon, <3>1, <3>2
  <2>7. confirmed' \in [Sdu -> {0, 1}]
    BY <2>2, <2>6
  <2> QED BY Zenon, <1>2, <2>6, <2>7 DEF Confirmed
<1> QED BY Zenon, <1>3, <1>4

-----------------------------------------------------------------------------
(* Theorems                                                                *)

Inv == SenderInv /\ Confirmed

\* The invariant holds initially.
LEMMA SenderInit == Init => Inv
<1>1. Init => Empty
  BY DEF Init, TxInit, Empty
<1>2. ASSUME Init PROVE Confirmed
  <2>1. confirmed = [d \in Sdu |-> 0]
    BY Zenon, <1>2 DEF Init, TxInit
  <2>2. confirmed \in [Sdu -> {0, 1}] /\ \A d \in Sdu : confirmed[d] # 1
    BY <2>1
  <2> QED BY Zenon, <2>2 DEF Confirmed
<1> QED BY Zenon, <1>1, <1>2, EmptyHolds DEF Inv

\* Every step keeps the invariant.
LEMMA SenderStep ==
  ASSUME Inv, [Next]_vars
  PROVE  Inv'
<1>1. SenderInv /\ Confirmed
  BY Zenon DEF Inv
<1>2. CASE Submit
  BY Zenon, <1>1, <1>2, SubmitStep, ConfirmedSubmit DEF Inv
<1>3. CASE Generate
  BY Zenon, <1>1, <1>3, GenerateStep, ConfirmedGenerate DEF Inv
<1>4. CASE ReceiveStatus
  BY Zenon, <1>1, <1>4, StatusStep, ConfirmedStatus DEF Inv
<1>5. CASE Expire
  <2>1. confirmed' = confirmed /\ ref_count' = ref_count /\ submitted' = submitted
    BY ZenonT(60), <1>5 DEF Expire, TPollRetransmitExpires
  <2>2. Confirmed'
    BY Zenon, <1>1, <2>1, ConfirmedStill
  <2> QED BY Zenon, <1>1, <1>5, <2>2, ExpireStep DEF Inv
<1>6. CASE Discard
  <2>1. PICK d \in Sdu : ref_count' = [ref_count EXCEPT ![d] = 0]
    BY Zenon, <1>6 DEF Discard, DiscardSdu
  <2>2. confirmed' = confirmed /\ submitted' = submitted
    BY Zenon, <1>6 DEF Discard, DiscardSdu, tx_history
  <2>3. ref_count \in [Sdu -> Nat]
    BY Zenon, <1>1 DEF SenderInv, Counts
  <2>4. \A e \in Sdu : ref_count[e] = 0 => ref_count'[e] = 0
    BY <2>1, <2>3
  <2>5. Confirmed'
    BY Zenon, <1>1, <2>2, <2>4, ConfirmedStill
  <2> QED BY Zenon, <1>1, <1>6, <2>5, DiscardStep DEF Inv
<1>7. CASE Reestablish
  <2>1. submitted' \in Nat
    BY Zenon, <1>1, <1>7 DEF Reestablish, SenderInv, Counts
  <2>2. Empty'
    BY Zenon, <1>7, <2>1 DEF Reestablish, TxClear, Empty
  <2>3. SenderInv'
    BY Zenon, <2>2, EmptyNext
  <2>4. confirmed' = confirmed /\ submitted' = submitted /\ ref_count' = [d \in Sdu |-> 0]
    BY Zenon, <1>7 DEF Reestablish, TxClear, tx_history
  <2>5. \A d \in Sdu : ref_count'[d] = 0
    BY Zenon, <2>4
  <2>6. Confirmed'
    BY Zenon, <1>1, <2>4, <2>5, ConfirmedStill
  <2> QED BY Zenon, <2>3, <2>6 DEF Inv
<1>8. CASE UNCHANGED vars
  <2>1. UNCHANGED <<tx_vars, submitted>>
    BY Zenon, <1>8 DEF vars
  <2>2. confirmed' = confirmed /\ ref_count' = ref_count /\ submitted' = submitted
    BY Zenon, <2>1 DEF tx_vars, tx_sdus, tx_history
  <2>3. Confirmed'
    BY Zenon, <1>1, <2>2, ConfirmedStill
  <2> QED BY Zenon, <1>1, <2>1, <2>3, Unchanged DEF Inv
<1> QED BY ZenonT(60), <1>2, <1>3, <1>4, <1>5, <1>6, <1>7, <1>8 DEF Next

\* With any sequence of STATUS PDUs tx_size is the size of the SDUs held: every
\* SDU that nr_rlc_entity_am_recv_sdu added is subtracted once, when
\* process_control_pdu frees its last segment or discard_sdu takes it out.
THEOREM SenderTxSize == Spec => []TxSizeExact
<1>1. Inv => TxSizeExact
  BY Zenon DEF Inv, SenderInv, Sums, TxSizeExact, InUse, SizeOfSdus
<1>2. Inv /\ [Next]_vars => Inv'
  BY Zenon, SenderStep
<1> QED BY <1>1, <1>2, SenderInit, PTL DEF Spec

\* With any sequence of STATUS PDUs, those that make the entity lose segments
\* included, sdu_successful_delivery is called at most once for an SDU, and then
\* no segment of it is in any of the three lists.
THEOREM SenderConfirms == Spec => []ConfirmedOnce
<1>1. ASSUME Inv PROVE ConfirmedOnce
  <2>1. SenderInv /\ Confirmed
    BY Zenon, <1>1 DEF Inv
  <2> SUFFICES ASSUME NEW d \in Sdu
               PROVE  /\ confirmed[d] <= 1
                      /\ confirmed[d] = 1 => OfSdu(Queued \cup Sent, d) = {}
    BY Zenon DEF ConfirmedOnce
  <2>2. confirmed[d] \in {0, 1}
    BY Zenon, <2>1 DEF Confirmed
  <2>3. confirmed[d] <= 1 /\ 0 # 1
    BY <2>2
  <2>4. ASSUME NEW s \in OfSdu(Queued \cup Sent, d) PROVE confirmed[d] = 0
    <3>1. s \in Held /\ s.sdu = d
      BY Zenon DEF OfSdu, Held
    <3> QED BY Zenon, <2>1, <3>1, HeldUnconfirmed
  <2> QED BY Zenon, <2>3, <2>4
<1>2. Inv /\ [Next]_vars => Inv'
  BY Zenon, SenderStep
<1> QED BY <1>1, <1>2, SenderInit, PTL DEF Spec

\* When the peer follows the standard no segment is lost or doubled: those held
\* of an SDU are disjoint, and as many as its reference count says.
THEOREM SenderAccounts ==
  ASSUME StrictPeer
  PROVE  Spec => []SegmentsAccounted
<1>1. ASSUME Inv PROVE SegmentsAccounted
  <2>1. Lists /\ Counts
    BY Zenon, <1>1 DEF Inv, SenderInv
  <2> SUFFICES ASSUME NEW d \in Sdu
               PROVE  LET held == OfSdu(Queued \cup Sent, d)
                      IN  /\ Cardinality(held) = ref_count[d] - free_count[d]
                          /\ \A s, t \in held : s # t => s.so + s.size <= t.so \/ t.so + t.size <= s.so
                          /\ wait_list \cap retransmit_list = {}
    BY Zenon DEF SegmentsAccounted
  <2>2. Cardinality(OfSdu(Queued \cup Sent, d)) = ref_count[d] - free_count[d]
    BY Zenon, <2>1 DEF Counts, Held
  <2>3. \A s, t \in OfSdu(Queued \cup Sent, d) :
          s # t => s.so + s.size <= t.so \/ t.so + t.size <= s.so
    BY Zenon, <2>1 DEF Lists, Apart, OfSdu, Held
  <2>4. wait_list \cap retransmit_list = {}
    BY Zenon, <2>1 DEF Lists
  <2> QED BY Zenon, <2>2, <2>3, <2>4
<1>2. Inv /\ [Next]_vars => Inv'
  BY Zenon, SenderStep
<1> QED BY <1>1, <1>2, SenderInit, PTL DEF Spec

\* When the peer follows the standard the buffer status is exact: what MAC is
\* told is the size of the PDUs that the two lists need.
THEOREM SenderBufferStatus ==
  ASSUME StrictPeer
  PROVE  Spec => []BufferStatusExact
<1>1. Inv => BufferStatusExact
  BY Zenon DEF Inv, SenderInv, Sums
<1>2. Inv /\ [Next]_vars => Inv'
  BY Zenon, SenderStep
<1> QED BY <1>1, <1>2, SenderInit, PTL DEF Spec
=============================================================================
