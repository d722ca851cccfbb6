-------------------------- MODULE NrRlcSnTheorems ---------------------------
(***************************************************************************)
(* The arithmetic of sequence numbers, for every even modulus: SnAdd goes  *)
(* round the circle of SNs, Modulus measures the way from a base to an SN, *)
(* and moving the base shortens the way to all that lies ahead of it; and  *)
(* the sums of sizes that the entities keep.                               *)
(***************************************************************************)
EXTENDS NrRlcCommon, FiniteSetTheorems, WellFoundedInduction, TLAPS

\* The window is half of the SN space, and has two SNs or more.
LEMMA Window ==
  /\ SnModulus \in Nat /\ WindowSize \in Nat
  /\ WindowSize >= 2 /\ SnModulus = 2 * WindowSize
BY SnModulusAssumption DEF WindowSize

\* SnAdd without the modulo operation.
LEMMA SnAddIs ==
  ASSUME NEW a \in Sn, NEW k \in 0 .. SnModulus
  PROVE  SnAdd(a, k) = IF a + k < SnModulus THEN a + k ELSE a + k - SnModulus
<1>1. CASE a + k < SnModulus
  BY <1>1, Window DEF SnAdd, Sn
<1>2. CASE a + k >= SnModulus
  <2>1. a + k - SnModulus \in 0 .. (SnModulus - 1)
    BY <1>2, Window DEF Sn
  <2>2. (a + k) % SnModulus = a + k - SnModulus
    BY <1>2, <2>1, Window DEF Sn
  <2> QED BY <1>2, <2>2, Window DEF SnAdd, Sn
<1> QED BY <1>1, <1>2, Window DEF Sn

\* SnAdd stays within the SN space.
LEMMA SnAddType ==
  ASSUME NEW a \in Sn, NEW k \in 0 .. SnModulus
  PROVE  SnAdd(a, k) \in Sn
BY SnAddIs, Window DEF Sn

\* modulus_rx and modulus_tx return a distance within the SN space.
LEMMA ModulusType ==
  ASSUME NEW base \in Sn, NEW a \in Sn
  PROVE  Modulus(base, a) \in Sn
BY Window DEF Modulus, Sn

\* The base is the one SN at distance 0.
LEMMA ModulusZero ==
  ASSUME NEW base \in Sn, NEW a \in Sn
  PROVE  Modulus(base, a) = 0 <=> a = base
BY Window DEF Modulus, Sn

\* k steps from the base lead to distance k.
LEMMA ModulusSnAdd ==
  ASSUME NEW base \in Sn, NEW k \in Sn
  PROVE  Modulus(base, SnAdd(base, k)) = k
BY SnAddIs, Window DEF Modulus, Sn

\* As many steps as the distance lead from the base to the SN.
LEMMA SnAddModulus ==
  ASSUME NEW base \in Sn, NEW a \in Sn
  PROVE  SnAdd(base, Modulus(base, a)) = a
<1>1. Modulus(base, a) \in 0 .. SnModulus
  BY Window DEF Modulus, Sn
<1> QED BY <1>1, SnAddIs, Window DEF Modulus, Sn

\* Different SNs are at different distances.
LEMMA ModulusInjective ==
  ASSUME NEW base \in Sn, NEW a \in Sn, NEW b \in Sn,
         Modulus(base, a) = Modulus(base, b)
  PROVE  a = b
BY Window DEF Modulus, Sn

\* k steps from an SN that do not pass the base add k to its distance.
LEMMA ModulusAdvance ==
  ASSUME NEW base \in Sn, NEW a \in Sn, NEW k \in Sn,
         Modulus(base, a) + k < SnModulus
  PROVE  Modulus(base, SnAdd(a, k)) = Modulus(base, a) + k
<1>1. k \in 0 .. SnModulus
  BY Window DEF Sn
<1> QED BY <1>1, SnAddIs, Window DEF Modulus, Sn

\* When the base moves to b, what is not behind b comes nearer by as much.
LEMMA ModulusShift ==
  ASSUME NEW base \in Sn, NEW b \in Sn, NEW c \in Sn
  PROVE  Modulus(b, c) = IF Modulus(base, b) <= Modulus(base, c)
                           THEN Modulus(base, c) - Modulus(base, b)
                           ELSE Modulus(base, c) - Modulus(base, b) + SnModulus
BY Window DEF Modulus, Sn

\* Numbers less than a modulus apart: the distance of their SNs is theirs, or a
\* modulus more when it goes backwards.
LEMMA SnDistance ==
  ASSUME NEW n \in Nat, NEW c \in Nat, n <= c + SnModulus, c < n + SnModulus
  PROVE  /\ n % SnModulus \in Sn /\ c % SnModulus \in Sn
         /\ Modulus(n % SnModulus, c % SnModulus)
              = IF n <= c THEN c - n
                ELSE IF n = c + SnModulus THEN 0 ELSE c - n + SnModulus
<1> DEFINE m == SnModulus
           q == n \div m   r == n % m
           h == c \div m   s == c % m
<1>1. m \in Nat \ {0}
  BY Window
<1>2. q \in Nat /\ r \in 0..(m - 1) /\ n = q * m + r
  <2>1. q \in Nat BY <1>1
  <2>2. r \in 0..(m - 1) BY <1>1
  <2>3. n = m * q + r BY <1>1
  <2> QED BY <2>1, <2>2, <2>3, <1>1
<1>3. h \in Nat /\ s \in 0..(m - 1) /\ c = h * m + s
  <2>1. h \in Nat BY <1>1
  <2>2. s \in 0..(m - 1) BY <1>1
  <2>3. c = m * h + s BY <1>1
  <2> QED BY <2>1, <2>2, <2>3, <1>1
<1> HIDE DEF m, q, r, h, s
<1>4. h \in {q - 1, q, q + 1}
  <2>1. ASSUME h >= q + 2 PROVE FALSE
    <3>1. PICK k \in Nat : h = q + 2 + k BY <2>1, <1>2, <1>3
    <3>2. h * m = q * m + 2 * m + k * m BY <3>1, <1>1, <1>2
    <3>3. k * m \in Nat /\ q * m \in Nat BY <3>1, <1>1, <1>2
    <3> QED BY <1>1, <1>2, <1>3, <3>2, <3>3 DEF m
  <2>2. ASSUME q >= h + 2 PROVE FALSE
    <3>1. PICK k \in Nat : q = h + 2 + k BY <2>2, <1>2, <1>3
    <3>2. q * m = h * m + 2 * m + k * m BY <3>1, <1>1, <1>3
    <3>3. k * m \in Nat /\ h * m \in Nat BY <3>1, <1>1, <1>3
    <3> QED BY <1>1, <1>2, <1>3, <3>2, <3>3 DEF m
  <2> QED BY <2>1, <2>2, <1>2, <1>3
<1>5. Modulus(r, s) = IF n <= c THEN c - n
                      ELSE IF n = c + m THEN 0 ELSE c - n + m
  <2>1. q * m \in Nat /\ n <= c + m /\ c < n + m BY <1>1, <1>2 DEF m
  <2>2. CASE h = q BY <2>1, <2>2, <1>1, <1>2, <1>3 DEF Modulus, m
  <2>3. CASE h = q + 1
    <3>1. h * m = q * m + m BY <2>3, <1>1, <1>2
    <3> QED BY <2>1, <3>1, <1>1, <1>2, <1>3 DEF Modulus, m
  <2>4. CASE h = q - 1
    <3>1. h * m = q * m - m BY <2>4, <1>1, <1>2
    <3> QED BY <2>1, <3>1, <1>1, <1>2, <1>3 DEF Modulus, m
  <2> QED BY <1>4, <2>2, <2>3, <2>4
<1> QED BY <1>1, <1>2, <1>3, <1>5 DEF m, r, s, Sn

\* Every nonempty set of naturals has a least element.
LEMMA LeastNat ==
  ASSUME NEW T \in SUBSET Nat, T # {}
  PROVE  \E k \in T : \A j \in T : k <= j
<1>1. PICK k \in T : \A j \in T : ~(<<j, k>> \in OpToRel(<, Nat))
  BY WFMin, NatLessThanWellFounded
<1>2. \A j \in T : ~(j < k)
  BY <1>1 DEF OpToRel
<1> QED BY <1>2

\* The first SN at or after sn that is not in done is no further than any SN h
\* ahead that is not in done, and all before it are in done.  Distances are
\* measured from an arbitrary base that the way to h does not go round to.
LEMMA FirstAbsent ==
  ASSUME NEW base \in Sn, NEW sn \in Sn, NEW done \in SUBSET Sn,
         NEW h \in Sn, h \notin done, Modulus(base, sn) <= Modulus(base, h)
  PROVE  LET f == SnAdd(sn, CHOOSE k \in Sn :
                              /\ SnAdd(sn, k) \notin done
                              /\ \A j \in 0 .. (k - 1) : SnAdd(sn, j) \in done)
         IN  /\ f \in Sn /\ f \notin done
             /\ Modulus(base, sn) <= Modulus(base, f)
             /\ Modulus(base, f) <= Modulus(base, h)
             /\ \A y \in Sn :
                  Modulus(base, sn) <= Modulus(base, y)
                  /\ Modulus(base, y) < Modulus(base, f) => y \in done
<1> DEFINE P(k) == /\ SnAdd(sn, k) \notin done
                   /\ \A j \in 0 .. (k - 1) : SnAdd(sn, j) \in done
           K == {k \in Sn : SnAdd(sn, k) \notin done}
           m == CHOOSE k \in Sn : P(k)
           o(y) == Modulus(base, y)
<1>1. /\ Modulus(sn, h) \in Sn
      /\ SnAdd(sn, Modulus(sn, h)) = h
      /\ Modulus(sn, h) = o(h) - o(sn)
  BY ModulusType, SnAddModulus, ModulusShift
<1>2. K \in SUBSET Nat /\ K # {}
  BY <1>1, Window DEF Sn
<1>3. PICK k \in K : \A j \in K : k <= j
  BY <1>2, LeastNat
<1>4. k \in Sn /\ P(k)
  BY <1>3, Window DEF Sn
<1>5. m \in Sn /\ P(m)
  BY <1>4
<1>6. m <= Modulus(sn, h)
  BY <1>1, <1>5, Window DEF Sn
<1>7. o(SnAdd(sn, m)) = o(sn) + m
  <2>1. o(sn) + m < SnModulus
    BY <1>1, <1>5, <1>6, ModulusType, Window DEF Sn
  <2> QED BY <2>1, <1>5, ModulusAdvance
<1>9. SnAdd(sn, m) \in Sn
  BY <1>5, SnAddType, Window DEF Sn
<1>10. ASSUME NEW y \in Sn, o(sn) <= o(y), o(y) < o(SnAdd(sn, m))
       PROVE  y \in done
  <2>1. Modulus(sn, y) = o(y) - o(sn) /\ SnAdd(sn, Modulus(sn, y)) = y
    BY <1>10, ModulusShift, SnAddModulus
  <2>2. Modulus(sn, y) \in 0 .. (m - 1)
    BY <2>1, <1>5, <1>7, <1>10, ModulusType, Window DEF Sn
  <2> QED BY <2>1, <2>2, <1>5
<1>11. o(sn) <= o(SnAdd(sn, m)) /\ o(SnAdd(sn, m)) <= o(h)
  <2>1. o(sn) \in Int /\ o(h) \in Int /\ m \in Nat
    BY <1>5, ModulusType, Window DEF Sn
  <2> QED BY <1>1, <1>6, <1>7, <2>1
<1> HIDE DEF m, o
<1> QED BY <1>5, <1>9, <1>10, <1>11 DEF o, m

-----------------------------------------------------------------------------
(* Sums                                                                    *)

\* The units of a sum are pairs.
LEMMA UnitsAre ==
  ASSUME NEW f
  PROVE  \A u : u \in Units(f) <=> \E x \in DOMAIN f : u \in {x} \X (1 .. f[x])
BY DEF Units

\* The sum over nothing
LEMMA TotalEmpty ==
  ASSUME NEW f, DOMAIN f = {}
  PROVE  IsFiniteSet(Units(f)) /\ Total(f) = 0
<1>1. Units(f) = {}
  BY DEF Units
<1> QED BY <1>1, FS_EmptySet DEF Total

\* The sum of one value
LEMMA TotalOne ==
  ASSUME NEW f, NEW x, DOMAIN f = {x}, f[x] \in Nat
  PROVE  IsFiniteSet(Units(f)) /\ Total(f) = f[x]
<1>1. Units(f) = {x} \X (1 .. f[x])
  BY DEF Units
<1>2. IsFiniteSet({x}) /\ Cardinality({x}) = 1
  BY FS_Singleton
<1>3. IsFiniteSet(1 .. f[x]) /\ Cardinality(1 .. f[x]) = f[x]
  BY FS_Interval
<1>4. /\ IsFiniteSet({x} \X (1 .. f[x]))
      /\ Cardinality({x} \X (1 .. f[x])) = Cardinality({x}) * Cardinality(1 .. f[x])
  BY Zenon, <1>2, <1>3, FS_Product
<1>5. Cardinality({x} \X (1 .. f[x])) = f[x]
  BY <1>2, <1>3, <1>4
<1> QED BY Zenon, <1>1, <1>4, <1>5 DEF Total

\* f falls into the disjoint parts g and h.
Combines(f, g, h) ==
  /\ DOMAIN f = DOMAIN g \cup DOMAIN h /\ DOMAIN g \cap DOMAIN h = {}
  /\ \A x \in DOMAIN g : f[x] = g[x]
  /\ \A x \in DOMAIN h : f[x] = h[x]

\* The sum over two disjoint parts
LEMMA TotalJoin ==
  ASSUME NEW f, NEW g, NEW h, Combines(f, g, h), IsFiniteSet(Units(g)), IsFiniteSet(Units(h))
  PROVE  /\ IsFiniteSet(Units(f))
         /\ Total(f) = Total(g) + Total(h)
         /\ Total(g) \in Nat /\ Total(h) \in Nat
<1> USE DEF Combines
<1>1. Units(f) = Units(g) \cup Units(h)
  <2>1. ASSUME NEW u \in Units(f) PROVE u \in Units(g) \cup Units(h)
    <3>1. PICK x \in DOMAIN f : u \in {x} \X (1 .. f[x])
      BY UnitsAre
    <3>2. CASE x \in DOMAIN g
      BY Zenon, <3>1, <3>2, UnitsAre
    <3>3. CASE x \in DOMAIN h
      BY Zenon, <3>1, <3>3, UnitsAre
    <3> QED BY Zenon, <3>1, <3>2, <3>3
  <2>2. ASSUME NEW u \in Units(g) PROVE u \in Units(f)
    <3>1. PICK x \in DOMAIN g : u \in {x} \X (1 .. g[x])
      BY UnitsAre
    <3> QED BY Zenon, <3>1, UnitsAre
  <2>3. ASSUME NEW u \in Units(h) PROVE u \in Units(f)
    <3>1. PICK x \in DOMAIN h : u \in {x} \X (1 .. h[x])
      BY UnitsAre
    <3> QED BY Zenon, <3>1, UnitsAre
  <2> QED BY Zenon, <2>1, <2>2, <2>3
<1>2. Units(g) \cap Units(h) = {}
  <2> SUFFICES ASSUME NEW u, u \in Units(g), u \in Units(h) PROVE FALSE
    OBVIOUS
  <2>1. PICK x \in DOMAIN g : u \in {x} \X (1 .. g[x])
    BY UnitsAre
  <2>2. PICK y \in DOMAIN h : u \in {y} \X (1 .. h[y])
    BY UnitsAre
  <2>3. u[1] = x /\ u[1] = y
    BY <2>1, <2>2
  <2> QED BY Zenon, <2>3
<1>3. /\ IsFiniteSet(Units(f))
      /\ Cardinality(Units(f)) = Cardinality(Units(g)) + Cardinality(Units(h))
                                  - Cardinality(Units(g) \cap Units(h))
  BY ZenonT(60), <1>1, FS_Union
<1>4. Cardinality(Units(g) \cap Units(h)) = 0
  BY Zenon, <1>2, FS_EmptySet
<1>5. Cardinality(Units(g)) \in Nat /\ Cardinality(Units(h)) \in Nat
  BY Zenon, FS_CardinalityType
<1> QED BY <1>3, <1>4, <1>5 DEF Total

\* The same, when it is known of the whole that it is finite
LEMMA TotalSplit ==
  ASSUME NEW f, NEW g, NEW h, Combines(f, g, h), IsFiniteSet(Units(f))
  PROVE  /\ IsFiniteSet(Units(g)) /\ IsFiniteSet(Units(h))
         /\ Total(f) = Total(g) + Total(h)
         /\ Total(g) \in Nat /\ Total(h) \in Nat
<1>1. Units(g) \in SUBSET Units(f)
  BY Zenon, UnitsAre DEF Combines
<1>2. Units(h) \in SUBSET Units(f)
  BY Zenon, UnitsAre DEF Combines
<1>3. IsFiniteSet(Units(g)) /\ IsFiniteSet(Units(h))
  BY Zenon, <1>1, <1>2, FS_Subset
<1> QED BY <1>3, TotalJoin

\* A sum over finitely many values has finitely many units.
LEMMA UnitsFinite ==
  ASSUME NEW f, IsFiniteSet(DOMAIN f), \A x \in DOMAIN f : f[x] \in Nat
  PROVE  IsFiniteSet(Units(f))
<1> DEFINE u(x) == {x} \X (1 .. f[x])
           S == {u(x) : x \in DOMAIN f}
           s == [x \in DOMAIN f |-> u(x)]
<1>1. s \in Surjection(DOMAIN f, S)
  BY DEF Surjection
<1>2. IsFiniteSet(S)
  BY <1>1, FS_Surjection
<1>3. ASSUME NEW x \in DOMAIN f PROVE IsFiniteSet(u(x))
  <2>1. IsFiniteSet({x})
    BY FS_Singleton
  <2>2. IsFiniteSet(1 .. f[x])
    BY FS_Interval
  <2> QED BY Zenon, <2>1, <2>2, FS_Product
<1>4. \A T \in S : IsFiniteSet(T)
  BY Zenon, <1>3
<1>5. Units(f) = UNION S
  BY DEF Units
<1> HIDE DEF S
<1> QED BY Zenon, <1>2, <1>4, <1>5, FS_UNION

\* A sum does not depend on the names of its terms.
LEMMA TotalMoved ==
  ASSUME NEW f, NEW g, NEW b \in Bijection(DOMAIN f, DOMAIN g),
         \A x \in DOMAIN f : f[x] = g[b[x]], IsFiniteSet(Units(f))
  PROVE  Total(f) = Total(g)
<1> DEFINE m == [u \in Units(f) |-> <<b[u[1]], u[2]>>]
<1>1. \A u \in Units(f) : u = <<u[1], u[2]>> /\ u[1] \in DOMAIN f /\ u[2] \in 1 .. f[u[1]]
  BY DEF Units
<1>2. /\ \A x \in DOMAIN f : b[x] \in DOMAIN g
      /\ \A x, y \in DOMAIN f : b[x] = b[y] => x = y
      /\ \A y \in DOMAIN g : \E x \in DOMAIN f : b[x] = y
  BY Zenon DEF Bijection, Injection, Surjection, IsInjective
<1>3. \A x, n : x \in DOMAIN f /\ n \in 1 .. f[x] => <<x, n>> \in Units(f)
  BY DEF Units
<1>4. \A x, n : x \in DOMAIN g /\ n \in 1 .. g[x] => <<x, n>> \in Units(g)
  BY DEF Units
<1>5. m \in [Units(f) -> Units(g)]
  <2>1. ASSUME NEW u \in Units(f) PROVE <<b[u[1]], u[2]>> \in Units(g)
    <3>1. u[1] \in DOMAIN f /\ u[2] \in 1 .. g[b[u[1]]] /\ b[u[1]] \in DOMAIN g
      BY Zenon, <1>1, <1>2
    <3> QED BY Zenon, <3>1, <1>4
  <2> QED BY <2>1
<1>6. ASSUME NEW u \in Units(f), NEW v \in Units(f), m[u] = m[v] PROVE u = v
  <2>1. b[u[1]] = b[v[1]] /\ u[2] = v[2]
    BY <1>6
  <2>2. u[1] \in DOMAIN f /\ v[1] \in DOMAIN f /\ u = <<u[1], u[2]>> /\ v = <<v[1], v[2]>>
    BY Zenon, <1>1
  <2>3. u[1] = v[1]
    BY <2>1, <2>2, <1>2
  <2> QED BY Zenon, <2>1, <2>2, <2>3
<1>7. ASSUME NEW v \in Units(g) PROVE \E u \in Units(f) : m[u] = v
  <2>1. v = <<v[1], v[2]>> /\ v[1] \in DOMAIN g /\ v[2] \in 1 .. g[v[1]]
    BY DEF Units
  <2>2. PICK x \in DOMAIN f : b[x] = v[1]
    BY Zenon, <1>2, <2>1
  <2>3. <<x, v[2]>> \in Units(f)
    BY Zenon, <1>3, <2>1, <2>2
  <2>4. m[<<x, v[2]>>] = <<b[x], v[2]>>
    BY <2>3
  <2> QED BY Zenon, <2>1, <2>2, <2>3, <2>4
<1> HIDE DEF m
<1>8. m \in Bijection(Units(f), Units(g))
  BY ZenonT(60), <1>5, <1>6, <1>7 DEF Bijection, Injection, Surjection, IsInjective
<1> QED BY Zenon, <1>8, FS_Bijection DEF ExistsBijection, Total
=============================================================================
