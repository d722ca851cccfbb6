---------------------------- MODULE NrRlcCommon -----------------------------
(***************************************************************************)
(* SDUs and sequence numbers of the NR RLC AM entity                       *)
(* (openair2/LAYER2/nr_rlc/nr_rlc_entity_am.c and nr_rlc_entity.c).        *)
(* Sequence numbers are integers modulo sn_modulus (2^12 or 2^18 in the    *)
(* code), half of which is the window; two of them are compared through    *)
(* their distance from a base (rx_next or tx_next_ack).                    *)
(***************************************************************************)
EXTENDS Integers, FiniteSets

CONSTANTS SnModulus,   \* entity->sn_modulus
          SduSize      \* SduSize[d] is the number of bytes of SDU d

Sdu == DOMAIN SduSize

\* The code uses 1 << 12 and 1 << 18; all the arithmetic needs is an even
\* modulus with a window of two or more.
ASSUME SnModulusAssumption == /\ SnModulus \in Nat
                              /\ SnModulus >= 4
                              /\ SnModulus % 2 = 0

ASSUME SduSizeAssumption == \A d \in Sdu : SduSize[d] \in Nat \ {0}

\* entity->window_size
WindowSize == SnModulus \div 2

Sn == 0 .. (SnModulus - 1)

SnAdd(a, k) == (a + k) % SnModulus

\* modulus_rx / modulus_tx: the distance from base up to a
Modulus(base, a) == IF a - base < 0 THEN a - base + SnModulus ELSE a - base

\* sn_compare_rx / sn_compare_tx
SnCompare(base, a, b) == Modulus(base, a) - Modulus(base, b)

\* The so_end of a NACK that reaches the end of its SDU: 0xffff in a STATUS
\* PDU, -1 once decoded.
ToEnd == -1

\* The sum of the values of f, naturals: one unit for every 1 .. f[x].
Units(f) == UNION {{x} \X (1 .. f[x]) : x \in DOMAIN f}

Total(f) == Cardinality(Units(f))
=============================================================================
