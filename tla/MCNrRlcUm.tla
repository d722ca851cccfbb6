----------------------------- MODULE MCNrRlcUm ------------------------------
EXTENDS NrRlcUm

\* Sizes of the SDUs 0, 1, ..: sequences shifted to start at 0.  A block of 4
\* bytes takes 3 bytes of a first segment and 1 of any other: SDUs in two parts up
\* to the wrap-around of the SNs, then one in three parts and one that is not cut.
MCMixed == [d \in 0 .. 4 |-> <<4, 4, 4, 5, 1>>[d + 1]]
MCThree == [d \in 0 .. 2 |-> <<3, 3, 1>>[d + 1]]
MCWrap  == [d \in 0 .. 3 |-> <<2, 2, 2, 3>>[d + 1]]
=============================================================================
