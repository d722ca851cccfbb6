------------------------- MODULE MCNrRlcAmReceiver --------------------------
EXTENDS NrRlcAmReceiver

\* Sizes of the SDUs 0, 1, ..: sequences shifted to start at 0.
MCSduSize == [d \in 0 .. 7 |-> <<3, 1, 2, 1, 2, 1, 1, 1>>[d + 1]]
=============================================================================
