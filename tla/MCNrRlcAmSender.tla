-------------------------- MODULE MCNrRlcAmSender ---------------------------
EXTENDS NrRlcAmSender

\* One SDU that can be cut, and what is left of it cut again, and three that
\* cannot: the buffer of TxMaxSize bytes holds some of them, and the SNs come to
\* a full turn.
MCSduSize == [d \in 0 .. 3 |-> <<3, 1, 1, 1>>[d + 1]]

\* Room for one byte without a segment offset, and for any segment.
MCGrants == {3, 5}

MCInfinity == -1
=============================================================================
