----------------------------- MODULE MCNrRlcAm ------------------------------
EXTENDS NrRlcAm

\* SDUs that are never cut: enough of them for the SNs to wrap around.
MCWhole == [d \in 0 .. 4 |-> 1]

\* A window of SDUs that are not cut
MCFew == [d \in 0 .. 1 |-> 1]

\* SDUs that are cut
MCCut == [d \in 0 .. 1 |-> <<2, 1>>[d + 1]]

\* The second SDU is cut: its first part tells of the loss of the first SDU.
MCLateCut == [d \in 0 .. 1 |-> <<1, 2>>[d + 1]]

\* Two SDUs, both cut, fill the window.
MCBothCut == [d \in 0 .. 1 |-> 2]

MCInfinity == -1
=============================================================================
