------------------------------ MODULE MCNrSdap -------------------------------
EXTENDS NrSdap, TLC

\* Nothing tells one QoS flow from another.
Symmetry == Permutations(Qfi)
=============================================================================
