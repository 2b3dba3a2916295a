------------------------------ MODULE MCCalls -------------------------------
EXTENDS Calls, TLC
CONSTANTS d1, d2

\* Devices are interchangeable: no operator of Calls tells one from another.
Symmetric == Permutations({d1, d2})
=============================================================================
