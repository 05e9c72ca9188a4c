------------------------------ MODULE MCPairing ------------------------------
\* Pairing for TLC.
EXTENDS Pairing, TLC

Symmetry == Permutations(Device) \cup Permutations(Caller)
==============================================================================
