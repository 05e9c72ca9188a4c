------------------------------- MODULE MCRelay -------------------------------
\* Relay for TLC.
EXTENDS Relay, TLC

Symmetry == Permutations(Socket) \cup Permutations(Room)
==============================================================================
