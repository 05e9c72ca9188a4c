-------------------------------- MODULE MCApp --------------------------------
\* App for TLC.
EXTENDS App, TLC

Symmetry == Permutations(Device) \cup Permutations(Watcher)
==============================================================================
