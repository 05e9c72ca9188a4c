----------------------------- MODULE MCStreaming -----------------------------
\* Streaming for TLC.
EXTENDS Streaming, TLC

Symmetry == Permutations(Device) \cup Permutations(Client) \cup Permutations(Conn)
==============================================================================
