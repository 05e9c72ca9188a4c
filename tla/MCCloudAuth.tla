----------------------------- MODULE MCCloudAuth -----------------------------
\* CloudAuth for TLC.
EXTENDS CloudAuth, TLC

Symmetry ==
    Permutations(Account) \cup Permutations(Caller) \cup Permutations(Login)
        \cup Permutations(Visit)
==============================================================================
