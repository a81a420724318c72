------------------------------ MODULE MCVault --------------------------------
(* The instance of Vault that TLC checks.                                  *)
EXTENDS Vault, TLC

Symmetry ==
    Permutations(Handlers) \cup Permutations(Entries) \cup Permutations(Projects)

\* One statement writes the flag and the project of an entry, and no guard reads
\* the flag: a form sets one of them or neither.
OneColumn ==
    \A n \in DOMAIN sent : sent[n].favorite => sent[n].project = NoProject
=============================================================================
