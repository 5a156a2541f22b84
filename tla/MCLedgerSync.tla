------------------------------ MODULE MCLedgerSync ------------------------------
\* The instances of LedgerSync that TLC checks.
EXTENDS LedgerSync, TLC

Symmetry == Permutations(Txs \ Own) \cup Permutations(Own) \cup Permutations(Calls)
=============================================================================
