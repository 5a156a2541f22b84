------------------------------- MODULE MCBtcRail -------------------------------
\* The instances of BtcRail that TLC checks: all three sets are symmetric.
EXTENDS BtcRail, TLC

Symmetry == Permutations(Payments) \cup Permutations(Coins) \cup Permutations(Callers)
=============================================================================
