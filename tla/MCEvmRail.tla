------------------------------- MODULE MCEvmRail -------------------------------
\* The instance of EvmRail that TLC checks.
EXTENDS EvmRail, TLC

Symmetry == Permutations(Payments) \cup Permutations(Callers)
=============================================================================
