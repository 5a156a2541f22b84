-------------------------- MODULE MCPayLinkExecution --------------------------
\* The instance of PayLinkExecution that TLC checks: all three sets are symmetric.
EXTENDS PayLinkExecution, TLC

Symmetry == Permutations(Intents) \cup Permutations(Payments) \cup Permutations(Callers)
=============================================================================
