---------------------------- MODULE MCStripeCheckout ----------------------------
\* The instances of StripeCheckout that TLC checks: all three sets are symmetric.
EXTENDS StripeCheckout, TLC

Symmetry == Permutations(Intents) \cup Permutations(Sessions) \cup Permutations(Callers)
=============================================================================
