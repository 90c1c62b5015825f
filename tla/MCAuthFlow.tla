----------------------------- MODULE MCAuthFlow -----------------------------
EXTENDS AuthFlow, TLC

Symmetry == Permutations(Requests) \cup Permutations(States) \cup Permutations(Users)
=============================================================================
