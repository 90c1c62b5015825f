--------------------------- MODULE MCSessionCreate ---------------------------
EXTENDS SessionCreate, TLC

CONSTANTS u1, p1, p2, g1

\* One user, who may click twice and whose browser polls
OneUser == p1 :> u1 @@ p2 :> u1 @@ g1 :> u1

Symmetry == Permutations(Deployments)
=============================================================================
