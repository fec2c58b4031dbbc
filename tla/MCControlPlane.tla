---------------------------- MODULE MCControlPlane ----------------------------
EXTENDS ControlPlane, TLC

CONSTANTS p1, p2, r1, r2

MCProviders == {p1, p2}
MCRoutes == {r1, r2}

\* Ids are only compared with each other.
MCSymmetry == Permutations(MCProviders) \union Permutations(MCRoutes)
=============================================================================
