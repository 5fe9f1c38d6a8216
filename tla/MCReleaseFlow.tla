--------------------------- MODULE MCReleaseFlow ----------------------------
EXTENDS ReleaseFlow, TLC

CONSTANTS d1, d2, h1, h2, t1

Symmetry == Permutations({d1, d2}) \union Permutations({h1, h2})
=============================================================================
