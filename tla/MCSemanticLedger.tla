-------------------------- MODULE MCSemanticLedger --------------------------
EXTENDS SemanticLedger

CONSTANTS p1, p2, a, b

Alike == Permutations({p1, p2}) \cup Permutations({a, b})
=============================================================================
