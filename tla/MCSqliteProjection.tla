------------------------- MODULE MCSqliteProjection -------------------------
(* SqliteProjection over calls of StoreInstance.                           *)
EXTENDS SqliteProjection, StoreInstance

CONSTANTS c1, c2

Alike == Permutations({c1, c2})
=============================================================================
