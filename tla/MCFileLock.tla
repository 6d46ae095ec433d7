---------------------------- MODULE MCFileLock ----------------------------
(* The processes of the finite instances of FileLock.                      *)
EXTENDS FileLock

CONSTANTS p1, p2, p3
=============================================================================
