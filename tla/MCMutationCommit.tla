-------------------------- MODULE MCMutationCommit --------------------------
(* MutationCommit over the calls of StoreInstance.                         *)
EXTENDS MutationCommit, StoreInstance
=============================================================================
