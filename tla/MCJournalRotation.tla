------------------------- MODULE MCJournalRotation -------------------------
(* JournalRotation over some calls of StoreInstance.                       *)
EXTENDS JournalRotation, StoreInstance

CONSTANTS weekly, noon

Rotating(id, at, dryRun) == [id |-> id, at |-> at, dryRun |-> dryRun]

\* Calls that write two namespaces, archive a fact and collide on their constraint.
RotationCalls == {AssertFact, AssertRule, SupersedeFact}

\* A call under an id, a dry run that asks for that id with another instant, and an
\* anonymous call.
EveryCompaction ==
  {Rotating(weekly, NoInstant, FALSE), Rotating(weekly, noon, TRUE),
   Rotating(Implicit, NoInstant, FALSE)}
=============================================================================
