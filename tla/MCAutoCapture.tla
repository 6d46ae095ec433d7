--------------------------- MODULE MCAutoCapture ---------------------------
(* AutoCapture with a user who asserts, retracts and replaces what may be  *)
(* captured.                                                               *)
EXTENDS AutoCapture, StoreInstance

CONSTANTS h1, h2

MCHooks == {h1, h2}
CaptureOperationIds == MCOperationIds \cup MCHooks

\* A replacement whose pattern matches nothing adds its fact all the same.
ReplaceByFact ==
  Calling("supersede", personal, Implicit, {factUntil}, {fact}, "no_new_violations")
UserCalls == {AssertFact, RetractFact, ReplaceByFact}
MCFacts == {fact}

RunsAlike == Permutations(MCHooks)

Stop(n, text, day) == [ns |-> n, text |-> text, day |-> day]

\* One text twice, a second on the same day, the first again on the next day,
\* another namespace, and a transcript without user text.
EveryStop ==
  {Stop(personal, "a", "monday"), Stop(personal, "b", "monday"),
   Stop(personal, "a", "tuesday"), Stop(shared, "a", "monday"), Stop(personal, "none", "monday")}
=============================================================================
