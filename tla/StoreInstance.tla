--------------------------- MODULE StoreInstance ---------------------------
(***************************************************************************)
(* The values the runs give the constants of StoreOperations: two          *)
(* namespaces, a fact with its archived form, a second fact and a rule     *)
(* that may not hold together, and calls that collide on ids and clauses.  *)
(***************************************************************************)
EXTENDS StoreOperations, TLC

CONSTANTS personal, shared, fact, factUntil, rule, X

MCNamespaces == {personal, shared}
MCOperationIds == {X}
MCClauses == {fact, factUntil, rule}
MCUntil == fact :> factUntil
MCForbidden == {{fact, rule}}

Nothing == [n \in MCNamespaces |-> {}]

Calling(op, n, id, matches, adds, mode) ==
  [op |-> op, ns |-> n, id |-> id, mode |-> mode, view |-> MCNamespaces,
   params |-> [matches |-> matches, adds |-> adds, archive |-> FALSE,
               every |-> FALSE, reviewed |-> Nothing]]

AssertFact == Calling("assert", personal, X, {}, {fact}, "no_new_violations")
AssertRule == Calling("assert", shared, Implicit, {}, {rule}, "strict")
AssertRuleX == Calling("assert", personal, X, {}, {rule}, "strict")
RetractFact == Calling("retract", personal, X, {fact}, {}, "strict")
SupersedeFact ==
  [Calling("supersede", personal, Implicit, {fact}, {}, "no_new_violations")
     EXCEPT !.params.archive = TRUE]
ReplaceRule == Calling("supersede", shared, X, {rule}, {fact}, "no_new_violations")
ArchiveAgain ==
  [Calling("supersede", personal, Implicit, {factUntil}, {fact}, "strict")
     EXCEPT !.params.archive = TRUE]
AcceptClaim ==
  [Calling("supersede", shared, X, {fact}, {rule}, "no_new_violations")
     EXCEPT !.params.every = TRUE]
ReviewedRule ==
  [Calling("rule_change", personal, X, {}, {rule}, "no_new_violations")
     EXCEPT !.params.reviewed = [Nothing EXCEPT ![personal] = {factUntil}]]
ReviewedFact ==
  [Calling("memory_change", personal, X, {factUntil}, {fact}, "no_new_violations")
     EXCEPT !.params.reviewed = [Nothing EXCEPT ![personal] = {factUntil}]]

EveryCall == {AssertFact, AssertRule, AssertRuleX, RetractFact, SupersedeFact,
              ReplaceRule, ArchiveAgain, AcceptClaim, ReviewedRule, ReviewedFact}

\* Calls that write, rewrite, empty and archive one namespace, one that the
\* other namespace's clauses forbid, and retries that conflict.
WritingCalls == {AssertFact, AssertRule, RetractFact, SupersedeFact, ReviewedFact}

TwoCalls == {AssertFact, RetractFact}
=============================================================================
