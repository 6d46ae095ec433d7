--------------------------- MODULE DatalogMeaning ---------------------------
(***************************************************************************)
(* What a program means, apart from how DatalogEngine evaluates it: p_plus *)
(* is the transitive closure of p, a stratum is the number of negations    *)
(* and aggregates below a predicate, and a model is the least one of each  *)
(* stratum on top of the one below.                                        *)
(***************************************************************************)
EXTENDS DatalogEngine, FiniteSetsExt

CONSTANT MaxRows  \* maxRows

ASSUME MeaningAssumption == MaxRows \in Nat \ {0}

Closed == {b \in DOMAIN Plus :
             /\ \E i \in DOMAIN program.clauses : program.clauses[i].head.p = Plus[b]
             /\ \A i \in DOMAIN program.authored : program.authored[i].head.p # Plus[b]}
Synthesized == {Plus[b] : b \in Closed}

\* The transitive closure of a relation.
Reachable(pairs) ==
  LET closure[k \in 0..Cardinality(pairs)] ==
        IF k = 0 THEN pairs
        ELSE LET closer == closure[k - 1]
             IN closer \cup {<<way[1][1], way[2][2]>> :
                              way \in {way \in closer \X pairs : way[1][2] = way[2][1]}}
  IN closure[Cardinality(pairs)]

Edges ==
  ToSet(Dependencies(program.authored))
  \cup {[head |-> Plus[b], body |-> b, strict |-> 0] : b \in Closed}
Predicates == UNION {{e.head, e.body} : e \in Edges} \cup PredicatesOf(program.authored)

Paths == Reachable({<<e.head, e.body>> : e \in Edges}) \cup {<<p, p>> : p \in Predicates}

Circular == LET paths == Paths IN \E e \in Edges : e.strict = 1 /\ <<e.body, e.head>> \in paths

\* For each predicate, the most strict dependencies on a chain below it.
Depth ==
  LET paths == Paths
      strict == {e \in Edges : e.strict = 1}
      above[k \in Nat] ==
        IF k = 0 THEN Predicates
        ELSE LET before == above[k - 1] IN
             {p \in Predicates : \E e \in strict : <<p, e.head>> \in paths /\ e.body \in before}
      levels == [k \in 0..Cardinality(Predicates) |-> above[k]]
  IN [p \in Predicates |-> Max({k \in DOMAIN levels : p \in levels[k]})]

Chain(b, facts) ==
  {[p |-> Plus[b], args |-> pair] :
     pair \in Reachable({f.args : f \in {f \in facts : f.p = b /\ Len(f.args) = 2}})}

WithClosures(facts) == facts \cup UNION {Chain(b, facts) : b \in Closed}

Consequences(rules, facts) ==
  UNION {IF Aggregate(r) THEN Counted(r, WithClosures(facts))
         ELSE {Derived(r, s) : s \in Solutions(r.body, 0, WithClosures(facts), {})} :
           r \in rules}

RECURSIVE LeastModel(_, _)
LeastModel(rules, facts) ==
  LET more == facts \cup Consequences(rules, facts) IN
  IF more = facts THEN facts ELSE LeastModel(rules, more)

Model ==
  LET rules == {program.authored[i] : i \in Rules(program.authored)}
      depth == Depth
      model[k \in 0..Cardinality(Predicates)] ==
        LeastModel({r \in rules : depth[r.head.p] = k},
                   IF k = 0 THEN Authored(program.authored) ELSE model[k - 1])
  IN model[Cardinality(Predicates)]

\* queryBindingsWithProofRefs: the answers a query can have, the first rows it finds.
Answers(goals, facts) ==
  LET rows == {s.env : s \in Solutions(goals, 0, facts, {})}
  IN kSubset(Min({MaxRows, Cardinality(rows)}), rows)

-----------------------------------------------------------------------------
\* Evaluation ends with the model of the program, whatever the order in which
\* solutions are found, and the query has the answers it has in that model with full
\* closures, though seeded ones were evaluated (deriveDatabase, closure.ts).  Only a
\* program whose predicates depend on their own negation has none and is refused.
ModelReached ==
  /\ level = 0 /\ iterations = 0 => (status = "unstratifiable" <=> Circular)
  /\ status = "done" =>
       LET model == Model IN
       /\ {f \in db : f.p \notin Synthesized} = model
       /\ Answers(program.goals, db) = Answers(program.goals, WithClosures(model))
=============================================================================
