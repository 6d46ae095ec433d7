---------------------------- MODULE DatalogEngine ----------------------------
(***************************************************************************)
(* The Datalog engine (src/engine): closure predicates are expanded, the   *)
(* program is stratified, and the strata are evaluated semi-naively, one   *)
(* rule and one delta position at a time, recording for every derived      *)
(* fact what it was derived from.                                          *)
(*                                                                         *)
(* Relations are maps that are read while facts are added to them, in the  *)
(* order of insertion: a rule derives at least what follows from the facts *)
(* present when it starts, in any order, and any of what follows from the  *)
(* facts added meanwhile.  Comparisons and arithmetic filter environments  *)
(* and are left out; of the aggregates, count stands for all.  Programs    *)
(* are safe: a variable of a head or a negation occurs in a positive goal  *)
(* before it.  Constants that differ print differently.  How many          *)
(* candidates a rule visits depends on the order in which it finds them:   *)
(* the least and the most it can be are counted, and the limit on visits   *)
(* stops the evaluation somewhere between the two.                         *)
(***************************************************************************)
EXTENDS Integers, Sequences, FiniteSets, SequencesExt

CONSTANTS
  Programs,         \* the clauses and the goals that are evaluated
  Variables,        \* names of variables
  X, Y, Z,          \* the variables of synthesized rules
  Wildcard,
  Plus,             \* a predicate -> its name with the suffix _plus
  NoCount,          \* the rule is not an aggregate
  MaxFacts,         \* maxFacts
  MaxIterations,    \* maxIterations
  MaxAggregateRows, \* maxAggregateRows
  MaxVisits         \* maxCandidateVisits

IsSequence(s) == s \in Seq(ToSet(s))

ASSUME EngineAssumption ==
  /\ \A authored \in Programs :
       /\ IsSequence(authored.clauses) /\ IsSequence(authored.goals)
       /\ \A i \in DOMAIN authored.clauses : IsSequence(authored.clauses[i].body)
  /\ IsFiniteSet(DOMAIN Plus)
  /\ {MaxFacts, MaxIterations, MaxAggregateRows, MaxVisits} \subseteq Nat

VARIABLES
  program,    \* the expanded clauses and the goals
  status,     \* what is to be done, or the outcome
  level,      \* the stratum
  first,      \* this is its first round
  iterations,
  db, why,    \* the facts, and what each was derived from
  delta,      \* the facts of the round before
  newDelta,   \* the facts of this round
  agenda,     \* the rules left in this round, each with the goal that reads the delta
  base,       \* the facts there were when the first of the agenda began
  visits      \* the candidates visited by the rules before it: the least and the most

rounds == <<level, first, iterations, delta>>
derivation == <<db, why, newDelta>>
engineVars == <<program, status, rounds, derivation, agenda, base, visits>>

Negated(goal) == goal.not
Fact(clause) == clause.body = <<>>
Rules(clauses) == {i \in DOMAIN clauses : ~Fact(clauses[i])}
Aggregate(rule) == rule.count # NoCount

-----------------------------------------------------------------------------
(* closure.ts                                                                *)

Lit(p, x, y) == [p |-> p, args |-> <<x, y>>]
Goal(p, x, y) == [p |-> p, args |-> <<x, y>>, not |-> FALSE]
Clause(head, body) == [head |-> head, body |-> body, count |-> NoCount]

Ground(term) == term # Wildcard /\ term \notin Variables

\* closureBasePredicate: a program that defines the predicate itself wins.
ClosureBases(goal, clauses) ==
  {b \in DOMAIN Plus \ {Plus[c] : c \in DOMAIN Plus} :
     /\ Plus[b] = goal.p /\ Len(goal.args) = 2
     /\ \A i \in DOMAIN clauses : clauses[i].head.p # goal.p}

ClosureClauses(b) ==
  <<Clause(Lit(Plus[b], X, Y), <<Goal(b, X, Y)>>),
    Clause(Lit(Plus[b], X, Y), <<Goal(b, X, Z), Goal(Plus[b], Z, Y)>>)>>

SeededClauses(b, anchor, position) ==
  IF position = 0
  THEN <<Clause(Lit(Plus[b], anchor, Y), <<Goal(b, anchor, Y)>>),
         Clause(Lit(Plus[b], anchor, Y), <<Goal(Plus[b], anchor, Z), Goal(b, Z, Y)>>)>>
  ELSE <<Clause(Lit(Plus[b], X, anchor), <<Goal(b, X, anchor)>>),
         Clause(Lit(Plus[b], X, anchor), <<Goal(b, X, Z), Goal(Plus[b], Z, anchor)>>)>>

\* Mutation of Anchors: one anchor serves every reference to the predicate.
FirstAnchor(b, goals) ==
  LET references == {g \in goals : g.p = Plus[b] /\ Len(g.args) = 2}
      g == CHOOSE g \in references : TRUE
  IN IF references = {} THEN {}
     ELSE IF Ground(g.args[1]) THEN {<<0, g.args[1]>>}
     ELSE IF Ground(g.args[2]) THEN {<<1, g.args[2]>>} ELSE {}

\* The anchors of the references to b's closure: position and constant.
Anchors(b, goals) ==
  {<<0, g.args[1]>> : g \in {h \in goals : h.p = Plus[b] /\ Ground(h.args[1])}}
  \cup {<<1, g.args[2]>> : g \in {h \in goals : /\ h.p = Plus[b]
                                               /\ ~Ground(h.args[1]) /\ Ground(h.args[2])}}

\* expandClosurePredicates: a reference without constants needs the full closure.
Expanded(clauses, goals) ==
  LET references == ToSet(goals) \cup UNION {ToSet(clauses[i].body) : i \in DOMAIN clauses}
      bases == UNION {ClosureBases(g, clauses) : g \in references}
      full == {b \in bases : \E g \in references :
                 g.p = Plus[b] /\ ~Ground(g.args[1]) /\ ~Ground(g.args[2])}
      seeds == UNION {{<<b, anchor>> : anchor \in Anchors(b, references)} : b \in bases \ full}
  IN clauses \o FlattenSeq(SetToSeq({ClosureClauses(b) : b \in full}))
             \o FlattenSeq(SetToSeq({SeededClauses(s[1], s[2][2], s[2][1]) : s \in seeds}))

-----------------------------------------------------------------------------
(* stratify.ts                                                               *)

PredicatesOf(clauses) ==
  {clauses[i].head.p : i \in DOMAIN clauses}
  \cup UNION {{g.p : g \in ToSet(clauses[i].body)} : i \in DOMAIN clauses}

DependsOn(rule, goal) ==
  [head |-> rule.head.p, body |-> goal.p,
   strict |-> IF goal.not \/ Aggregate(rule) THEN 1 ELSE 0]

Dependencies(clauses) ==
  FlattenSeq([i \in DOMAIN clauses |->
    [j \in DOMAIN clauses[i].body |-> DependsOn(clauses[i], clauses[i].body[j])]])

Relax(strata, d) ==
  IF strata[d.head] < strata[d.body] + d.strict
  THEN [strata EXCEPT ![d.head] = strata[d.body] + d.strict]
  ELSE strata

\* A pass over the dependencies.
Relaxed(strata, dependencies) ==
  LET relaxed[n \in 0..Len(dependencies)] ==
        IF n = 0 THEN strata ELSE Relax(relaxed[n - 1], dependencies[n])
  IN relaxed[Len(dependencies)]

\* The strata after so many passes.
StrataAfter(clauses, passes) ==
  LET after[k \in 0..passes] ==
        IF k = 0 THEN [p \in PredicatesOf(clauses) |-> 0]
        ELSE Relaxed(after[k - 1], Dependencies(clauses))
  IN after[passes]

\* Mutation of Passes: one pass less.
PassesButOne(clauses) == Cardinality(PredicatesOf(clauses)) - 1

Passes(clauses) == Cardinality(PredicatesOf(clauses))

\* A program is refused if the last pass still changes something: StratificationError.
Stratifiable(clauses) ==
  \/ Passes(clauses) = 0
  \/ StrataAfter(clauses, Passes(clauses)) = StrataAfter(clauses, Passes(clauses) - 1)

\* What stratifyProgram returns.
Strata == program.strata
Evaluated == \A p \in DOMAIN Strata : Strata[p] < level

StratumRules == {i \in Rules(program.clauses) : Strata[program.clauses[i].head.p] = level}

-----------------------------------------------------------------------------
(* solveGoals and matchArgs of evaluate.ts: environments, the facts each is  *)
(* built from and the patterns that were absent.                             *)

Resolve(term, env) == IF term \in DOMAIN env THEN env[term] ELSE term

Bind(args, tuple, env) ==
  LET names == {args[i] : i \in DOMAIN args} \cap Variables
  IN [v \in DOMAIN env \cup names |->
        IF v \in DOMAIN env THEN env[v] ELSE tuple[CHOOSE i \in DOMAIN args : args[i] = v]]

Matches(args, tuple, env) ==
  /\ Len(args) = Len(tuple)
  /\ \A i \in DOMAIN args :
       Resolve(args[i], Bind(args, tuple, env)) \in {Wildcard, tuple[i]}

Substitute(args, env) == [i \in DOMAIN args |-> Resolve(args[i], env)]

Absent(pattern, facts) ==
  \A f \in facts : ~(f.p = pattern.p /\ Matches(pattern.args, f.args, <<>>))

\* relationCandidates: by the first argument, where it is known.
Candidates(solution, goal, facts) ==
  LET args == Substitute(goal.args, solution.env) IN
  {f \in facts : /\ f.p = goal.p /\ Len(f.args) = Len(goal.args)
                 /\ 1 \in DOMAIN args /\ Ground(args[1]) => f.args[1] = args[1]}

\* The ways a solution of the goals so far extends to the next goal.
Extensions(solution, goal, facts) ==
  LET pattern == [p |-> goal.p, args |-> Substitute(goal.args, solution.env)] IN
  IF Negated(goal)
  THEN {[env |-> solution.env, used |-> solution.used, absent |-> solution.absent \cup {missing}] :
          missing \in {missing \in {pattern} : Absent(missing, facts)}}
  ELSE {[env |-> Bind(goal.args, f.args, solution.env), used |-> Append(solution.used, f),
         absent |-> solution.absent] :
          f \in {f \in Candidates(solution, goal, facts) :
                    Matches(goal.args, f.args, solution.env)}}

\* The goal at `position` reads the delta, the others everything.
Reads(i, position, facts, deltaFacts) == IF i = position THEN deltaFacts ELSE facts

\* The solutions of the first n goals.
Partial(goals, n, position, facts, deltaFacts) ==
  LET solved[i \in 0..n] ==
        IF i = 0 THEN {[env |-> <<>>, used |-> <<>>, absent |-> {}]}
        ELSE UNION {Extensions(s, goals[i], Reads(i, position, facts, deltaFacts)) :
                      s \in solved[i - 1]}
  IN solved[n]

Solutions(goals, position, facts, deltaFacts) ==
  Partial(goals, Len(goals), position, facts, deltaFacts)

\* The visits to candidates: for each goal, each solution of those before it.
Visits(goals, position, facts, deltaFacts) ==
  UNION {UNION {{<<i, s>>} \X Candidates(s, goals[i], Reads(i, position, facts, deltaFacts)) :
                  s \in Partial(goals, i - 1, position, facts, deltaFacts)} : i \in DOMAIN goals}

\* Of them, those not saved where a negation ends at its first match.
Inevitable(goals, visited) ==
  {v \in visited :
     LET goal == goals[v[1][1]]
         args == Substitute(goal.args, v[1][2].env)
     IN Negated(goal) => \A w \in visited : w[1] = v[1] => ~Matches(args, w[2].args, <<>>)}

Derived(rule, solution) ==
  [p |-> rule.head.p, args |-> Substitute(rule.head.args, solution.env)]

Proof(solution) == [uses |-> ToSet(solution.used), absent |-> solution.absent]

\* deriveAggregateRuleEntries: a group without variables has an entry though its
\* count is 0.
GroupArgs(rule) == [i \in DOMAIN rule.head.args |->
                      IF rule.head.args[i] = rule.count THEN Wildcard ELSE rule.head.args[i]]
Groups(rule, facts) ==
  {Substitute(GroupArgs(rule), s.env) : s \in Solutions(rule.body, 0, facts, {})}
  \cup (IF ToSet(GroupArgs(rule)) \cap Variables = {} THEN {GroupArgs(rule)} ELSE {})
Rows(rule, group, facts) ==
  {s \in Solutions(rule.body, 0, facts, {}) : Substitute(GroupArgs(rule), s.env) = group}
Counted(rule, facts) ==
  {[p |-> rule.head.p,
    args |-> [i \in DOMAIN group |->
                IF rule.head.args[i] = rule.count
                THEN Cardinality(Rows(rule, group, facts)) ELSE group[i]]] :
     group \in Groups(rule, facts)}

-----------------------------------------------------------------------------
(* deriveDatabase                                                            *)

Authored(clauses) == {clauses[i].head : i \in {j \in DOMAIN clauses : Fact(clauses[j])}}

EngineInit ==
  /\ \E authored \in Programs :
       LET clauses == Expanded(authored.clauses, authored.goals) IN
       program = [clauses |-> clauses, strata |-> StrataAfter(clauses, Passes(clauses)),
                  authored |-> authored.clauses, goals |-> authored.goals]
  /\ db = Authored(program.clauses)
  /\ why = [f \in db |-> [uses |-> {}, absent |-> {}]]
  /\ status = IF ~Stratifiable(program.clauses) THEN "unstratifiable"
              ELSE IF Cardinality(db) > MaxFacts THEN "limit" ELSE "stratum"
  /\ level = 0 /\ first = TRUE /\ iterations = 0
  /\ delta = {} /\ newDelta = {}
  /\ agenda = {} /\ base = {}
  /\ visits = [least |-> 0, most |-> 0]

NextStratum ==
  /\ status = "stratum"
  /\ UNCHANGED <<program, iterations, derivation, agenda, base, visits>>
  /\ IF Evaluated
     THEN status' = "done" /\ UNCHANGED <<level, first, delta>>
     ELSE IF StratumRules = {}
     THEN level' = level + 1 /\ UNCHANGED <<status, first, delta>>
     ELSE /\ delta' = db /\ first' = TRUE
          /\ status' = "round"
          /\ UNCHANGED level

PositiveGoals(rule) == {i \in DOMAIN rule.body : ~Negated(rule.body[i])}

\* The goals that read the delta, one after the other; 0 stands for none.
DeltaGoals(rule) ==
  IF Aggregate(rule) \/ PositiveGoals(rule) = {} THEN {0} ELSE PositiveGoals(rule)

Positions(rule) == IF first THEN DeltaGoals(rule) ELSE DeltaGoals(rule) \ {0}

RoundSteps == UNION {{i} \X Positions(program.clauses[i]) : i \in StratumRules}

\* The rules are taken in the order of the program, their goals in that of the body.
Earlier(s, t) == s[1] < t[1] \/ (s[1] = t[1] /\ s[2] < t[2])
Current == CHOOSE s \in agenda : \A t \in agenda \ {s} : Earlier(s, t)
Rule == program.clauses[Current[1]]
Position == Current[2]

NextRound ==
  /\ status = "round"
  /\ UNCHANGED <<program, first, delta, db, why, visits>>
  /\ IF ~first /\ delta = {}
     THEN /\ status' = "stratum" /\ level' = level + 1
          /\ UNCHANGED <<iterations, newDelta, agenda, base>>
     ELSE /\ iterations' = iterations + 1
          /\ newDelta' = {}
          /\ base' = db
          /\ agenda' = RoundSteps
          /\ status' = IF iterations' > MaxIterations THEN "limit" ELSE "rules"
          /\ UNCHANGED level

\* Mutation of Known: a fact that is known is added again.
KnownNever(f) == FALSE

\* addTuple adds no fact twice: the first proof stays.
Known(f) == f \in db

Explained(facts, proof) ==
  [f \in db \cup facts |-> IF f \in facts THEN proof ELSE why[f]]

\* The first delta is a copy of the map of relations: it shares those there are.
Add(facts, proof) ==
  /\ db' = db \cup facts
  /\ why' = Explained(facts, proof)
  /\ newDelta' = newDelta \cup facts
  /\ delta' = IF first THEN delta \cup {f \in facts : \E g \in delta : g.p = f.p} ELSE delta
  /\ status' = IF Cardinality(db') > MaxFacts THEN "limit" ELSE status

Derive ==
  /\ status = "rules" /\ agenda # {} /\ ~Aggregate(Rule)
  /\ \E s \in Solutions(Rule.body, Position, db, delta) :
       /\ ~Known(Derived(Rule, s))
       /\ Add({Derived(Rule, s)}, Proof(s))
  /\ UNCHANGED <<program, level, first, iterations, agenda, base, visits>>

\* The rule has visited all there was when it began, and not more than there is now.
VisitAll ==
  LET sure == Inevitable(Rule.body, Visits(Rule.body, Position, base, delta \cap base)) IN
  /\ visits' = [least |-> visits.least + Cardinality(sure),
                most |-> visits.most + Cardinality(Visits(Rule.body, Position, db, delta))]
  /\ visits'.least <= MaxVisits

\* visitCandidate: the visits are used up.
VisitTooMany ==
  /\ status = "rules" /\ agenda # {}
  /\ visits.most + Cardinality(Visits(Rule.body, Position, db, delta)) > MaxVisits
  /\ status' = "limit"
  /\ UNCHANGED <<program, rounds, derivation, agenda, base, visits>>

\* Everything that followed when the position began has been derived.
NextPosition ==
  /\ status = "rules" /\ agenda # {} /\ ~Aggregate(Rule)
  /\ \A s \in Solutions(Rule.body, Position, base, delta \cap base) :
       Derived(Rule, s) \in db
  /\ VisitAll
  /\ agenda' = agenda \ {Current} /\ base' = db
  /\ UNCHANGED <<program, status, rounds, derivation>>

CountRows ==
  /\ status = "rules" /\ agenda # {} /\ Aggregate(Rule)
  /\ VisitAll
  /\ agenda' = agenda \ {Current}
  /\ LET counted == {f \in Counted(Rule, db) : ~Known(f)}
     IN IF Cardinality(Solutions(Rule.body, 0, db, {})) > MaxAggregateRows
        THEN status' = "limit" /\ UNCHANGED <<derivation, delta, base>>
        ELSE /\ Add(counted, [uses |-> {}, absent |-> {}])
             /\ base' = db'
  /\ UNCHANGED <<program, level, first, iterations>>

\* Mutation of EndRound: the deltas accumulate.
EndRoundAccumulating ==
  /\ status = "rules" /\ agenda = {}
  /\ delta' = delta \cup newDelta /\ first' = FALSE
  /\ status' = "round"
  /\ UNCHANGED <<program, level, iterations, derivation, agenda, base, visits>>

EndRound ==
  /\ status = "rules" /\ agenda = {}
  /\ delta' = newDelta /\ first' = FALSE
  /\ status' = "round"
  /\ UNCHANGED <<program, level, iterations, derivation, agenda, base, visits>>

EngineNext ==
  NextStratum \/ NextRound \/ Derive \/ VisitTooMany \/ NextPosition \/ CountRows \/ EndRound

EngineSpec == EngineInit /\ [][EngineNext]_engineVars

-----------------------------------------------------------------------------
EngineTypeOK ==
  /\ status \in {"stratum", "round", "rules", "done", "limit", "unstratifiable"}
  /\ level \in Nat /\ iterations \in Nat
  /\ IsFiniteSet(db) /\ DOMAIN why = db
  /\ delta \subseteq db /\ newDelta \subseteq db /\ base \subseteq db
  /\ first \in BOOLEAN
  /\ visits \in [least : Nat, most : Nat]

\* The stratifications of a program: a rule reads no stratum above its own, and
\* negates and counts only what is below.
Stratifications(clauses) ==
  LET predicates == PredicatesOf(clauses) IN
  {rank \in [predicates -> 0..Cardinality(predicates)] :
     \A d \in ToSet(Dependencies(clauses)) : rank[d.head] >= rank[d.body] + d.strict}

\* A program is refused exactly when it has no stratification, and is otherwise given
\* the least one: as many passes as predicates find it (stratifyProgram).
StrataLeast ==
  level = 0 /\ iterations = 0 =>
    LET ranks == Stratifications(program.clauses) IN
    /\ status = "unstratifiable" <=> ranks = {}
    /\ ranks # {} => Strata \in ranks /\ \A rank \in ranks : \A p \in DOMAIN rank : Strata[p] <= rank[p]

\* A rule derives f from the facts there are, and by the proof recorded for it.
Follows(f) ==
  \E i \in Rules(program.clauses) :
    LET rule == program.clauses[i] IN
    IF Aggregate(rule) THEN f \in Counted(rule, db)
    ELSE \E s \in Solutions(rule.body, 0, db, {}) : Derived(rule, s) = f /\ why[f] = Proof(s)

\* The proof of a fact stays one: it is an instance of a rule that still derives it,
\* it leads to the facts of the program and never back to what it proves, so that
\* printing it ends, and what it found absent is never added (addTuple keeps the
\* first proof, solveGoals, the order of the strata).
ProofsGrounded ==
  LET grounded[k \in 0..Cardinality(db)] ==
        IF k = 0 THEN {f \in db : why[f].uses = {}}
        ELSE LET before == grounded[k - 1] IN {f \in db : why[f].uses \subseteq before}
  IN /\ grounded[Cardinality(db)] = db
     /\ \A f \in db : \A pattern \in why[f].absent : Absent(pattern, db)
     /\ \A f \in db : f \in Authored(program.clauses) \/ Follows(f)

\* What a round visits at most: each rule of the strata so far reads all facts, once
\* for each of its goals that read the delta.
Work ==
  LET rules == {i \in Rules(program.clauses) : Strata[program.clauses[i].head.p] <= level}
      steps == UNION {{i} \X DeltaGoals(program.clauses[i]) : i \in rules}
  IN UNION {{step} \X Visits(program.clauses[step[1]].body, 0, db, {}) : step \in steps}

\* The limits are hit only by programs with that much to derive, to count or to visit:
\* every iteration but a stratum's last adds a fact, and none visits more than its
\* rules have to (deriveDatabase, visitCandidate).
LimitsDeserved ==
  status = "limit" =>
    \/ Cardinality(db) > MaxFacts
    \/ Cardinality(db \ Authored(program.clauses)) + level >= MaxIterations
    \/ \E i \in DOMAIN program.clauses :
         Cardinality(Solutions(program.clauses[i].body, 0, db, {})) > MaxAggregateRows
    \/ iterations * Cardinality(Work) > MaxVisits
=============================================================================
