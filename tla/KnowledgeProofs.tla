--------------------------- MODULE KnowledgeProofs ---------------------------
(***************************************************************************)
(* What is kept and what follows from it.                                  *)
(*                                                                         *)
(* The promises of the atomic store, for all calls, namespaces, clauses    *)
(* and constraints, and the types of the lock that makes a call one step.  *)
(* Of the lock nothing more is claimed: every waiter reclaims, so it does  *)
(* not exclude in all cases (MCFileLock, run lock_exclusion), and what it  *)
(* guarantees otherwise is liveness, which stays with TLC.                 *)
(*                                                                         *)
(* The Datalog engine, for all programs, limits and orders in which        *)
(* solutions are found: its strata are the least, its limits deserved, its *)
(* proofs grounded, and what it ends with is the model of the program.     *)
(***************************************************************************)
EXTENDS KnowledgeStore, FileLock, DatalogEngine, StoreOperationsProofs, FiniteSetTheorems,
        FunctionTheorems, TLAPS

LEMMA AtomicTypes == TypeOK /\ [Next]_vars => TypeOK'
<1> SUFFICES ASSUME TypeOK, [Next]_vars PROVE TypeOK'
  OBVIOUS
<1>1. ASSUME NEW req \in Requests, Change(req) PROVE TypeOK'
  <2>1. Candidate(req, kb[req.ns]) \in SUBSET Clauses
    BY RequestFields, EffectTypes DEF TypeOK, Knowledge
  <2>2. EntryOf(req, kb, log) \in Entry
    BY EntryTypes DEF TypeOK
  <2>3. kb' \in Knowledge
    BY <1>1, <2>1 DEF Change, TypeOK, Knowledge
  <2>4. log' \in Seq(Entry)
    BY <1>1, <2>2 DEF Change, TypeOK
  <2> QED BY <2>3, <2>4 DEF TypeOK
<1>2. ASSUME NEW req \in Requests, Record(req) PROVE TypeOK'
  <2>1. EntryOf(req, kb, log) \in Entry
    BY EntryTypes DEF TypeOK
  <2> QED BY <1>2, <2>1 DEF Record, TypeOK
<1>3. ASSUME NEW n \in Namespaces, Note(n) PROVE TypeOK'
  <2>1. NoteEntry(n, log) \in Entry
    BY NoteTypes DEF TypeOK
  <2> QED BY <1>3, <2>1 DEF Note, TypeOK
<1>4. CASE UNCHANGED vars BY <1>4 DEF vars, TypeOK
<1> QED BY <1>1, <1>2, <1>3, <1>4 DEF Next

LEMMA InitTypes == Init => TypeOK
BY DEF Init, TypeOK, Knowledge

\* Every namespace holds clauses, and every journal line is an entry.
THEOREM StoreTypes == Spec => []TypeOK
BY InitTypes, AtomicTypes, PTL DEF Spec

\* The uniqueness of ids in the state is that of the journal.
LEMMA AppendKeepsOnce ==
  ASSUME TypeOK, OncePerOperation, NEW e \in Entry, NewOperation(e, log),
         log' = Append(log, e)
  PROVE  OncePerOperation'
<1>1. UniqueOperations(Append(log, e))
  BY AppendKeepsUnique DEF TypeOK, OncePerOperation, UniqueOperations
<1> QED BY <1>1 DEF OncePerOperation, UniqueOperations

\* Whatever is called and retried, no caller-supplied id takes effect twice for
\* an operation on a namespace.
THEOREM OperationsHappenOnce == Spec => []OncePerOperation
<1> DEFINE Inv == TypeOK /\ OncePerOperation
<1>1. Init => Inv
  BY InitTypes DEF Init, OncePerOperation
<1>2. Inv /\ [Next]_vars => Inv'
  <2> SUFFICES ASSUME Inv, [Next]_vars PROVE OncePerOperation'
    BY AtomicTypes
  <2>1. ASSUME NEW req \in Requests, Change(req) \/ Record(req) PROVE OncePerOperation'
    <3>1. Outcome(req, kb, log) \in {"change", "record"} /\ log' = Append(log, EntryOf(req, kb, log))
      BY <2>1 DEF Change, Record
    <3>2. EntryOf(req, kb, log) \in Entry /\ NewOperation(EntryOf(req, kb, log), log)
      BY <3>1, EntryTypes, DecidedIsNew DEF TypeOK
    <3> QED BY <3>1, <3>2, AppendKeepsOnce
  <2>2. ASSUME NEW n \in Namespaces, Note(n) PROVE OncePerOperation'
    <3>1. /\ log' = Append(log, NoteEntry(n, log)) /\ NoteEntry(n, log) \in Entry
          /\ NoteEntry(n, log).id \in Nat
      BY <2>2, NoteTypes DEF Note, TypeOK
    <3>2. NewOperation(NoteEntry(n, log), log)
      BY <3>1, OperationsAssumption DEF NewOperation
    <3> QED BY <3>1, <3>2, AppendKeepsOnce
  <2>3. CASE UNCHANGED vars BY <2>3 DEF vars, OncePerOperation
  <2> QED BY <2>1, <2>2, <2>3 DEF Next
<1>3. Inv => OncePerOperation
  OBVIOUS
<1> QED BY <1>1, <1>2, <1>3, PTL DEF Spec
-----------------------------------------------------------------------------
\* When every call is checked against all namespaces, the store never holds the
\* clauses of a violation, not even spread over namespaces.
THEOREM IntegrityHolds == Spec => []IntegrityKept
<1> DEFINE Sound == EveryCallChecked => Violations(kb, Namespaces) = {}
           Inv == TypeOK /\ Sound
<1>1. Init => Inv
  BY InitTypes, NothingViolated DEF Init
<1>2. Inv /\ [Next]_vars => Inv'
  <2> SUFFICES ASSUME Inv, [Next]_vars, EveryCallChecked
               PROVE  Violations(kb', Namespaces) = {}
    BY AtomicTypes DEF Violations, EveryCallChecked
  <2>1. ASSUME NEW req \in Requests, Change(req) PROVE Violations(kb', Namespaces) = {}
    <3>1. ~NoEffect(req, kb[req.ns]) /\ ~Rejected(req, kb)
      BY <2>1 DEF Change, Outcome
    <3> QED BY <2>1, <3>1, AcceptedIsSound DEF Change
  <2>2. CASE kb' = kb
    BY <2>2
  <2> QED BY <2>1, <2>2 DEF Next, Record, Note, vars
<1>3. Inv => IntegrityKept
  BY DEF IntegrityKept, EveryCallChecked
<1> QED BY <1>1, <1>2, <1>3, PTL DEF Spec
-----------------------------------------------------------------------------
\* The journal and the clauses never tell different stories: replaying the
\* journal gives every namespace as it is stored.
THEOREM JournalTellsAll == Spec => []KnowledgeIsReplay
<1> DEFINE Inv == TypeOK /\ KnowledgeIsReplay
<1>1. Init => Inv
  BY InitTypes, ReplayEmpty DEF Init, KnowledgeIsReplay
<1>2. Inv /\ [Next]_vars => Inv'
  <2> SUFFICES ASSUME Inv, [Next]_vars PROVE KnowledgeIsReplay'
    BY AtomicTypes
  <2>0. KnowledgeIsReplay <=> ReplayMatches(kb, log)
    BY DEF KnowledgeIsReplay, ReplayMatches
  <2>1. ASSUME NEW req \in Requests, Change(req) PROVE ReplayMatches(kb', log')
    BY <2>0, <2>1, ChangeMatches DEF Change, TypeOK
  <2>2. ASSUME NEW req \in Requests, Record(req) PROVE ReplayMatches(kb', log')
    <3>1. EntryOf(req, kb, log) \in Entry /\ ~Effective(EntryOf(req, kb, log))
      BY <2>2, EntryTypes, RecordIsIneffective DEF Record, TypeOK
    <3> QED BY <2>0, <2>2, <3>1, IneffectiveMatches DEF Record, TypeOK
  <2>3. ASSUME NEW n \in Namespaces, Note(n) PROVE ReplayMatches(kb', log')
    <3>1. NoteEntry(n, log) \in Entry /\ ~Effective(NoteEntry(n, log))
      BY NoteTypes DEF TypeOK
    <3> QED BY <2>0, <2>3, <3>1, IneffectiveMatches DEF Note, TypeOK
  <2>4. CASE UNCHANGED vars BY <2>4 DEF vars, KnowledgeIsReplay
  <2> QED
    BY <2>1, <2>2, <2>3, <2>4 DEF Next, KnowledgeIsReplay, ReplayMatches
<1>3. Inv => KnowledgeIsReplay
  OBVIOUS
<1> QED BY <1>1, <1>2, <1>3, PTL DEF Spec
-----------------------------------------------------------------------------
(* The lock.                                                                 *)

(* Every step keeps the variables in their types.                          *)
LEMMA LockTypeStep == LockTypeOK /\ [LockNext]_lockVars => LockTypeOK'
<1> SUFFICES ASSUME LockTypeOK, [LockNext]_lockVars PROVE LockTypeOK'
  OBVIOUS
<1> USE FileLockAssumption DEF LockTypeOK, Steps, Goto
<1>1. ASSUME NEW p \in Procs, Call(p) PROVE LockTypeOK'
  BY <1>1 DEF Call
<1>2. ASSUME NEW p \in Procs, Protocol(p) PROVE LockTypeOK'
  <2>1. CASE Create(p) BY <2>1 DEF Create
  <2>2. CASE CreateExists(p) BY <2>2 DEF CreateExists
  <2>3. CASE Stamp(p) BY <2>3 DEF Stamp
  <2>4. CASE StampFails(p) BY <2>4 DEF StampFails
  <2>5. CASE Look(p) BY <2>5 DEF Look, Retry
  <2>6. CASE JudgeOwner(p) BY <2>6 DEF JudgeOwner
  <2>7. CASE Reclaim(p) BY <2>7 DEF Reclaim, Retry
  <2>8. CASE GiveUpOrRetry(p) BY <2>8 DEF GiveUpOrRetry
  <2>9. CASE Compare(p) BY <2>9 DEF Compare
  <2>10. CASE Unlink(p) BY <2>10 DEF Unlink
  <2> QED BY <1>2, <2>1, <2>2, <2>3, <2>4, <2>5, <2>6, <2>7, <2>8, <2>9, <2>10
          DEF Protocol
<1>3. ASSUME NEW p \in Procs, Leave(p) PROVE LockTypeOK'
  BY <1>3 DEF Leave
<1>4. ASSUME NEW p \in Procs, Crash(p) PROVE LockTypeOK'
  BY <1>4 DEF Crash
<1>5. ASSUME NEW p \in Procs, Expire(p) PROVE LockTypeOK'
  BY <1>5 DEF Expire
<1>6. CASE Age BY <1>6 DEF Age
<1>7. CASE UNCHANGED lockVars BY <1>7 DEF lockVars
<1> QED BY <1>1, <1>2, <1>3, <1>4, <1>5, <1>6, <1>7 DEF LockNext

\* The variables of the lock keep their types in both copies of the code,
\* whichever processes are killed, reclaim each other's files or outlast the
\* age at which a lock counts as stale.
THEOREM LockTypes == LockSpec => []LockTypeOK
<1>1. LockInit => LockTypeOK
  BY FileLockAssumption DEF LockInit, LockTypeOK, Steps
<1> QED BY <1>1, LockTypeStep, PTL DEF LockSpec
-----------------------------------------------------------------------------
(* Solutions.                                                                *)

Start == [env |-> <<>>, used |-> <<>>, absent |-> {}]

\* The solutions v of the goals before the n-th, extended to that one.
SolveStep(goals, position, facts, deltaFacts, v, n) ==
  UNION {Extensions(s, goals[n], Reads(n, position, facts, deltaFacts)) : s \in v}

\* f is the function that Solutions builds, up to goal m.
IsSolving(f, goals, position, facts, deltaFacts, m) ==
  f = [n \in 0..m |-> IF n = 0 THEN {Start}
                      ELSE SolveStep(goals, position, facts, deltaFacts, f[n - 1], n)]

LEMMA SolvingExists ==
  ASSUME NEW goals, NEW position, NEW F, NEW D, NEW m \in Nat
  PROVE  \E f : IsSolving(f, goals, position, F, D, m)
<1> DEFINE K == {k \in Nat : \E f : IsSolving(f, goals, position, F, D, k)}
           step(v, n) == SolveStep(goals, position, F, D, v, n)
<1>1. 0 \in K
  <2>1. IsSolving([k \in 0..0 |-> {Start}], goals, position, F, D, 0)
    BY DEF IsSolving
  <2> QED BY <2>1
<1>2. ASSUME NEW k \in Nat, k \in K PROVE k + 1 \in K
  <2>1. PICK f : IsSolving(f, goals, position, F, D, k)
    BY <1>2
  <2> DEFINE g == [i \in 0..(k + 1) |-> IF i = k + 1 THEN step(f[k], k + 1) ELSE f[i]]
             h == [i \in 0..(k + 1) |-> IF i = 0 THEN {Start} ELSE step(g[i - 1], i)]
  <2>2. f = [n \in 0..k |-> IF n = 0 THEN {Start} ELSE step(f[n - 1], n)]
    BY <2>1 DEF IsSolving
  <2>3. ASSUME NEW i \in 0..(k + 1) PROVE g[i] = h[i]
    <3> HIDE DEF step
    <3>1. CASE i = 0
      BY <2>2, <3>1
    <3>2. CASE i = k + 1
      <4>1. k \in 0..(k + 1) /\ k # k + 1
        OBVIOUS
      <4>2. g[i] = step(f[k], k + 1) /\ g[k] = f[k]
        BY <3>2, <4>1
      <4>3. h[i] = step(g[k], k + 1)
        BY <3>2
      <4> QED BY <4>2, <4>3
    <3>3. CASE i # 0 /\ i # k + 1
      <4>1. i \in 0..k /\ i - 1 \in 0..k /\ i - 1 # k + 1 /\ i - 1 \in 0..(k + 1)
        BY <3>3
      <4>2. g[i] = f[i] /\ g[i - 1] = f[i - 1]
        BY <3>3, <4>1
      <4>3. f[i] = step(f[i - 1], i)
        BY <2>2, <4>1, <3>3
      <4> QED BY <4>2, <4>3, <3>3
    <3> QED BY <3>1, <3>2, <3>3
  <2>4. g = h
    <3> HIDE DEF g
    <3>1. g = [i \in 0..(k + 1) |-> g[i]] BY DEF g
    <3> QED BY <2>3, <3>1
  <2>5. IsSolving(g, goals, position, F, D, k + 1)
    <3> HIDE DEF g
    <3> QED BY <2>4 DEF IsSolving
  <2> QED BY <2>5
<1> HIDE DEF K
<1>3. Nat \subseteq K
  BY <1>1, <1>2, Induction
<1> QED BY <1>3 DEF K

LEMMA PartialIsSolving ==
  ASSUME NEW goals, NEW position, NEW F, NEW D, NEW m \in Nat
  PROVE  \E f : IsSolving(f, goals, position, F, D, m) /\ Partial(goals, m, position, F, D) = f[m]
<1> DEFINE f == CHOOSE g : IsSolving(g, goals, position, F, D, m)
<1>1. IsSolving(f, goals, position, F, D, m)
  <2>1. \E g : IsSolving(g, goals, position, F, D, m)
    BY SolvingExists
  <2> QED BY <2>1
<1>2. Partial(goals, m, position, F, D) = f[m]
  BY DEF Partial, IsSolving, SolveStep, Start, Reads
<1> QED BY <1>1, <1>2

LEMMA SolvingsAgree ==
  ASSUME NEW goals, NEW position, NEW F, NEW D, NEW m \in Nat, NEW n \in Nat, m <= n,
         NEW f, IsSolving(f, goals, position, F, D, m),
         NEW g, IsSolving(g, goals, position, F, D, n)
  PROVE  f[m] = g[m]
<1> DEFINE K == {k \in Nat : k <= m => f[k] = g[k]}
<1>1. 0 \in K
  BY DEF IsSolving
<1>2. ASSUME NEW k \in Nat, k \in K PROVE k + 1 \in K
  <2>1. CASE k + 1 <= m
    <3>1. k + 1 \in 0..m /\ k + 1 \in 0..n /\ (k + 1) - 1 = k /\ k + 1 # 0 /\ k <= m
      BY <2>1
    <3>2. /\ f[k + 1] = SolveStep(goals, position, F, D, f[(k + 1) - 1], k + 1)
          /\ g[k + 1] = SolveStep(goals, position, F, D, g[(k + 1) - 1], k + 1)
      BY <3>1 DEF IsSolving
    <3> QED BY <1>2, <3>1, <3>2
  <2> QED BY <2>1
<1> HIDE DEF K
<1>3. Nat \subseteq K
  BY <1>1, <1>2, Induction
<1> QED BY <1>3 DEF K

LEMMA PartialSteps ==
  ASSUME NEW goals, NEW position, NEW F, NEW D
  PROVE  /\ Partial(goals, 0, position, F, D) = {Start}
         /\ \A n \in Nat : Partial(goals, n + 1, position, F, D)
              = SolveStep(goals, position, F, D, Partial(goals, n, position, F, D), n + 1)
<1>1. Partial(goals, 0, position, F, D) = {Start}
  <2>1. PICK f : IsSolving(f, goals, position, F, D, 0) /\ Partial(goals, 0, position, F, D) = f[0]
    BY PartialIsSolving
  <2> QED BY <2>1 DEF IsSolving
<1>2. ASSUME NEW n \in Nat
      PROVE  Partial(goals, n + 1, position, F, D)
               = SolveStep(goals, position, F, D, Partial(goals, n, position, F, D), n + 1)
  <2>1. PICK f : IsSolving(f, goals, position, F, D, n) /\ Partial(goals, n, position, F, D) = f[n]
    BY PartialIsSolving
  <2>2. PICK g : IsSolving(g, goals, position, F, D, n + 1)
                 /\ Partial(goals, n + 1, position, F, D) = g[n + 1]
    BY PartialIsSolving
  <2>3. f[n] = g[n]
    BY <2>1, <2>2, SolvingsAgree
  <2>4. n + 1 \in 0..(n + 1) /\ n + 1 # 0 /\ (n + 1) - 1 = n
    OBVIOUS
  <2>5. g[n + 1] = SolveStep(goals, position, F, D, g[(n + 1) - 1], n + 1)
    BY <2>2, <2>4 DEF IsSolving
  <2> QED BY <2>1, <2>2, <2>3, <2>4, <2>5
<1> QED BY <1>1, <1>2

\* What the goals so far found absent, and the fact that extends a solution of them.
Pattern(goal, s) == [p |-> goal.p, args |-> Substitute(goal.args, s.env)]
Missing(goal, s) ==
  [env |-> s.env, used |-> s.used, absent |-> s.absent \cup {Pattern(goal, s)}]
Fitting(goal, s, f) == f.p = goal.p /\ Matches(goal.args, f.args, s.env)
With(goal, s, f) ==
  [env |-> Bind(goal.args, f.args, s.env), used |-> Append(s.used, f), absent |-> s.absent]

\* What fits is a candidate: the index by the first argument hides no fact.
LEMMA FittingCandidate ==
  ASSUME NEW goal, NEW s, NEW F, NEW f \in F, Fitting(goal, s, f)
  PROVE  f \in Candidates(s, goal, F)
<1> DEFINE args == Substitute(goal.args, s.env)
           env == Bind(goal.args, f.args, s.env)
<1>1. /\ f.p = goal.p /\ Len(goal.args) = Len(f.args)
      /\ \A i \in DOMAIN goal.args : Resolve(goal.args[i], env) \in {Wildcard, f.args[i]}
  BY DEF Fitting, Matches
<1>2. DOMAIN args = DOMAIN goal.args /\ \A i \in DOMAIN args : args[i] = Resolve(goal.args[i], s.env)
  BY DEF Substitute
<1>3. ASSUME 1 \in DOMAIN args, Ground(args[1]) PROVE f.args[1] = args[1]
  <2> DEFINE a == goal.args[1]
  <2>1. args[1] = Resolve(a, s.env) /\ Resolve(a, env) \in {Wildcard, f.args[1]}
    BY <1>1, <1>2, <1>3
  <2>2. args[1] # Wildcard /\ args[1] \notin Variables
    BY <1>3 DEF Ground
  <2>3. CASE a \in DOMAIN s.env
    <3>1. a \in DOMAIN env /\ env[a] = s.env[a]
      BY <2>3 DEF Bind
    <3>2. Resolve(a, env) = Resolve(a, s.env)
      BY <2>3, <3>1 DEF Resolve
    <3> QED BY <2>1, <2>2, <3>2
  <2>4. CASE a \notin DOMAIN s.env
    <3>1. args[1] = a
      BY <2>1, <2>4 DEF Resolve
    <3>2. a \notin DOMAIN env
      BY <2>2, <2>4, <3>1 DEF Bind
    <3>3. Resolve(a, env) = a
      BY <3>2 DEF Resolve
    <3> QED BY <2>1, <2>2, <3>1, <3>3
  <2> QED BY <2>3, <2>4
<1> QED BY <1>1, <1>3 DEF Candidates

LEMMA ExtensionOf ==
  ASSUME NEW goal, NEW s, NEW F, NEW e
  PROVE  /\ Negated(goal) => (e \in Extensions(s, goal, F)
                                <=> Absent(Pattern(goal, s), F) /\ e = Missing(goal, s))
         /\ ~Negated(goal) => (e \in Extensions(s, goal, F)
                                 <=> \E f \in F : Fitting(goal, s, f) /\ e = With(goal, s, f))
<1>1. ASSUME NEW f, Fitting(goal, s, f), f \in F PROVE f \in Candidates(s, goal, F)
  BY <1>1, FittingCandidate
<1>2. ASSUME NEW f \in Candidates(s, goal, F) PROVE f \in F /\ f.p = goal.p
  BY DEF Candidates
<1>3. ~Negated(goal) =>
        (e \in Extensions(s, goal, F)
           <=> \E f \in Candidates(s, goal, F) : Matches(goal.args, f.args, s.env) /\ e = With(goal, s, f))
  BY DEF Extensions, With
<1>4. Negated(goal) => (e \in Extensions(s, goal, F)
                          <=> Absent(Pattern(goal, s), F) /\ e = Missing(goal, s))
  BY DEF Extensions, Pattern, Missing
<1> QED BY <1>1, <1>2, <1>3, <1>4 DEF Fitting

\* A solution of n + 1 goals is one of n goals, extended.
LEMMA PartialMember ==
  ASSUME NEW goals, NEW position, NEW F, NEW D, NEW n \in Nat, NEW e
  PROVE  e \in Partial(goals, n + 1, position, F, D) <=>
           \E s \in Partial(goals, n, position, F, D) :
             e \in Extensions(s, goals[n + 1], Reads(n + 1, position, F, D))
<1>1. Partial(goals, n + 1, position, F, D)
        = SolveStep(goals, position, F, D, Partial(goals, n, position, F, D), n + 1)
  BY PartialSteps
<1> QED BY <1>1 DEF SolveStep

\* What the solutions of n goals are built from, and what they found absent.
Sound(s, goals, n, position, facts, deltaFacts) ==
  /\ s.used \in Seq(facts \cup deltaFacts)
  /\ \A pattern \in s.absent : \E i \in 1..n :
       /\ Negated(goals[i]) /\ pattern.p = goals[i].p
       /\ i # position => Absent(pattern, facts)
  /\ \A x \in ToSet(s.used) : \E i \in 1..n : ~Negated(goals[i]) /\ x.p = goals[i].p

LEMMA MembersAppend ==
  ASSUME NEW S, NEW u \in Seq(S), NEW f
  PROVE  ToSet(Append(u, f)) = ToSet(u) \cup {f}
<1>1. /\ DOMAIN Append(u, f) = 1..(Len(u) + 1) /\ DOMAIN u = 1..Len(u) /\ Len(u) \in Nat
      /\ Append(u, f)[Len(u) + 1] = f
      /\ \A i \in 1..Len(u) : Append(u, f)[i] = u[i]
  OBVIOUS
<1>2. 1..(Len(u) + 1) = 1..Len(u) \cup {Len(u) + 1}
  BY <1>1
<1> QED BY <1>1, <1>2 DEF ToSet

LEMMA PartialSound ==
  ASSUME NEW goals, NEW position, NEW F, NEW D, NEW m \in Nat, NEW e \in Partial(goals, m, position, F, D)
  PROVE  Sound(e, goals, m, position, F, D)
<1> DEFINE K == {n \in Nat : \A s \in Partial(goals, n, position, F, D) : Sound(s, goals, n, position, F, D)}
<1>1. 0 \in K
  <2>1. Partial(goals, 0, position, F, D) = {Start}
    BY PartialSteps
  <2>2. Sound(Start, goals, 0, position, F, D)
    BY DEF Start, Sound, ToSet
  <2> QED BY <2>1, <2>2
<1>2. ASSUME NEW n \in Nat, n \in K PROVE n + 1 \in K
  <2> SUFFICES ASSUME NEW g \in Partial(goals, n + 1, position, F, D)
               PROVE  Sound(g, goals, n + 1, position, F, D)
    OBVIOUS
  <2>1. PICK s \in Partial(goals, n, position, F, D) :
          g \in Extensions(s, goals[n + 1], Reads(n + 1, position, F, D))
    BY PartialMember
  <2>2. Sound(s, goals, n, position, F, D)
    BY <1>2
  <2>3. n + 1 \in 1..(n + 1) /\ \A i \in 1..n : i \in 1..(n + 1)
    OBVIOUS
  <2>4. CASE Negated(goals[n + 1])
    <3>1. Absent(Pattern(goals[n + 1], s), Reads(n + 1, position, F, D)) /\ g = Missing(goals[n + 1], s)
      BY <2>1, <2>4, ExtensionOf
    <3>2. /\ g.used = s.used /\ g.absent = s.absent \cup {Pattern(goals[n + 1], s)}
          /\ Pattern(goals[n + 1], s).p = goals[n + 1].p
      BY <3>1 DEF Missing, Pattern
    <3>3. n + 1 # position => Absent(Pattern(goals[n + 1], s), F)
      BY <3>1 DEF Reads
    <3>4. \A pattern \in g.absent : \E i \in 1..(n + 1) :
            /\ Negated(goals[i]) /\ pattern.p = goals[i].p
            /\ i # position => Absent(pattern, F)
      <4> TAKE pattern \in g.absent
      <4>1. CASE pattern \in s.absent
        BY <2>2, <2>3, <4>1 DEF Sound
      <4>2. CASE pattern = Pattern(goals[n + 1], s)
        BY <4>2, <3>2, <3>3, <2>3, <2>4
      <4> QED BY <4>1, <4>2, <3>2
    <3> QED BY <2>2, <2>3, <3>2, <3>4 DEF Sound
  <2>5. CASE ~Negated(goals[n + 1])
    <3>1. PICK f \in Reads(n + 1, position, F, D) :
            Fitting(goals[n + 1], s, f) /\ g = With(goals[n + 1], s, f)
      BY <2>1, <2>5, ExtensionOf
    <3>2. g.used = Append(s.used, f) /\ g.absent = s.absent /\ f.p = goals[n + 1].p
      BY <3>1 DEF With, Fitting
    <3>3. f \in F \cup D /\ s.used \in Seq(F \cup D)
      BY <2>2 DEF Reads, Sound
    <3>4. ToSet(g.used) = ToSet(s.used) \cup {f} /\ g.used \in Seq(F \cup D)
      BY <3>2, <3>3, MembersAppend
    <3>5. \A pattern \in g.absent : \E i \in 1..(n + 1) :
            /\ Negated(goals[i]) /\ pattern.p = goals[i].p
            /\ i # position => Absent(pattern, F)
      BY <2>2, <2>3, <3>2 DEF Sound
    <3>6. \A x \in ToSet(g.used) : \E i \in 1..(n + 1) : ~Negated(goals[i]) /\ x.p = goals[i].p
      BY <2>2, <2>3, <2>5, <3>2, <3>4 DEF Sound
    <3> QED BY <3>4, <3>5, <3>6 DEF Sound
  <2> QED BY <2>4, <2>5
<1> HIDE DEF K
<1>3. Nat \subseteq K
  BY <1>1, <1>2, Induction
<1> QED BY <1>3 DEF K

\* A solution of the first n goals is one over other facts that have what it used
\* and that lack, of the negated predicates, what these lack.
Carried(goals, n, U, j, F, D, k, G, E) ==
  \A i \in 1..n :
    /\ ~Negated(goals[i]) =>
         \A f \in Reads(i, j, F, D) : f \in U /\ f.p = goals[i].p => f \in Reads(i, k, G, E)
    /\ Negated(goals[i]) =>
         \A f \in Reads(i, k, G, E) : f.p = goals[i].p => f \in Reads(i, j, F, D)

LEMMA PartialCarries ==
  ASSUME NEW goals, NEW m \in Nat, NEW U, NEW j, NEW F, NEW D, NEW k, NEW G, NEW E,
         Carried(goals, m, U, j, F, D, k, G, E),
         NEW e \in Partial(goals, m, j, F, D), ToSet(e.used) \subseteq U
  PROVE  e \in Partial(goals, m, k, G, E)
<1> DEFINE K == {n \in Nat : n <= m => \A s \in Partial(goals, n, j, F, D) :
                   ToSet(s.used) \subseteq U => s \in Partial(goals, n, k, G, E)}
<1>1. 0 \in K
  BY PartialSteps
<1>2. ASSUME NEW n \in Nat, n \in K PROVE n + 1 \in K
  <2> SUFFICES ASSUME n + 1 <= m, NEW g \in Partial(goals, n + 1, j, F, D), ToSet(g.used) \subseteq U
               PROVE  g \in Partial(goals, n + 1, k, G, E)
    OBVIOUS
  <2>1. PICK s \in Partial(goals, n, j, F, D) : g \in Extensions(s, goals[n + 1], Reads(n + 1, j, F, D))
    BY PartialMember
  <2>2. Sound(s, goals, n, j, F, D)
    BY PartialSound
  <2>3. n + 1 \in 1..m /\ n <= m
    OBVIOUS
  <2> DEFINE goal == goals[n + 1]
             RF == Reads(n + 1, j, F, D)
             RG == Reads(n + 1, k, G, E)
  <2>4. /\ ~Negated(goal) => \A f \in RF : f \in U /\ f.p = goal.p => f \in RG
        /\ Negated(goal) => \A f \in RG : f.p = goal.p => f \in RF
    BY <2>3 DEF Carried
  <2>5. ToSet(s.used) \subseteq U /\ g \in Extensions(s, goal, RG)
    <3> HIDE DEF goal, RF, RG
    <3>0. g \in Extensions(s, goal, RF)
      BY <2>1 DEF goal, RF
    <3>1. CASE Negated(goal)
      <4>1. Absent(Pattern(goal, s), RF) /\ g = Missing(goal, s)
        BY <3>0, <3>1, ExtensionOf
      <4>2. Pattern(goal, s).p = goal.p /\ g.used = s.used
        BY <4>1 DEF Pattern, Missing
      <4>3. Absent(Pattern(goal, s), RG)
        BY <2>4, <3>1, <4>1, <4>2 DEF Absent
      <4> QED BY <4>1, <4>2, <4>3, <3>1, ExtensionOf
    <3>2. CASE ~Negated(goal)
      <4>1. PICK f \in RF : Fitting(goal, s, f) /\ g = With(goal, s, f)
        BY <3>0, <3>2, ExtensionOf
      <4>2. g.used = Append(s.used, f) /\ f.p = goal.p
        BY <4>1 DEF With, Fitting
      <4>3. ToSet(g.used) = ToSet(s.used) \cup {f}
        BY <4>2, <2>2, MembersAppend DEF Sound
      <4>4. f \in RG
        BY <2>4, <3>2, <4>2, <4>3
      <4> QED BY <4>1, <4>3, <4>4, <3>2, ExtensionOf
    <3> QED BY <3>1, <3>2
  <2>6. s \in Partial(goals, n, k, G, E)
    BY <1>2, <2>3, <2>5
  <2> QED BY <2>5, <2>6, PartialMember
<1> HIDE DEF K
<1>3. Nat \subseteq K
  BY <1>1, <1>2, Induction
<1> QED BY <1>3 DEF K

\* A solution that uses a fact of the delta is found when some positive goal reads it.
LEMMA PartialMeets ==
  ASSUME NEW goals, NEW m \in Nat, NEW F, NEW D, NEW e \in Partial(goals, m, 0, F, {}),
         NEW x \in ToSet(e.used), x \in D
  PROVE  \E j \in 1..m : ~Negated(goals[j]) /\ e \in Partial(goals, m, j, F, D)
<1> DEFINE K == {n \in Nat : \A s \in Partial(goals, n, 0, F, {}) : x \in ToSet(s.used) =>
                   \E j \in 1..n : ~Negated(goals[j]) /\ s \in Partial(goals, n, j, F, D)}
<1>1. 0 \in K
  <2>1. Partial(goals, 0, 0, F, {}) = {Start} /\ ToSet(Start.used) = {}
    BY PartialSteps DEF Start, ToSet
  <2> QED BY <2>1
<1>2. ASSUME NEW n \in Nat, n \in K PROVE n + 1 \in K
  <2> SUFFICES ASSUME NEW g \in Partial(goals, n + 1, 0, F, {}), x \in ToSet(g.used)
               PROVE  \E j \in 1..(n + 1) : ~Negated(goals[j]) /\ g \in Partial(goals, n + 1, j, F, D)
    OBVIOUS
  <2>1. PICK s \in Partial(goals, n, 0, F, {}) : g \in Extensions(s, goals[n + 1], Reads(n + 1, 0, F, {}))
    BY PartialMember
  <2>2. Sound(s, goals, n, 0, F, {})
    BY PartialSound
  <2>3. g \in Extensions(s, goals[n + 1], F)
    BY <2>1 DEF Reads
  <2>4. CASE x \in ToSet(s.used)
    <3>1. PICK j \in 1..n : ~Negated(goals[j]) /\ s \in Partial(goals, n, j, F, D)
      BY <1>2, <2>4
    <3>2. Reads(n + 1, j, F, D) = F /\ j \in 1..(n + 1)
      BY DEF Reads
    <3>3. g \in Partial(goals, n + 1, j, F, D)
      BY <2>3, <3>1, <3>2, PartialMember
    <3> QED BY <3>1, <3>2, <3>3
  <2>5. CASE x \notin ToSet(s.used)
    <3>1. ~Negated(goals[n + 1])
      BY <2>3, <2>5, ExtensionOf DEF Missing
    <3>2. PICK f \in F : Fitting(goals[n + 1], s, f) /\ g = With(goals[n + 1], s, f)
      BY <2>3, <3>1, ExtensionOf
    <3>3. ToSet(g.used) = ToSet(s.used) \cup {f}
      BY <3>2, <2>2, MembersAppend DEF With, Sound
    <3>4. f = x
      BY <2>5, <3>3
    <3>5. g \in Extensions(s, goals[n + 1], Reads(n + 1, n + 1, F, D))
      BY <3>1, <3>2, <3>4, ExtensionOf DEF Reads
    <3>6. Carried(goals, n, ToSet(s.used), 0, F, {}, n + 1, F, D)
      BY DEF Carried, Reads
    <3>7. s \in Partial(goals, n, n + 1, F, D)
      BY <3>6, PartialCarries
    <3>8. g \in Partial(goals, n + 1, n + 1, F, D)
      BY <3>5, <3>7, PartialMember
    <3> QED BY <3>1, <3>8
  <2> QED BY <2>4, <2>5
<1> HIDE DEF K
<1>3. Nat \subseteq K
  BY <1>1, <1>2, Induction
<1> QED BY <1>3 DEF K

LEMMA ImageFinite ==
  ASSUME NEW f, IsFiniteSet(DOMAIN f)
  PROVE  IsFiniteSet({f[x] : x \in DOMAIN f})
<1> DEFINE S == DOMAIN f
           T == {f[x] : x \in S}
           g == [x \in S |-> f[x]]
<1>1. g \in Surjection(S, T)
  BY DEF Surjection
<1> HIDE DEF S, T, g
<1>2. IsFiniteSet(T)
  BY <1>1, FS_Surjection DEF S
<1> QED BY <1>2 DEF S, T

LEMMA ExtensionsFinite ==
  ASSUME NEW s, NEW goal, NEW F, IsFiniteSet(F)
  PROVE  IsFiniteSet(Extensions(s, goal, F))
<1>1. CASE Negated(goal)
  <2>1. Extensions(s, goal, F) \in SUBSET {Missing(goal, s)}
    BY <1>1, ExtensionOf
  <2> QED BY <2>1, FS_Singleton, FS_Subset
<1>2. CASE ~Negated(goal)
  <2> DEFINE S == {f \in F : Fitting(goal, s, f)}
             h == [f \in S |-> With(goal, s, f)]
  <2>1. IsFiniteSet(S)
    BY FS_Subset
  <2>2. Extensions(s, goal, F) = {h[f] : f \in DOMAIN h}
    <3>1. \A e : e \in Extensions(s, goal, F) <=> \E f \in S : e = With(goal, s, f)
      BY <1>2, ExtensionOf
    <3>2. DOMAIN h = S /\ \A f \in S : h[f] = With(goal, s, f)
      OBVIOUS
    <3> HIDE DEF S, h
    <3> QED BY <3>1, <3>2
  <2>3. IsFiniteSet(DOMAIN h)
    BY <2>1
  <2> HIDE DEF S, h
  <2> QED BY <2>2, <2>3, ImageFinite
<1> QED BY <1>1, <1>2

LEMMA PartialFinite ==
  ASSUME NEW goals, NEW j, NEW F, NEW D, IsFiniteSet(F), IsFiniteSet(D), NEW m \in Nat
  PROVE  IsFiniteSet(Partial(goals, m, j, F, D))
<1> DEFINE K == {n \in Nat : IsFiniteSet(Partial(goals, n, j, F, D))}
<1>1. 0 \in K
  <2>1. Partial(goals, 0, j, F, D) = {Start}
    BY PartialSteps
  <2>2. IsFiniteSet({Start})
    BY FS_Singleton
  <2>3. IsFiniteSet(Partial(goals, 0, j, F, D))
    BY <2>1, <2>2
  <2> QED BY <2>3
<1>2. ASSUME NEW n \in Nat, n \in K PROVE n + 1 \in K
  <2> DEFINE P == Partial(goals, n, j, F, D)
             R == Reads(n + 1, j, F, D)
             h == [s \in P |-> Extensions(s, goals[n + 1], R)]
             T == {h[s] : s \in DOMAIN h}
  <2>1. IsFiniteSet(R)
    BY DEF Reads
  <2>2. IsFiniteSet(P)
    BY <1>2
  <2>3. IsFiniteSet(T)
    <3> HIDE DEF P
    <3>1. IsFiniteSet(DOMAIN h)
      BY <2>2
    <3> HIDE DEF h
    <3> QED BY <3>1, ImageFinite
  <2>4. \A t \in T : IsFiniteSet(t)
    BY <2>1, ExtensionsFinite
  <2>5. IsFiniteSet(UNION T)
    <3> HIDE DEF T
    <3> QED BY <2>3, <2>4, FS_UNION
  <2>6. Partial(goals, n + 1, j, F, D) = UNION T
    <3>1. Partial(goals, n + 1, j, F, D) = SolveStep(goals, j, F, D, P, n + 1)
      BY PartialSteps
    <3>2. SolveStep(goals, j, F, D, P, n + 1) = UNION T
      BY DEF SolveStep
    <3> HIDE DEF T, P
    <3> QED BY <3>1, <3>2
  <2> HIDE DEF T
  <2>7. IsFiniteSet(Partial(goals, n + 1, j, F, D))
    BY <2>5, <2>6
  <2> QED BY <2>7
<1> HIDE DEF K
<1>3. Nat \subseteq K
  BY <1>1, <1>2, Induction
<1> QED BY <1>3 DEF K

LEMMA SolutionsArePartial ==
  ASSUME NEW goals, NEW j, NEW F, NEW D
  PROVE  Solutions(goals, j, F, D) = Partial(goals, Len(goals), j, F, D)
BY DEF Solutions

-----------------------------------------------------------------------------
(* The strata.                                                               *)

\* f goes from start by the steps, in D.
Iterates(f, start, step, D, m) ==
  f \in [0..m -> D] /\ f[0] = start /\ \A n \in 1..m : f[n] = step[n][f[n - 1]]

LEMMA IterationExists ==
  ASSUME NEW D, NEW start \in D, NEW m \in Nat, NEW step \in [1..m -> [D -> D]]
  PROVE  \E f : Iterates(f, start, step, D, m)
<1> DEFINE K == {k \in Nat : k <= m => \E f : Iterates(f, start, step, D, k)}
<1>1. 0 \in K
  <2>1. Iterates([k \in 0..0 |-> start], start, step, D, 0)
    BY DEF Iterates
  <2> QED BY <2>1
<1>2. ASSUME NEW k \in Nat, k \in K PROVE k + 1 \in K
  <2> SUFFICES ASSUME k + 1 <= m PROVE \E f : Iterates(f, start, step, D, k + 1)
    OBVIOUS
  <2>1. PICK f : Iterates(f, start, step, D, k)
    BY <1>2
  <2> DEFINE g == [i \in 0..(k + 1) |-> IF i = k + 1 THEN step[k + 1][f[k]] ELSE f[i]]
  <2>2. k + 1 \in 1..m /\ k \in 0..k /\ 0 \in 0..(k + 1) /\ 0 # k + 1
    OBVIOUS
  <2>3. f \in [0..k -> D]
    BY <2>1 DEF Iterates
  <2>4. step[k + 1] \in [D -> D] /\ f[k] \in D
    BY <2>2, <2>3
  <2>5. step[k + 1][f[k]] \in D
    BY <2>4
  <2>6. g \in [0..(k + 1) -> D]
    <3>1. ASSUME NEW i \in 0..(k + 1), i # k + 1 PROVE i \in 0..k
      BY <3>1
    <3> QED BY <3>1, <2>3, <2>5
  <2>7. g[0] = start
    BY <2>1, <2>2 DEF Iterates
  <2>8. ASSUME NEW n \in 1..(k + 1) PROVE g[n] = step[n][g[n - 1]]
    <3>1. n \in 0..(k + 1) /\ n - 1 \in 0..(k + 1) /\ n - 1 # k + 1
      OBVIOUS
    <3>2. g[n - 1] = f[n - 1]
      BY <3>1
    <3>3. CASE n = k + 1
      <4>1. g[n] = step[k + 1][f[k]] /\ n - 1 = k
        BY <3>1, <3>3
      <4> QED BY <4>1, <3>2, <3>3
    <3>4. CASE n # k + 1
      <4>1. n \in 1..k /\ g[n] = f[n]
        BY <3>1, <3>4
      <4>2. f[n] = step[n][f[n - 1]]
        BY <4>1, <2>1 DEF Iterates
      <4> QED BY <4>1, <4>2, <3>2
    <3> QED BY <3>3, <3>4
  <2> HIDE DEF g
  <2>9. Iterates(g, start, step, D, k + 1)
    BY <2>6, <2>7, <2>8 DEF Iterates
  <2> QED BY <2>9
<1> HIDE DEF K
<1>3. Nat \subseteq K
  BY <1>1, <1>2, Induction
<1> QED BY <1>3 DEF K

\* Dependencies between predicates of P.
DependenciesIn(dependencies, P) ==
  /\ Len(dependencies) \in Nat /\ DOMAIN dependencies = 1..Len(dependencies)
  /\ \A n \in 1..Len(dependencies) :
       /\ dependencies[n].head \in P /\ dependencies[n].body \in P
       /\ dependencies[n].strict \in {0, 1}

\* The strata that satisfy the dependencies.
Satisfies(strata, dependencies) ==
  \A n \in 1..Len(dependencies) :
    strata[dependencies[n].head] >= strata[dependencies[n].body] + dependencies[n].strict

LEMMA RelaxTypes ==
  ASSUME NEW P, NEW strata \in [P -> Nat], NEW d, d.head \in P, d.body \in P, d.strict \in Nat
  PROVE  /\ Relax(strata, d) \in [P -> Nat]
         /\ \A p \in P : strata[p] <= Relax(strata, d)[p]
         /\ Relax(strata, d)[d.head] >= strata[d.body] + d.strict
         /\ \A rank \in [P -> Nat] :
              /\ rank[d.head] >= rank[d.body] + d.strict
              /\ \A p \in P : strata[p] <= rank[p]
              => \A p \in P : Relax(strata, d)[p] <= rank[p]
<1>1. /\ strata[d.head] \in Nat /\ strata[d.body] \in Nat
      /\ strata[d.body] + d.strict \in Nat
  OBVIOUS
<1>2. CASE strata[d.head] < strata[d.body] + d.strict
  <2>1. Relax(strata, d) = [strata EXCEPT ![d.head] = strata[d.body] + d.strict]
    BY <1>2 DEF Relax
  <2>2. Relax(strata, d) \in [P -> Nat]
    BY <2>1, <1>1
  <2>3. \A p \in P : strata[p] <= Relax(strata, d)[p]
    BY <2>1, <1>1, <1>2
  <2>4. Relax(strata, d)[d.head] = strata[d.body] + d.strict
    BY <2>1
  <2>5. ASSUME NEW rank \in [P -> Nat], rank[d.head] >= rank[d.body] + d.strict,
               \A p \in P : strata[p] <= rank[p], NEW p \in P
        PROVE  Relax(strata, d)[p] <= rank[p]
    <3>1. strata[d.body] <= rank[d.body] /\ rank[d.body] \in Nat /\ rank[d.head] \in Nat
      BY <2>5
    <3>2. strata[d.body] + d.strict <= rank[d.head]
      BY <1>1, <2>5, <3>1
    <3>3. p # d.head => Relax(strata, d)[p] = strata[p]
      BY <2>1
    <3> QED BY <2>4, <2>5, <3>2, <3>3
  <2> QED BY <1>1, <2>2, <2>3, <2>4, <2>5
<1>3. CASE ~(strata[d.head] < strata[d.body] + d.strict)
  <2>1. Relax(strata, d) = strata
    BY <1>3 DEF Relax
  <2> QED BY <1>1, <1>3, <2>1
<1> QED BY <1>2, <1>3

\* A pass, dependency by dependency.
LEMMA RelaxedSteps ==
  ASSUME NEW P, NEW strata \in [P -> Nat], NEW deps, DependenciesIn(deps, P)
  PROVE  \E f \in [0..Len(deps) -> [P -> Nat]] :
           /\ f[0] = strata /\ f[Len(deps)] = Relaxed(strata, deps)
           /\ \A n \in 1..Len(deps) : f[n] = Relax(f[n - 1], deps[n])
<1> DEFINE D == [P -> Nat]
           m == Len(deps)
           step == [n \in 1..m |-> [v \in D |-> Relax(v, deps[n])]]
           Is(f) == f = [n \in 0..m |-> IF n = 0 THEN strata ELSE Relax(f[n - 1], deps[n])]
<1>0. m \in Nat
  BY DEF DependenciesIn
<1>1. step \in [1..m -> [D -> D]]
  <2>1. ASSUME NEW n \in 1..m, NEW v \in D PROVE Relax(v, deps[n]) \in D
    <3>1. deps[n].head \in P /\ deps[n].body \in P /\ deps[n].strict \in Nat
      BY DEF DependenciesIn
    <3> QED BY <2>1, <3>1, RelaxTypes
  <2> HIDE DEF D
  <2> QED BY <2>1
<1>2. PICK f : Iterates(f, strata, step, D, m)
  <2> HIDE DEF step, m
  <2> QED BY <1>0, <1>1, IterationExists
<1>3. f \in [0..m -> D] /\ f[0] = strata /\ \A n \in 1..m : f[n] = Relax(f[n - 1], deps[n])
  <2>1. f \in [0..m -> D] /\ f[0] = strata /\ \A n \in 1..m : f[n] = step[n][f[n - 1]]
    BY <1>2 DEF Iterates
  <2>2. ASSUME NEW n \in 1..m PROVE f[n] = Relax(f[n - 1], deps[n])
    <3>1. n - 1 \in 0..m
      BY <1>0
    <3>2. f[n - 1] \in D
      BY <2>1, <3>1
    <3> HIDE DEF D
    <3>3. step[n][f[n - 1]] = Relax(f[n - 1], deps[n])
      BY <3>2
    <3> QED BY <2>1, <3>3
  <2> QED BY <2>1, <2>2
<1>4. Is(f)
  <2> DEFINE h == [n \in 0..m |-> IF n = 0 THEN strata ELSE Relax(f[n - 1], deps[n])]
  <2>1. ASSUME NEW n \in 0..m PROVE f[n] = h[n]
    <3>1. CASE n = 0
      BY <1>3, <3>1
    <3>2. CASE n # 0
      <4>1. n \in 1..m
        BY <1>0, <3>2
      <4> QED BY <1>3, <4>1, <3>2
    <3> QED BY <3>1, <3>2
  <2> HIDE DEF D, m
  <2>2. f = [n \in 0..m |-> f[n]]
    BY <1>3
  <2>3. f = h
    <3> HIDE DEF h
    <3>1. DOMAIN h = 0..m /\ h = [n \in 0..m |-> h[n]]
      BY DEF h
    <3> QED BY <2>1, <2>2, <3>1
  <2> QED BY <2>3
<1>5. Is(CHOOSE g : Is(g))
  <2> HIDE DEF Is
  <2> QED BY <1>4
<1> DEFINE g == CHOOSE g : Is(g)
<1>6. Relaxed(strata, deps) = g[m]
  BY DEF Relaxed
<1> HIDE DEF g
<1>7. g = [n \in 0..m |-> IF n = 0 THEN strata ELSE Relax(g[n - 1], deps[n])]
  BY <1>5 DEF g
<1>8. g[0] = strata /\ \A n \in 1..m : g[n] = Relax(g[n - 1], deps[n])
  <2> HIDE DEF m
  <2>1. 0 \in 0..m /\ \A n \in 1..m : n \in 0..m /\ n # 0
    BY <1>0
  <2> QED BY <1>7, <2>1
<1>9. g \in [0..m -> D]
  <2> DEFINE K == {n \in Nat : n <= m => g[n] \in D}
  <2>1. 0 \in K
    BY <1>8
  <2>2. ASSUME NEW n \in Nat, n \in K PROVE n + 1 \in K
    <3> SUFFICES ASSUME n + 1 <= m PROVE g[n + 1] \in D
      OBVIOUS
    <3>1. n + 1 \in 1..m /\ (n + 1) - 1 = n /\ n <= m
      BY <1>0
    <3>2. g[n] \in D
      BY <2>2, <3>1
    <3>3. g[n + 1] = Relax(g[n], deps[n + 1])
      BY <1>8, <3>1
    <3>4. deps[n + 1].head \in P /\ deps[n + 1].body \in P /\ deps[n + 1].strict \in Nat
      BY <3>1 DEF DependenciesIn
    <3>5. Relax(g[n], deps[n + 1]) \in [P -> Nat]
      BY <3>2, <3>4, RelaxTypes
    <3> QED BY <3>3, <3>5
  <2> HIDE DEF K
  <2>3. Nat \subseteq K
    BY <2>1, <2>2, Induction
  <2> HIDE DEF D, m
  <2>4. \A n \in 0..m : g[n] \in D
    BY <2>3, <1>0 DEF K
  <2> QED BY <2>4, <1>7
<1> QED BY <1>6, <1>8, <1>9

LEMMA RelaxedGrows ==
  ASSUME NEW P, NEW strata \in [P -> Nat], NEW deps, DependenciesIn(deps, P)
  PROVE  /\ Relaxed(strata, deps) \in [P -> Nat]
         /\ \A p \in P : strata[p] <= Relaxed(strata, deps)[p]
         /\ \A n \in 1..Len(deps) :
              Relaxed(strata, deps)[deps[n].head] >= strata[deps[n].body] + deps[n].strict
<1>0. Len(deps) \in Nat
  BY DEF DependenciesIn
<1>1. PICK f \in [0..Len(deps) -> [P -> Nat]] :
           /\ f[0] = strata /\ f[Len(deps)] = Relaxed(strata, deps)
           /\ \A n \in 1..Len(deps) : f[n] = Relax(f[n - 1], deps[n])
  BY RelaxedSteps
<1>2. Relaxed(strata, deps) \in [P -> Nat]
  BY <1>0, <1>1
<1>3. ASSUME NEW n \in 1..Len(deps)
      PROVE  /\ \A p \in P : f[n - 1][p] <= f[n][p]
             /\ f[n][deps[n].head] >= f[n - 1][deps[n].body] + deps[n].strict
  <2>1. n - 1 \in 0..Len(deps) /\ f[n] = Relax(f[n - 1], deps[n])
    BY <1>0, <1>1
  <2>2. f[n - 1] \in [P -> Nat]
    BY <1>1, <2>1
  <2>3. deps[n].head \in P /\ deps[n].body \in P /\ deps[n].strict \in Nat
    BY DEF DependenciesIn
  <2> DEFINE v == f[n - 1]
  <2>4. /\ \A p \in P : v[p] <= Relax(v, deps[n])[p]
        /\ Relax(v, deps[n])[deps[n].head] >= v[deps[n].body] + deps[n].strict
    <3> HIDE DEF v
    <3>1. v \in [P -> Nat]
      BY <2>2 DEF v
    <3> QED BY <2>3, <3>1, RelaxTypes
  <2> QED BY <2>1, <2>4
<1> DEFINE K == {j \in Nat : j <= Len(deps) => \A i \in 0..j, p \in P : f[i][p] <= f[j][p]}
<1>4. 0 \in K
  BY <1>0, <1>1
<1>5. ASSUME NEW j \in Nat, j \in K PROVE j + 1 \in K
  <2> SUFFICES ASSUME j + 1 <= Len(deps), NEW i \in 0..(j + 1), NEW p \in P
               PROVE  f[i][p] <= f[j + 1][p]
    OBVIOUS
  <2>1. j + 1 \in 1..Len(deps) /\ (j + 1) - 1 = j /\ j <= Len(deps)
        /\ {i, j, j + 1} \subseteq 0..Len(deps)
    BY <1>0
  <2>2. f[i][p] \in Nat /\ f[j][p] \in Nat /\ f[j + 1][p] \in Nat
    BY <1>1, <2>1
  <2>3. f[j][p] <= f[j + 1][p]
    BY <1>3, <2>1
  <2>4. CASE i = j + 1
    BY <2>2, <2>4
  <2>5. CASE i # j + 1
    <3>1. i \in 0..j
      BY <2>5
    <3>2. f[i][p] <= f[j][p]
      BY <1>5, <2>1, <3>1
    <3> QED BY <2>2, <2>3, <3>2
  <2> QED BY <2>4, <2>5
<1> HIDE DEF K
<1>6. Nat \subseteq K
  BY <1>4, <1>5, Induction
<1>7. ASSUME NEW i \in 0..Len(deps), NEW j \in i..Len(deps), NEW p \in P PROVE f[i][p] <= f[j][p]
  <2>1. j \in K /\ i \in 0..j /\ j <= Len(deps)
    BY <1>0, <1>6
  <2> QED BY <2>1 DEF K
<1>8. ASSUME NEW p \in P PROVE strata[p] <= Relaxed(strata, deps)[p]
  <2>1. 0 \in 0..Len(deps) /\ Len(deps) \in 0..Len(deps)
    BY <1>0
  <2> QED BY <1>1, <1>7, <2>1
<1>9. ASSUME NEW n \in 1..Len(deps)
      PROVE  Relaxed(strata, deps)[deps[n].head] >= strata[deps[n].body] + deps[n].strict
  <2>1. n - 1 \in 0..Len(deps) /\ 0 \in 0..Len(deps) /\ n \in 0..Len(deps)
        /\ n - 1 \in 0..Len(deps) /\ Len(deps) \in n..Len(deps)
    BY <1>0
  <2>2. deps[n].head \in P /\ deps[n].body \in P /\ deps[n].strict \in Nat
    BY DEF DependenciesIn
  <2>3. strata[deps[n].body] <= f[n - 1][deps[n].body]
    BY <1>1, <1>7, <2>1, <2>2
  <2>4. f[n][deps[n].head] <= Relaxed(strata, deps)[deps[n].head]
    BY <1>1, <1>7, <2>1, <2>2
  <2>5. f[n][deps[n].head] >= f[n - 1][deps[n].body] + deps[n].strict
    BY <1>3
  <2>6. /\ strata[deps[n].body] \in Nat /\ f[n - 1][deps[n].body] \in Nat
        /\ f[n][deps[n].head] \in Nat /\ Relaxed(strata, deps)[deps[n].head] \in Nat
    BY <1>1, <1>2, <2>1, <2>2
  <2>7. \A i, j, k, m, w \in Nat : i <= j /\ k >= j + w /\ k <= m => m >= i + w
    OBVIOUS
  <2> QED BY <2>2, <2>3, <2>4, <2>5, <2>6, <2>7
<1> QED BY <1>2, <1>8, <1>9

LEMMA RelaxedSound ==
  ASSUME NEW P, NEW strata \in [P -> Nat], NEW deps, DependenciesIn(deps, P)
  PROVE  /\ Relaxed(strata, deps) \in [P -> Nat]
         /\ Relaxed(strata, deps) = strata => Satisfies(strata, deps)
BY RelaxedGrows DEF Satisfies

\* A pass stays below every rank that satisfies the dependencies.
LEMMA RelaxedBelow ==
  ASSUME NEW P, NEW strata \in [P -> Nat], NEW deps, DependenciesIn(deps, P),
         NEW rank \in [P -> Nat], Satisfies(rank, deps), \A p \in P : strata[p] <= rank[p]
  PROVE  \A p \in P : Relaxed(strata, deps)[p] <= rank[p]
<1>0. Len(deps) \in Nat
  BY DEF DependenciesIn
<1>1. PICK f \in [0..Len(deps) -> [P -> Nat]] :
           /\ f[0] = strata /\ f[Len(deps)] = Relaxed(strata, deps)
           /\ \A n \in 1..Len(deps) : f[n] = Relax(f[n - 1], deps[n])
  BY RelaxedSteps
<1> DEFINE K == {j \in Nat : j <= Len(deps) => \A p \in P : f[j][p] <= rank[p]}
<1>2. 0 \in K
  BY <1>0, <1>1
<1>3. ASSUME NEW j \in Nat, j \in K PROVE j + 1 \in K
  <2> SUFFICES ASSUME j + 1 <= Len(deps) PROVE \A p \in P : f[j + 1][p] <= rank[p]
    OBVIOUS
  <2>1. j + 1 \in 1..Len(deps) /\ (j + 1) - 1 = j /\ j <= Len(deps) /\ j \in 0..Len(deps)
    BY <1>0
  <2> DEFINE d == deps[j + 1]
             v == f[j]
  <2>2. d.head \in P /\ d.body \in P /\ d.strict \in Nat
    BY <2>1 DEF DependenciesIn
  <2>4. rank[d.head] >= rank[d.body] + d.strict
    BY <2>1 DEF Satisfies
  <2>3. v \in [P -> Nat] /\ (\A p \in P : v[p] <= rank[p]) /\ f[j + 1] = Relax(v, d)
    BY <1>1, <1>3, <2>1
  <2> HIDE DEF d, v
  <2> QED BY <2>2, <2>3, <2>4, RelaxTypes
<1> HIDE DEF K
<1>4. Nat \subseteq K
  BY <1>2, <1>3, Induction
<1>5. Len(deps) \in K
  BY <1>0, <1>4
<1> QED BY <1>0, <1>1, <1>5 DEF K

LEMMA StrataAfterSteps ==
  ASSUME NEW clauses, DependenciesIn(Dependencies(clauses), PredicatesOf(clauses)), NEW m \in Nat
  PROVE  \E f \in [0..m -> [PredicatesOf(clauses) -> Nat]] :
           /\ f[0] = [p \in PredicatesOf(clauses) |-> 0]
           /\ f[m] = StrataAfter(clauses, m)
           /\ \A n \in 1..m : f[n] = Relaxed(f[n - 1], Dependencies(clauses))
<1> DEFINE P == PredicatesOf(clauses)
           deps == Dependencies(clauses)
           D == [P -> Nat]
           zero == [p \in P |-> 0]
           step == [n \in 1..m |-> [v \in D |-> Relaxed(v, deps)]]
           Is(f) == f = [n \in 0..m |-> IF n = 0 THEN [p \in PredicatesOf(clauses) |-> 0]
                                        ELSE Relaxed(f[n - 1], Dependencies(clauses))]
<1>1. zero \in D /\ step \in [1..m -> [D -> D]]
  <2>1. ASSUME NEW v \in D PROVE Relaxed(v, deps) \in D
    BY <2>1, RelaxedSound
  <2>2. zero \in D
    OBVIOUS
  <2> HIDE DEF D, zero
  <2> QED BY <2>1, <2>2
<1>2. PICK f : Iterates(f, zero, step, D, m)
  <2> HIDE DEF step, zero, D
  <2> QED BY <1>1, IterationExists
<1>3. f \in [0..m -> D] /\ f[0] = zero /\ \A n \in 1..m : f[n] = Relaxed(f[n - 1], deps)
  <2>1. f \in [0..m -> D] /\ f[0] = zero /\ \A n \in 1..m : f[n] = step[n][f[n - 1]]
    BY <1>2 DEF Iterates
  <2>2. ASSUME NEW n \in 1..m PROVE f[n] = Relaxed(f[n - 1], deps)
    <3>1. n - 1 \in 0..m
      OBVIOUS
    <3>2. f[n - 1] \in D
      BY <2>1, <3>1
    <3> HIDE DEF D, deps
    <3>3. step[n][f[n - 1]] = Relaxed(f[n - 1], deps)
      BY <3>2
    <3> QED BY <2>1, <3>3
  <2> QED BY <2>1, <2>2
<1>4. Is(f)
  <2> DEFINE h == [n \in 0..m |-> IF n = 0 THEN zero ELSE Relaxed(f[n - 1], deps)]
  <2> HIDE DEF D, zero, deps
  <2>1. ASSUME NEW n \in 0..m PROVE f[n] = h[n]
    <3>1. CASE n = 0
      BY <1>3, <3>1
    <3>2. CASE n # 0
      <4>1. n \in 1..m
        BY <3>2
      <4> QED BY <1>3, <4>1, <3>2
    <3> QED BY <3>1, <3>2
  <2>2. f = [n \in 0..m |-> f[n]]
    BY <1>3
  <2>3. f = h
    <3> HIDE DEF h
    <3>1. DOMAIN h = 0..m /\ h = [n \in 0..m |-> h[n]]
      BY DEF h
    <3> QED BY <2>1, <2>2, <3>1
  <2> QED BY <2>3 DEF zero, deps
<1>5. Is(CHOOSE g : Is(g))
  <2> HIDE DEF Is
  <2> QED BY <1>4
<1> DEFINE g == CHOOSE g : Is(g)
<1>6. StrataAfter(clauses, m) = g[m]
  BY DEF StrataAfter
<1> HIDE DEF g
<1>7. g = [n \in 0..m |-> IF n = 0 THEN zero ELSE Relaxed(g[n - 1], deps)]
  BY <1>5 DEF g
<1> HIDE DEF Is
<1>8. g[0] = zero /\ \A n \in 1..m : g[n] = Relaxed(g[n - 1], deps)
  <2>1. 0 \in 0..m /\ \A n \in 1..m : n \in 0..m /\ n # 0
    OBVIOUS
  <2> HIDE DEF zero, deps
  <2> QED BY <1>7, <2>1
<1>9. g \in [0..m -> D]
  <2> DEFINE K == {n \in Nat : n <= m => g[n] \in D}
  <2>1. 0 \in K
    BY <1>8, <1>1
  <2>2. ASSUME NEW n \in Nat, n \in K PROVE n + 1 \in K
    <3> SUFFICES ASSUME n + 1 <= m PROVE g[n + 1] \in D
      OBVIOUS
    <3>1. n + 1 \in 1..m /\ (n + 1) - 1 = n /\ n <= m
      OBVIOUS
    <3>2. g[n] \in D
      BY <2>2, <3>1
    <3>3. g[n + 1] = Relaxed(g[n], deps)
      BY <1>8, <3>1
    <3>4. Relaxed(g[n], deps) \in D
      BY <3>2, RelaxedSound
    <3> QED BY <3>3, <3>4
  <2> HIDE DEF K
  <2>3. Nat \subseteq K
    BY <2>1, <2>2, Induction
  <2> HIDE DEF D, zero, deps
  <2>4. \A n \in 0..m : g[n] \in D
    BY <2>3 DEF K
  <2> QED BY <2>4, <1>7
<1> QED BY <1>6, <1>8, <1>9

LEMMA StrataAfterNext ==
  ASSUME NEW clauses, DependenciesIn(Dependencies(clauses), PredicatesOf(clauses)), NEW m \in Nat
  PROVE  /\ StrataAfter(clauses, m) \in [PredicatesOf(clauses) -> Nat]
         /\ StrataAfter(clauses, m + 1) = Relaxed(StrataAfter(clauses, m), Dependencies(clauses))
<1> DEFINE D == [PredicatesOf(clauses) -> Nat]
<1>1. PICK f \in [0..m -> D] :
           /\ f[0] = [p \in PredicatesOf(clauses) |-> 0]
           /\ f[m] = StrataAfter(clauses, m)
           /\ \A n \in 1..m : f[n] = Relaxed(f[n - 1], Dependencies(clauses))
  BY StrataAfterSteps
<1>2. m + 1 \in Nat
  OBVIOUS
<1>3. PICK g \in [0..(m + 1) -> D] :
           /\ g[0] = [p \in PredicatesOf(clauses) |-> 0]
           /\ g[m + 1] = StrataAfter(clauses, m + 1)
           /\ \A n \in 1..(m + 1) : g[n] = Relaxed(g[n - 1], Dependencies(clauses))
  BY <1>2, StrataAfterSteps
<1> DEFINE K == {n \in Nat : n <= m => f[n] = g[n]}
<1>4. 0 \in K
  BY <1>1, <1>3
<1>5. ASSUME NEW n \in Nat, n \in K PROVE n + 1 \in K
  <2> SUFFICES ASSUME n + 1 <= m PROVE f[n + 1] = g[n + 1]
    OBVIOUS
  <2>1. n + 1 \in 1..m /\ n + 1 \in 1..(m + 1) /\ (n + 1) - 1 = n /\ n <= m
    OBVIOUS
  <2>2. f[n + 1] = Relaxed(f[n], Dependencies(clauses)) /\ g[n + 1] = Relaxed(g[n], Dependencies(clauses))
    BY <1>1, <1>3, <2>1
  <2> QED BY <1>5, <2>1, <2>2
<1> HIDE DEF K
<1>6. Nat \subseteq K
  BY <1>4, <1>5, Induction
<1>7. f[m] = g[m] /\ m \in 0..m
  BY <1>6 DEF K
<1>8. m + 1 \in 1..(m + 1) /\ (m + 1) - 1 = m
  OBVIOUS
<1>9. g[m + 1] = Relaxed(g[m], Dependencies(clauses))
  BY <1>3, <1>8
<1> HIDE DEF D
<1>10. StrataAfter(clauses, m) \in D
  BY <1>1, <1>7
<1> QED BY <1>1, <1>3, <1>7, <1>9, <1>10 DEF D

-----------------------------------------------------------------------------
(* Sequences.                                                                *)

LEMMA MembersConcat ==
  ASSUME NEW S, NEW u \in Seq(S), NEW v \in Seq(S)
  PROVE  u \o v \in Seq(S) /\ ToSet(u \o v) = ToSet(u) \cup ToSet(v)
<1>1. /\ Len(u) \in Nat /\ Len(v) \in Nat /\ DOMAIN u = 1..Len(u) /\ DOMAIN v = 1..Len(v)
      /\ u \o v \in Seq(S)
      /\ DOMAIN (u \o v) = 1..(Len(u) + Len(v))
      /\ \A i \in 1..Len(u) : (u \o v)[i] = u[i]
      /\ \A i \in 1..Len(v) : (u \o v)[Len(u) + i] = v[i]
  OBVIOUS
<1>2. ASSUME NEW x \in ToSet(u \o v) PROVE x \in ToSet(u) \cup ToSet(v)
  <2>1. PICK k \in 1..(Len(u) + Len(v)) : x = (u \o v)[k]
    BY <1>1 DEF ToSet
  <2>2. CASE k <= Len(u)
    <3>1. k \in 1..Len(u) /\ k \in DOMAIN u
      BY <1>1, <2>2
    <3>2. x = u[k]
      BY <1>1, <2>1, <3>1
    <3> QED BY <3>1, <3>2 DEF ToSet
  <2>3. CASE ~(k <= Len(u))
    <3>1. k - Len(u) \in 1..Len(v) /\ k - Len(u) \in DOMAIN v /\ Len(u) + (k - Len(u)) = k
      BY <1>1, <2>3
    <3>2. x = v[k - Len(u)]
      BY <1>1, <2>1, <3>1
    <3> QED BY <3>1, <3>2 DEF ToSet
  <2> QED BY <2>2, <2>3
<1>3. ASSUME NEW x \in ToSet(u) PROVE x \in ToSet(u \o v)
  <2>1. PICK k \in 1..Len(u) : x = u[k]
    BY <1>1 DEF ToSet
  <2>2. k \in DOMAIN (u \o v) /\ (u \o v)[k] = x
    BY <1>1, <2>1
  <2> QED BY <2>2 DEF ToSet
<1>4. ASSUME NEW x \in ToSet(v) PROVE x \in ToSet(u \o v)
  <2>1. PICK k \in 1..Len(v) : x = v[k]
    BY <1>1 DEF ToSet
  <2>2. Len(u) + k \in DOMAIN (u \o v) /\ (u \o v)[Len(u) + k] = x
    BY <1>1, <2>1
  <2> QED BY <2>2 DEF ToSet
<1> QED BY <1>1, <1>2, <1>3, <1>4

\* f concatenates the sequences one by one.
Flattens(f, ss) ==
  f = [i \in 1..Len(ss) |-> IF i = 1 THEN ss[i] ELSE f[i - 1] \o ss[i]]

LEMMA FlattenExists ==
  ASSUME NEW S, NEW ss \in Seq(Seq(S))
  PROVE  \E f : Flattens(f, ss)
<1> DEFINE D == Seq(S)
           m == Len(ss)
           empty == <<>>
           step == [n \in 1..m |-> [v \in D |-> v \o ss[n]]]
<1>1. m \in Nat /\ \A n \in 1..m : ss[n] \in D
  OBVIOUS
<1>2. empty \in D /\ step \in [1..m -> [D -> D]]
  <2>1. ASSUME NEW n \in 1..m, NEW v \in D PROVE v \o ss[n] \in D
    BY <1>1
  <2>2. empty \in D
    OBVIOUS
  <2> HIDE DEF D, m
  <2> QED BY <2>1, <2>2
<1>3. PICK f : Iterates(f, empty, step, D, m)
  <2> HIDE DEF step, m, D, empty
  <2> QED BY <1>1, <1>2, IterationExists
<1>4. f \in [0..m -> D] /\ f[0] = <<>> /\ \A n \in 1..m : f[n] = f[n - 1] \o ss[n]
  <2>1. f \in [0..m -> D] /\ f[0] = empty /\ \A n \in 1..m : f[n] = step[n][f[n - 1]]
    BY <1>3 DEF Iterates
  <2>2. ASSUME NEW n \in 1..m PROVE f[n] = f[n - 1] \o ss[n]
    <3>1. n - 1 \in 0..m
      BY <1>1
    <3>2. f[n - 1] \in D
      BY <2>1, <3>1
    <3> HIDE DEF D
    <3>3. step[n][f[n - 1]] = f[n - 1] \o ss[n]
      BY <3>2
    <3> QED BY <2>1, <3>3
  <2> QED BY <2>1, <2>2
<1> DEFINE g == [i \in 1..m |-> f[i]]
           h == [i \in 1..m |-> IF i = 1 THEN ss[i] ELSE g[i - 1] \o ss[i]]
<1>5. ASSUME NEW i \in 1..m PROVE g[i] = h[i]
  <2>1. g[i] = f[i - 1] \o ss[i]
    BY <1>4
  <2>2. CASE i = 1
    <3>1. ss[i] \in Seq(S) /\ f[i - 1] = <<>>
      BY <1>1, <1>4, <2>2
    <3>2. <<>> \o ss[i] = ss[i]
      BY <3>1
    <3> QED BY <2>1, <2>2, <3>1, <3>2
  <2>3. CASE i # 1
    <3>1. i - 1 \in 1..m
      BY <1>1, <2>3
    <3> QED BY <2>1, <2>3, <3>1
  <2> QED BY <2>2, <2>3
<1>6. Flattens(g, ss)
  <2>1. g = h
    <3> HIDE DEF m
    <3> QED BY <1>5
  <2> HIDE DEF g
  <2> QED BY <2>1 DEF Flattens
<1> QED BY <1>6

LEMMA FlattenMembers ==
  ASSUME NEW S, NEW ss \in Seq(Seq(S))
  PROVE  /\ FlattenSeq(ss) \in Seq(S)
         /\ \A x : x \in ToSet(FlattenSeq(ss)) <=> \E i \in 1..Len(ss) : x \in ToSet(ss[i])
<1>1. CASE Len(ss) = 0
  <2>1. FlattenSeq(ss) = ss /\ ss = <<>>
    BY <1>1 DEF FlattenSeq
  <2>2. ToSet(<<>>) = {} /\ <<>> \in Seq(S)
    BY DEF ToSet
  <2> QED BY <1>1, <2>1, <2>2
<1>2. CASE Len(ss) # 0
  <2> DEFINE f == CHOOSE g : Flattens(g, ss)
             m == Len(ss)
  <2>1. FlattenSeq(ss) = f[m]
    BY <1>2 DEF FlattenSeq, Flattens
  <2>2. Flattens(f, ss)
    BY FlattenExists
  <2> HIDE DEF f
  <2>3. m \in Nat /\ 1 \in 1..m /\ m \in 1..m /\ \A n \in 1..m : ss[n] \in Seq(S)
    BY <1>2
  <2>4. f[1] = ss[1] /\ \A n \in 1..m : n # 1 => f[n] = f[n - 1] \o ss[n]
    BY <2>2, <2>3 DEF Flattens
  <2> DEFINE Has(n) == /\ f[n] \in Seq(S)
                       /\ \A x : x \in ToSet(f[n]) <=> \E i \in 1..n : x \in ToSet(ss[i])
             K == {n \in Nat : n + 1 <= m => Has(n + 1)}
  <2>5. 0 \in K
    <3>1. 0 + 1 = 1 /\ \A i \in 1..1 : i = 1
      OBVIOUS
    <3>2. Has(1)
      BY <2>3, <2>4, <3>1
    <3> HIDE DEF Has
    <3> QED BY <3>1, <3>2
  <2>6. ASSUME NEW n \in Nat, n \in K PROVE n + 1 \in K
    <3> SUFFICES ASSUME (n + 1) + 1 <= m PROVE Has((n + 1) + 1)
      <4> HIDE DEF Has
      <4> QED OBVIOUS
    <3> DEFINE k == (n + 1) + 1
    <3>1. k \in 1..m /\ k - 1 = n + 1 /\ k # 1 /\ n + 1 <= m /\ n + 1 \in 1..m
          /\ 1..k = 1..(n + 1) \cup {k}
      BY <2>3
    <3>2. Has(n + 1)
      <4> HIDE DEF Has
      <4> QED BY <2>6, <3>1
    <3>3. f[k] = f[n + 1] \o ss[k]
      BY <2>4, <3>1
    <3> HIDE DEF k
    <3>4. f[k] \in Seq(S) /\ ToSet(f[k]) = ToSet(f[n + 1]) \cup ToSet(ss[k])
      BY <2>3, <3>1, <3>2, <3>3, MembersConcat
    <3>5. Has(k)
      BY <3>1, <3>2, <3>4
    <3> QED BY <3>5 DEF k
  <2> HIDE DEF K, Has
  <2>7. Nat \subseteq K
    BY <2>5, <2>6, Induction
  <2>8. m - 1 \in Nat /\ (m - 1) + 1 = m
    BY <2>3
  <2>9. m - 1 \in K /\ (m - 1) + 1 <= m
    BY <2>3, <2>7, <2>8
  <2>10. Has((m - 1) + 1)
    BY <2>9 DEF K
  <2>11. Has(m)
    <3> HIDE DEF m
    <3> QED BY <2>8, <2>10
  <2> QED BY <2>1, <2>11 DEF Has
<1> QED BY <1>1, <1>2

LEMMA ListedIsSequence ==
  ASSUME NEW S, IsFiniteSet(S)
  PROVE  SetToSeq(S) \in Seq(S)
<1>1. PICK b : b \in Bijection(1..Cardinality(S), S)
  BY FS_CardinalityType DEF ExistsBijection
<1>2. b \in [1..Cardinality(S) -> S] /\ IsInjective(b)
  BY <1>1 DEF Bijection, Injection, IsInjective
<1>3. SetToSeq(S) \in [1..Cardinality(S) -> S]
  BY <1>2 DEF SetToSeq
<1>4. Cardinality(S) \in Nat
  BY FS_CardinalityType
<1> QED BY <1>3, <1>4

-----------------------------------------------------------------------------
(* Programs.                                                                 *)

IsProgram(clauses) ==
  IsSequence(clauses) /\ \A i \in DOMAIN clauses : IsSequence(clauses[i].body)

LEMMA SequenceShape ==
  ASSUME NEW s, IsSequence(s)
  PROVE  Len(s) \in Nat /\ DOMAIN s = 1..Len(s)
BY DEF IsSequence

LEMMA SequenceFinite ==
  ASSUME NEW s, IsSequence(s)
  PROVE  IsFiniteSet(DOMAIN s) /\ IsFiniteSet(ToSet(s))
<1>1. IsFiniteSet(DOMAIN s)
  BY SequenceShape, FS_Interval
<1> QED BY <1>1, ImageFinite DEF ToSet

LEMMA DependenciesOf ==
  ASSUME NEW clauses, IsProgram(clauses)
  PROVE  /\ DependenciesIn(Dependencies(clauses), PredicatesOf(clauses))
         /\ \A i \in DOMAIN clauses : \A j \in DOMAIN clauses[i].body :
              \E n \in 1..Len(Dependencies(clauses)) :
                Dependencies(clauses)[n] = DependsOn(clauses[i], clauses[i].body[j])
<1> DEFINE C == DOMAIN clauses
           B(i) == DOMAIN clauses[i].body
           d(i, j) == DependsOn(clauses[i], clauses[i].body[j])
           S == {d(p[1], p[2]) : p \in {q \in C \X UNION {B(i) : i \in C} : q[2] \in B(q[1])}}
           ss == [i \in C |-> [j \in B(i) |-> d(i, j)]]
<1>1. ASSUME NEW i \in C, NEW j \in B(i) PROVE d(i, j) \in S
  <2>1. <<i, j>> \in {q \in C \X UNION {B(k) : k \in C} : q[2] \in B(q[1])}
    OBVIOUS
  <2> HIDE DEF d, B, C
  <2> QED BY <2>1
<1>2. ASSUME NEW x \in S PROVE \E i \in C : \E j \in B(i) : x = d(i, j)
  <2> HIDE DEF d, B, C
  <2> QED BY <1>2
<1> HIDE DEF S
<1>3. C = 1..Len(clauses) /\ Len(clauses) \in Nat
  BY SequenceShape DEF IsProgram
<1>4. ASSUME NEW i \in C PROVE ss[i] \in Seq(S) /\ ToSet(ss[i]) = {d(i, j) : j \in B(i)}
  <2>1. B(i) = 1..Len(clauses[i].body) /\ Len(clauses[i].body) \in Nat
    BY SequenceShape DEF IsProgram
  <2> DEFINE row == [j \in B(i) |-> d(i, j)]
  <2>2. ss[i] = row
    OBVIOUS
  <2>3. row \in Seq(S)
    <3>1. row \in [1..Len(clauses[i].body) -> S]
      <4> HIDE DEF d, B
      <4> QED BY <1>1, <2>1
    <3> HIDE DEF row
    <3> QED BY <2>1, <3>1
  <2>4. ToSet(row) = {d(i, j) : j \in B(i)}
    <3> HIDE DEF d, B
    <3> QED BY DEF ToSet
  <2> QED BY <2>2, <2>3, <2>4
<1>5. ss \in Seq(Seq(S)) /\ Len(ss) = Len(clauses)
  <2>1. ss \in [1..Len(clauses) -> Seq(S)]
    <3> DEFINE e(i) == [j \in B(i) |-> d(i, j)]
    <3>1. \A i \in C : e(i) \in Seq(S)
      BY <1>4
    <3> HIDE DEF e, C, B, d
    <3> QED BY <1>3, <3>1 DEF e
  <2> HIDE DEF ss
  <2> QED BY <1>3, <2>1
<1>6. Dependencies(clauses) = FlattenSeq(ss)
  BY DEF Dependencies
<1>7. /\ Dependencies(clauses) \in Seq(S)
      /\ \A x : x \in ToSet(Dependencies(clauses)) <=> \E i \in 1..Len(ss) : x \in ToSet(ss[i])
  <2> HIDE DEF ss
  <2> QED BY <1>5, <1>6, FlattenMembers
<1>8. ASSUME NEW i \in C, NEW j \in B(i)
      PROVE  /\ d(i, j).head \in PredicatesOf(clauses) /\ d(i, j).body \in PredicatesOf(clauses)
             /\ d(i, j).strict \in {0, 1}
  BY DEF DependsOn, PredicatesOf, ToSet
<1>9. DependenciesIn(Dependencies(clauses), PredicatesOf(clauses))
  <2> HIDE DEF d, B, C
  <2>1. ASSUME NEW n \in 1..Len(Dependencies(clauses))
        PROVE  Dependencies(clauses)[n] \in S
    BY <1>7
  <2> QED BY <1>2, <1>7, <1>8, <2>1 DEF DependenciesIn
<1>10. ASSUME NEW i \in C, NEW j \in B(i)
       PROVE  \E n \in 1..Len(Dependencies(clauses)) : Dependencies(clauses)[n] = d(i, j)
  <2>1. d(i, j) \in ToSet(ss[i])
    BY <1>4
  <2> HIDE DEF d, ss
  <2>2. d(i, j) \in ToSet(Dependencies(clauses))
    BY <1>3, <1>5, <1>7, <2>1
  <2>3. DOMAIN Dependencies(clauses) = 1..Len(Dependencies(clauses))
    BY <1>7
  <2> QED BY <2>2, <2>3 DEF ToSet
<1> QED BY <1>9, <1>10

LEMMA PredicatesFinite ==
  ASSUME NEW clauses, IsProgram(clauses)
  PROVE  IsFiniteSet(PredicatesOf(clauses))
<1> DEFINE C == DOMAIN clauses
           head == [i \in C |-> clauses[i].head.p]
           row == [i \in C |-> {g.p : g \in ToSet(clauses[i].body)}]
<1>1. IsFiniteSet(C)
  BY SequenceFinite DEF IsProgram
<1>2. ASSUME NEW i \in C PROVE IsFiniteSet(row[i])
  <2> DEFINE G == ToSet(clauses[i].body)
             f == [g \in G |-> g.p]
  <2>1. IsFiniteSet(G)
    BY SequenceFinite DEF IsProgram
  <2>2. {f[g] : g \in DOMAIN f} = row[i]
    OBVIOUS
  <2>3. IsFiniteSet(DOMAIN f)
    BY <2>1
  <2> HIDE DEF f
  <2>4. IsFiniteSet({f[g] : g \in DOMAIN f})
    BY <2>3, ImageFinite
  <2> QED BY <2>2, <2>4
<1>3. IsFiniteSet({head[i] : i \in DOMAIN head}) /\ IsFiniteSet({row[i] : i \in DOMAIN row})
  <2>1. DOMAIN head = C /\ DOMAIN row = C
    OBVIOUS
  <2> HIDE DEF head, row, C
  <2> QED BY <1>1, <2>1, ImageFinite
<1> DEFINE heads == {head[i] : i \in DOMAIN head}
           rows == {row[i] : i \in DOMAIN row}
<1>4. PredicatesOf(clauses) = heads \cup UNION rows
  BY DEF PredicatesOf
<1>5. \A t \in rows : IsFiniteSet(t)
  BY <1>2
<1> HIDE DEF heads, rows
<1>6. IsFiniteSet(heads) /\ IsFiniteSet(rows)
  BY <1>3 DEF heads, rows
<1>7. IsFiniteSet(UNION rows)
  BY <1>5, <1>6, FS_UNION
<1> QED BY <1>4, <1>6, <1>7, FS_Union

\* Every dependency of a program that is not refused is satisfied by its strata.
LEMMA StrataSound ==
  ASSUME NEW clauses, IsProgram(clauses)
  PROVE  /\ StrataAfter(clauses, Passes(clauses)) \in [PredicatesOf(clauses) -> Nat]
         /\ Stratifiable(clauses) =>
              \A i \in DOMAIN clauses : \A j \in DOMAIN clauses[i].body :
                LET d == DependsOn(clauses[i], clauses[i].body[j])
                    strata == StrataAfter(clauses, Passes(clauses))
                IN strata[d.head] >= strata[d.body] + d.strict
<1> DEFINE P == PredicatesOf(clauses)
           deps == Dependencies(clauses)
<1>1. Passes(clauses) \in Nat
  BY PredicatesFinite, FS_CardinalityType DEF Passes
<1>2. DependenciesIn(deps, P)
  BY DependenciesOf
<1>3. StrataAfter(clauses, Passes(clauses)) \in [P -> Nat]
  BY <1>1, <1>2, StrataAfterNext
<1>4. ASSUME Stratifiable(clauses), NEW i \in DOMAIN clauses, NEW j \in DOMAIN clauses[i].body
      PROVE  LET d == DependsOn(clauses[i], clauses[i].body[j])
                 strata == StrataAfter(clauses, Passes(clauses))
             IN strata[d.head] >= strata[d.body] + d.strict
  <2>1. clauses[i].head.p \in P
    BY DEF PredicatesOf
  <2>2. Passes(clauses) # 0
    BY <2>1, PredicatesFinite, FS_EmptySet DEF Passes
  <2> DEFINE m == Passes(clauses) - 1
             v == StrataAfter(clauses, m)
  <2>3. m \in Nat /\ m + 1 = Passes(clauses)
    BY <1>1, <2>2
  <2>4. v \in [P -> Nat] /\ StrataAfter(clauses, m + 1) = Relaxed(v, deps)
    <3> HIDE DEF m
    <3> QED BY <1>2, <2>3, StrataAfterNext
  <2>5. StrataAfter(clauses, Passes(clauses)) = v
    BY <1>4, <2>2 DEF Stratifiable
  <2>6. Relaxed(v, deps) = v
    BY <2>3, <2>4, <2>5
  <2> HIDE DEF v
  <2>7. Satisfies(v, deps)
    BY <1>2, <2>4, <2>6, RelaxedSound
  <2>8. PICK n \in 1..Len(deps) : deps[n] = DependsOn(clauses[i], clauses[i].body[j])
    BY DependenciesOf
  <2> QED BY <2>5, <2>7, <2>8 DEF Satisfies
<1> QED BY <1>3, <1>4

-----------------------------------------------------------------------------
(* The least strata.                                                         *)

\* A set that grows until it is everything is so after as many steps as there are members.
LEMMA FillsUp ==
  ASSUME NEW P, IsFiniteSet(P), NEW C \in [Nat -> SUBSET P], C[0] # {},
         \A k \in Nat : C[k] \subseteq C[k + 1] /\ (C[k] # P => C[k + 1] # C[k])
  PROVE  Cardinality(P) - 1 \in Nat /\ C[Cardinality(P) - 1] = P
<1>1. ASSUME NEW k \in Nat
      PROVE  /\ IsFiniteSet(C[k]) /\ Cardinality(C[k]) \in Nat
             /\ Cardinality(C[k]) <= Cardinality(P)
             /\ Cardinality(P) = Cardinality(C[k]) => C[k] = P
  <2>1. C[k] \in SUBSET P
    OBVIOUS
  <2> QED BY <2>1, FS_Subset, FS_CardinalityType
<1>2. Cardinality(P) \in Nat
  BY FS_CardinalityType
<1> DEFINE K == {k \in Nat : C[k] = P \/ Cardinality(C[k]) >= k + 1}
<1>3. Cardinality(C[0]) # 0
  BY <1>1, FS_EmptySet
<1>4. 0 \in K
  BY <1>1, <1>3
<1>5. ASSUME NEW k \in Nat, k \in K PROVE k + 1 \in K
  <2>1. k + 1 \in Nat /\ C[k] \in SUBSET C[k + 1] /\ C[k + 1] \in SUBSET P
    OBVIOUS
  <2>2. CASE C[k] = P
    BY <2>1, <2>2
  <2>3. CASE C[k] # P
    <3>1. C[k + 1] # C[k]
      BY <2>3
    <3>2. Cardinality(C[k]) <= Cardinality(C[k + 1]) /\ Cardinality(C[k]) # Cardinality(C[k + 1])
      BY <1>1, <2>1, <3>1, FS_Subset
    <3>3. Cardinality(C[k]) >= k + 1
      BY <1>5, <2>3
    <3>4. Cardinality(C[k]) \in Nat /\ Cardinality(C[k + 1]) \in Nat
      BY <1>1, <2>1
    <3>5. Cardinality(C[k + 1]) >= (k + 1) + 1
      BY <3>2, <3>3, <3>4
    <3> QED BY <2>1, <3>5
  <2> QED BY <2>2, <2>3
<1> HIDE DEF K
<1>6. Nat \subseteq K
  BY <1>4, <1>5, Induction
<1>7. Cardinality(P) - 1 \in Nat
  BY <1>1, <1>2, <1>3
<1> DEFINE m == Cardinality(P) - 1
<1>8. m \in Nat /\ m + 1 = Cardinality(P)
  BY <1>2, <1>7
<1> HIDE DEF m
<1>9. C[m] = P \/ Cardinality(C[m]) >= m + 1
  BY <1>6, <1>8 DEF K
<1>10. C[m] = P
  BY <1>1, <1>2, <1>8, <1>9
<1> QED BY <1>7, <1>10 DEF m

\* L is the least rank that satisfies the dependencies.
IsLeast(L, P, deps) ==
  /\ L \in [P -> Nat] /\ Satisfies(L, deps)
  /\ \A rank \in [P -> Nat] : Satisfies(rank, deps) => \A p \in P : L[p] <= rank[p]

LEMMA LeastExists ==
  ASSUME NEW P, NEW deps, DependenciesIn(deps, P), NEW some \in [P -> Nat], Satisfies(some, deps)
  PROVE  \E L : IsLeast(L, P, deps)
<1> DEFINE R == {rank \in [P -> Nat] : Satisfies(rank, deps)}
           V(p) == {rank[p] : rank \in R}
           L == [p \in P |-> CHOOSE x \in V(p) : \A y \in V(p) : ~(y < x)]
<1>1. ASSUME NEW p \in P PROVE L[p] \in V(p) /\ \A y \in V(p) : ~(y < L[p])
  <2>1. V(p) \subseteq Nat /\ V(p) # {}
    OBVIOUS
  <2> HIDE DEF V
  <2>2. \E x \in V(p) : \A y \in V(p) : ~(y < x)
    BY <2>1, LeastNumber
  <2> QED BY <2>2
<1>2. ASSUME NEW p \in P PROVE V(p) \subseteq Nat
  OBVIOUS
<1>3. L \in [P -> Nat]
  <2>1. \A p \in P : L[p] \in Nat
    BY <1>1, <1>2
  <2> QED BY <2>1
<1>4. ASSUME NEW rank \in R, NEW p \in P PROVE L[p] <= rank[p]
  <2>1. rank[p] \in V(p) /\ rank[p] \in Nat
    OBVIOUS
  <2>2. L[p] \in Nat /\ ~(rank[p] < L[p])
    BY <1>1, <1>3, <2>1
  <2> HIDE DEF L
  <2> QED BY <2>1, <2>2
<1>5. ASSUME NEW p \in P PROVE \E rank \in R : L[p] = rank[p]
  BY <1>1
<1> HIDE DEF L, V
<1>6. ASSUME NEW n \in 1..Len(deps) PROVE L[deps[n].head] >= L[deps[n].body] + deps[n].strict
  <2>1. deps[n].head \in P /\ deps[n].body \in P /\ deps[n].strict \in Nat
    BY DEF DependenciesIn
  <2>2. PICK rank \in R : L[deps[n].head] = rank[deps[n].head]
    BY <1>5, <2>1
  <2>3. rank[deps[n].head] >= rank[deps[n].body] + deps[n].strict
    BY DEF Satisfies
  <2>4. L[deps[n].body] <= rank[deps[n].body]
    BY <1>4, <2>1
  <2>5. /\ L[deps[n].head] \in Nat /\ L[deps[n].body] \in Nat
        /\ rank[deps[n].head] \in Nat /\ rank[deps[n].body] \in Nat
    BY <1>3, <2>1
  <2>6. \A i, j, k, w \in Nat : k >= j + w /\ i <= j => k >= i + w
    OBVIOUS
  <2> QED BY <2>1, <2>2, <2>3, <2>4, <2>5, <2>6
<1>7. Satisfies(L, deps)
  BY <1>6 DEF Satisfies
<1>8. IsLeast(L, P, deps)
  BY <1>3, <1>4, <1>7 DEF IsLeast
<1> QED BY <1>8

\* Predicates that could all be lower, but for one that depends on another.
LEMMA TightDependency ==
  ASSUME NEW P, NEW deps, DependenciesIn(deps, P), NEW L, IsLeast(L, P, deps),
         NEW N \in SUBSET P, N # {}, \A p \in N : L[p] > 0
  PROVE  \E n \in 1..Len(deps) :
           /\ deps[n].head \in N /\ deps[n].body \in P \ N
           /\ L[deps[n].head] = L[deps[n].body] + deps[n].strict
<1>1. L \in [P -> Nat] /\ Satisfies(L, deps)
  BY DEF IsLeast
<1> DEFINE lower == [p \in P |-> IF p \in N THEN L[p] - 1 ELSE L[p]]
<1>2. lower \in [P -> Nat]
  BY <1>1
<1>3. PICK q \in N : TRUE
  OBVIOUS
<1>4. ~(L[q] <= lower[q])
  BY <1>1
<1>5. ~Satisfies(lower, deps)
  <2> HIDE DEF lower
  <2> QED BY <1>2, <1>4 DEF IsLeast
<1>6. PICK n \in 1..Len(deps) :
        ~(lower[deps[n].head] >= lower[deps[n].body] + deps[n].strict)
  <2> HIDE DEF lower
  <2> QED BY <1>5 DEF Satisfies
<1> DEFINE h == deps[n].head
           b == deps[n].body
           w == deps[n].strict
<1>7. h \in P /\ b \in P /\ w \in Nat
  BY DEF DependenciesIn
<1>8. L[h] >= L[b] + w
  BY <1>1 DEF Satisfies
<1>9. ~(lower[h] >= lower[b] + w)
  BY <1>6
<1> HIDE DEF h, b, w
<1>10. L[h] \in Nat /\ L[b] \in Nat
  BY <1>1, <1>7
<1>11. h \in N
  <2> SUFFICES ASSUME h \notin N PROVE FALSE
    OBVIOUS
  <2>1. lower[h] = L[h] /\ (lower[b] = L[b] \/ lower[b] = L[b] - 1)
    BY <1>7
  <2> HIDE DEF lower
  <2> QED BY <1>7, <1>8, <1>9, <1>10, <2>1
<1>12. lower[h] = L[h] - 1
  BY <1>7, <1>11
<1>13. b \notin N
  <2> SUFFICES ASSUME b \in N PROVE FALSE
    OBVIOUS
  <2>1. lower[b] = L[b] - 1
    BY <1>7
  <2> HIDE DEF lower
  <2> QED BY <1>7, <1>8, <1>9, <1>10, <1>12, <2>1
<1>14. lower[b] = L[b]
  BY <1>7, <1>13
<1> HIDE DEF lower
<1>15. L[h] = L[b] + w
  BY <1>7, <1>8, <1>9, <1>10, <1>12, <1>14
<1> QED BY <1>7, <1>11, <1>13, <1>15 DEF h, b, w

\* The least rank has no gaps, and so no more strata than predicates.
LEMMA LeastBounded ==
  ASSUME NEW P, IsFiniteSet(P), NEW deps, DependenciesIn(deps, P), NEW L, IsLeast(L, P, deps)
  PROVE  \A p \in P : L[p] < Cardinality(P)
<1>1. L \in [P -> Nat] /\ Cardinality(P) \in Nat
  BY FS_CardinalityType DEF IsLeast
<1> SUFFICES ASSUME P # {} PROVE \A p \in P : L[p] < Cardinality(P)
  OBVIOUS
<1> DEFINE C == [k \in Nat |-> {p \in P : L[p] <= k}]
<1>2. C \in [Nat -> SUBSET P]
  OBVIOUS
<1>3. ASSUME NEW k \in Nat, C[k] # P PROVE \E p \in P : p \notin C[k] /\ p \in C[k + 1]
  <2> DEFINE N == P \ C[k]
  <2>1. N \in SUBSET P /\ N # {} /\ \A p \in N : L[p] > 0
    BY <1>1, <1>3
  <2> HIDE DEF N
  <2>2. PICK n \in 1..Len(deps) :
          /\ deps[n].head \in N /\ deps[n].body \in P \ N
          /\ L[deps[n].head] = L[deps[n].body] + deps[n].strict
    BY <2>1, TightDependency
  <2>3. deps[n].strict \in {0, 1} /\ deps[n].head \in P /\ deps[n].body \in P
    BY DEF DependenciesIn
  <2>4. deps[n].head \notin C[k] /\ deps[n].body \in C[k]
    BY <2>2 DEF N
  <2>5. L[deps[n].body] <= k /\ L[deps[n].body] \in Nat
    BY <1>1, <2>3, <2>4
  <2>6. L[deps[n].head] <= k + 1
    BY <2>2, <2>3, <2>5
  <2> QED BY <2>3, <2>4, <2>6
<1>4. C[0] # {}
  <2> SUFFICES ASSUME C[0] = {} PROVE FALSE
    OBVIOUS
  <2>1. \A p \in P : L[p] > 0
    BY <1>1
  <2> HIDE DEF C
  <2>2. \E n \in 1..Len(deps) : deps[n].body \in P \ P
    BY <2>1, TightDependency
  <2> QED BY <2>2
<1>5. ASSUME NEW k \in Nat PROVE C[k] \subseteq C[k + 1]
  BY <1>1
<1>6. Cardinality(P) - 1 \in Nat /\ C[Cardinality(P) - 1] = P
  <2> HIDE DEF C
  <2> QED BY <1>2, <1>3, <1>4, <1>5, FillsUp
<1>7. \A p \in P : L[p] <= Cardinality(P) - 1
  BY <1>6
<1> QED BY <1>1, <1>7

LEMMA StrataFirst ==
  ASSUME NEW clauses, DependenciesIn(Dependencies(clauses), PredicatesOf(clauses))
  PROVE  StrataAfter(clauses, 0) = [p \in PredicatesOf(clauses) |-> 0]
<1>1. 0 \in Nat
  OBVIOUS
<1> QED BY <1>1, StrataAfterSteps

LEMMA StrataBelow ==
  ASSUME NEW clauses, DependenciesIn(Dependencies(clauses), PredicatesOf(clauses)),
         NEW rank \in [PredicatesOf(clauses) -> Nat], Satisfies(rank, Dependencies(clauses)),
         NEW m \in Nat
  PROVE  \A p \in PredicatesOf(clauses) : StrataAfter(clauses, m)[p] <= rank[p]
<1> DEFINE P == PredicatesOf(clauses)
           K == {k \in Nat : \A p \in P : StrataAfter(clauses, k)[p] <= rank[p]}
<1>1. 0 \in K
  BY StrataFirst
<1>2. ASSUME NEW k \in Nat, k \in K PROVE k + 1 \in K
  <2> DEFINE v == StrataAfter(clauses, k)
  <2>1. v \in [P -> Nat] /\ StrataAfter(clauses, k + 1) = Relaxed(v, Dependencies(clauses))
    BY StrataAfterNext
  <2>2. \A p \in P : v[p] <= rank[p]
    BY <1>2
  <2> HIDE DEF v
  <2>3. \A p \in P : Relaxed(v, Dependencies(clauses))[p] <= rank[p]
    BY <2>1, <2>2, RelaxedBelow
  <2> QED BY <2>1, <2>3
<1> HIDE DEF K
<1>3. Nat \subseteq K
  BY <1>1, <1>2, Induction
<1> QED BY <1>3 DEF K

\* As long as the strata are not the least ones, a pass makes those of one more predicate so.
LEMMA StrataReachLeast ==
  ASSUME NEW clauses, NEW P, P = PredicatesOf(clauses), IsFiniteSet(P), P # {},
         NEW deps, deps = Dependencies(clauses), DependenciesIn(deps, P),
         NEW L, IsLeast(L, P, deps)
  PROVE  Cardinality(P) - 1 \in Nat /\ StrataAfter(clauses, Cardinality(P) - 1) = L
<1> DEFINE S == [k \in Nat |-> StrataAfter(clauses, k)]
           C == [k \in Nat |-> {p \in P : S[k][p] = L[p]}]
<1>1. L \in [P -> Nat] /\ Satisfies(L, deps)
  BY DEF IsLeast
<1>2. ASSUME NEW k \in Nat
      PROVE  /\ S[k] \in [P -> Nat] /\ S[k + 1] = Relaxed(S[k], deps)
             /\ \A p \in P : S[k][p] <= L[p]
  <2>1. k + 1 \in Nat /\ S[k] = StrataAfter(clauses, k) /\ S[k + 1] = StrataAfter(clauses, k + 1)
    OBVIOUS
  <2> QED BY <1>1, <2>1, StrataAfterNext, StrataBelow
<1>3. S[0] = [p \in P |-> 0]
  BY StrataFirst
<1> HIDE DEF S
<1>4. ASSUME NEW k \in Nat
      PROVE  /\ \A p \in P : S[k][p] <= S[k + 1][p]
             /\ \A n \in 1..Len(deps) : S[k + 1][deps[n].head] >= S[k][deps[n].body] + deps[n].strict
  <2> DEFINE v == S[k]
  <2>1. v \in [P -> Nat] /\ S[k + 1] = Relaxed(v, deps)
    BY <1>2
  <2> HIDE DEF v
  <2>2. /\ \A p \in P : v[p] <= S[k + 1][p]
        /\ \A n \in 1..Len(deps) : S[k + 1][deps[n].head] >= v[deps[n].body] + deps[n].strict
    BY <2>1, RelaxedGrows
  <2> QED BY <2>2 DEF v
<1>5. C \in [Nat -> SUBSET P]
  OBVIOUS
<1>6. ASSUME NEW k \in Nat PROVE C[k] \subseteq C[k + 1]
  <2> SUFFICES ASSUME NEW p \in P, S[k][p] = L[p] PROVE S[k + 1][p] = L[p]
    OBVIOUS
  <2>1. S[k][p] <= S[k + 1][p] /\ S[k + 1][p] <= L[p] /\ S[k + 1][p] \in Nat /\ L[p] \in Nat
    <3>1. k + 1 \in Nat
      OBVIOUS
    <3>2. S[k + 1] \in [P -> Nat] /\ S[k + 1][p] <= L[p]
      BY <1>2, <3>1
    <3> QED BY <1>1, <1>4, <3>2
  <2> QED BY <2>1
<1>7. ASSUME NEW N \in SUBSET P, N # {}, \A p \in N : L[p] > 0
      PROVE  \E n \in 1..Len(deps) :
               /\ deps[n].head \in N /\ deps[n].body \in P \ N
               /\ L[deps[n].head] = L[deps[n].body] + deps[n].strict
  BY <1>7, TightDependency
<1>8. ASSUME NEW k \in Nat, C[k] # P PROVE C[k + 1] # C[k]
  <2> DEFINE N == P \ C[k]
  <2>1. ASSUME NEW p \in N PROVE L[p] > 0
    <3>1. S[k][p] # L[p] /\ S[k][p] <= L[p] /\ S[k][p] \in Nat /\ L[p] \in Nat
      BY <1>1, <1>2
    <3> QED BY <3>1
  <2>2. N \in SUBSET P /\ N # {}
    BY <1>5, <1>8
  <2> HIDE DEF N
  <2>3. PICK n \in 1..Len(deps) :
          /\ deps[n].head \in N /\ deps[n].body \in P \ N
          /\ L[deps[n].head] = L[deps[n].body] + deps[n].strict
    BY <1>7, <2>1, <2>2
  <2>4. deps[n].head \notin C[k] /\ S[k][deps[n].body] = L[deps[n].body]
        /\ deps[n].head \in P
    BY <2>3 DEF N
  <2>5. S[k + 1][deps[n].head] >= L[deps[n].head]
    BY <1>4, <2>3, <2>4
  <2>6. S[k + 1][deps[n].head] <= L[deps[n].head]
        /\ S[k + 1][deps[n].head] \in Nat /\ L[deps[n].head] \in Nat
    <3>1. k + 1 \in Nat
      OBVIOUS
    <3>2. S[k + 1] \in [P -> Nat] /\ \A p \in P : S[k + 1][p] <= L[p]
      BY <1>2, <3>1
    <3> QED BY <1>1, <2>4, <3>2
  <2>7. S[k + 1][deps[n].head] = L[deps[n].head]
    BY <2>5, <2>6
  <2>8. deps[n].head \in C[k + 1]
    BY <2>4, <2>7
  <2> QED BY <2>4, <2>8
<1>9. C[0] # {}
  <2> SUFFICES ASSUME C[0] = {} PROVE FALSE
    OBVIOUS
  <2>1. ASSUME NEW p \in P PROVE L[p] > 0
    <3>1. S[0][p] = 0 /\ L[p] # S[0][p] /\ L[p] \in Nat
      BY <1>1, <1>3
    <3> QED BY <3>1
  <2>2. \E n \in 1..Len(deps) : deps[n].body \in P \ P
    BY <1>7, <2>1
  <2> QED BY <2>2
<1> DEFINE m == Cardinality(P) - 1
<1>10. m \in Nat /\ C[m] = P
  <2> HIDE DEF C
  <2> QED BY <1>5, <1>6, <1>8, <1>9, FillsUp
<1>11. S[m] \in [P -> Nat] /\ \A p \in P : S[m][p] = L[p]
  <2> HIDE DEF m
  <2> QED BY <1>2, <1>10
<1>12. S[m] = L
  BY <1>1, <1>11
<1> QED BY <1>10, <1>12 DEF S

LEMMA StratificationsSatisfy ==
  ASSUME NEW clauses, DependenciesIn(Dependencies(clauses), PredicatesOf(clauses)), NEW rank
  PROVE  rank \in Stratifications(clauses) <=>
           /\ rank \in [PredicatesOf(clauses) -> 0..Passes(clauses)]
           /\ Satisfies(rank, Dependencies(clauses))
<1>1. DOMAIN Dependencies(clauses) = 1..Len(Dependencies(clauses))
  BY DEF DependenciesIn
<1>2. ToSet(Dependencies(clauses)) =
        {Dependencies(clauses)[n] : n \in 1..Len(Dependencies(clauses))}
  BY <1>1 DEF ToSet
<1> QED BY <1>2 DEF Stratifications, Satisfies, Passes

\* A program has a stratification exactly when the passes end with the least one.
LEMMA LeastStrata ==
  ASSUME NEW clauses, IsProgram(clauses)
  PROVE  LET strata == StrataAfter(clauses, Passes(clauses))
             ranks == Stratifications(clauses)
         IN /\ Stratifiable(clauses) <=> ranks # {}
            /\ ranks # {} => /\ strata \in ranks
                             /\ \A rank \in ranks : \A p \in DOMAIN rank : strata[p] <= rank[p]
<1> DEFINE P == PredicatesOf(clauses)
           deps == Dependencies(clauses)
           strata == StrataAfter(clauses, Passes(clauses))
           ranks == Stratifications(clauses)
<1>1. IsFiniteSet(P) /\ DependenciesIn(deps, P)
  BY PredicatesFinite, DependenciesOf
<1>2. Passes(clauses) \in Nat /\ Passes(clauses) = Cardinality(P) /\ (Passes(clauses) = 0 <=> P = {})
  BY <1>1, FS_CardinalityType, FS_EmptySet DEF Passes
<1>3. strata \in [P -> Nat]
  BY <1>1, <1>2, StrataAfterNext
<1>4. ASSUME NEW rank \in ranks
      PROVE  rank \in [P -> Nat] /\ Satisfies(rank, deps) /\ \A p \in DOMAIN rank : strata[p] <= rank[p]
  <2>1. rank \in [P -> 0..Passes(clauses)] /\ Satisfies(rank, deps)
    BY <1>1, StratificationsSatisfy
  <2>2. rank \in [P -> Nat]
    BY <1>2, <2>1
  <2> QED BY <1>1, <1>2, <2>1, <2>2, StrataBelow
<1>5. ASSUME Stratifiable(clauses) PROVE Satisfies(strata, deps)
  <2>1. CASE P = {}
    <3>1. 1..Len(deps) = {}
      BY <1>1, <2>1 DEF DependenciesIn
    <3> QED BY <3>1 DEF Satisfies
  <2>2. CASE P # {}
    <3> DEFINE m == Passes(clauses) - 1
               v == StrataAfter(clauses, m)
    <3>1. m \in Nat /\ m + 1 = Passes(clauses)
      BY <1>2, <2>2
    <3>2. v \in [P -> Nat] /\ StrataAfter(clauses, m + 1) = Relaxed(v, deps)
      <4> HIDE DEF m
      <4> QED BY <1>1, <3>1, StrataAfterNext
    <3>3. strata = v
      BY <1>2, <1>5, <2>2 DEF Stratifiable
    <3>4. Relaxed(v, deps) = v
      BY <3>1, <3>2, <3>3
    <3> HIDE DEF v
    <3> QED BY <1>1, <3>2, <3>3, <3>4, RelaxedSound
  <2> QED BY <2>1, <2>2
<1>6. ASSUME Stratifiable(clauses) PROVE strata \in ranks
  <2>1. ASSUME NEW rank \in [P -> Nat], Satisfies(rank, deps) PROVE \A p \in P : strata[p] <= rank[p]
    BY <1>1, <1>2, <2>1, StrataBelow
  <2>2. IsLeast(strata, P, deps)
    <3> HIDE DEF strata, deps, P
    <3> QED BY <1>3, <1>5, <1>6, <2>1 DEF IsLeast
  <2>3. \A p \in P : strata[p] < Cardinality(P)
    BY <1>1, <2>2, LeastBounded
  <2> HIDE DEF strata
  <2>4. \A p \in P : strata[p] \in 0..Passes(clauses)
    BY <1>2, <1>3, <2>3
  <2>5. strata \in [P -> 0..Passes(clauses)]
    BY <1>3, <2>4
  <2> QED BY <1>1, <1>5, <1>6, <2>5, StratificationsSatisfy
<1>7. ASSUME NEW rank \in ranks PROVE Stratifiable(clauses)
  <2> SUFFICES ASSUME P # {} PROVE Stratifiable(clauses)
    BY <1>2 DEF Stratifiable
  <2> DEFINE m == Cardinality(P) - 1
  <2>1. PICK L : IsLeast(L, P, deps)
    BY <1>1, <1>4, LeastExists
  <2>2. m \in Nat /\ StrataAfter(clauses, m) = L
    BY <1>1, <2>1, StrataReachLeast
  <2>3. m + 1 = Passes(clauses) /\ Passes(clauses) - 1 = m
    BY <1>2
  <2>4. L \in [P -> Nat] /\ Satisfies(L, deps)
    BY <2>1 DEF IsLeast
  <2>5. StrataAfter(clauses, m + 1) = Relaxed(L, deps)
    <3> HIDE DEF m
    <3> QED BY <1>1, <2>2, StrataAfterNext
  <2>6. \A p \in P : L[p] <= strata[p] /\ strata[p] <= L[p]
    <3>1. \A p \in P : L[p] <= Relaxed(L, deps)[p] /\ Relaxed(L, deps)[p] <= L[p]
      <4>1. \A p \in P : L[p] <= L[p]
        BY <2>4
      <4> HIDE DEF deps, P
      <4> QED BY <1>1, <2>4, <4>1, RelaxedGrows, RelaxedBelow
    <3> QED BY <2>3, <2>5, <3>1
  <2>7. strata = L
    <3> HIDE DEF strata
    <3>1. \A p \in P : strata[p] \in Nat /\ L[p] \in Nat
      BY <1>3, <2>4
    <3>2. \A p \in P : strata[p] = L[p]
      BY <2>6, <3>1
    <3> QED BY <1>3, <2>4, <3>2
  <2> QED BY <2>2, <2>3, <2>7 DEF Stratifiable
<1>8. Stratifiable(clauses) <=> ranks # {}
  BY <1>6, <1>7
<1> QED BY <1>4, <1>6, <1>8

LEMMA TupleIsSequence == \A x, y : IsSequence(<<x>>) /\ IsSequence(<<x, y>>)
<1> TAKE x, y
<1>1. ToSet(<<x>>) = {x} /\ ToSet(<<x, y>>) = {x, y}
  BY DEF ToSet
<1> QED BY <1>1 DEF IsSequence

LEMMA SynthesizedClauses ==
  ASSUME NEW b, NEW anchor, NEW position
  PROVE  IsProgram(ClosureClauses(b)) /\ IsProgram(SeededClauses(b, anchor, position))
<1>1. ASSUME NEW c, NEW d, IsSequence(c.body), IsSequence(d.body) PROVE IsProgram(<<c, d>>)
  <2>1. DOMAIN <<c, d>> = {1, 2} /\ <<c, d>>[1] = c /\ <<c, d>>[2] = d
    OBVIOUS
  <2>2. \A i \in DOMAIN <<c, d>> : IsSequence(<<c, d>>[i].body)
    BY <1>1, <2>1
  <2> QED BY <2>2, TupleIsSequence DEF IsProgram
<1>2. ASSUME NEW head, NEW g, NEW h
      PROVE  IsSequence(Clause(head, <<g>>).body) /\ IsSequence(Clause(head, <<g, h>>).body)
  BY TupleIsSequence DEF Clause
<1> QED BY <1>1, <1>2 DEF ClosureClauses, SeededClauses

\* A finite set of programs, listed one after the other.
LEMMA ProgramsJoined ==
  ASSUME NEW T, IsFiniteSet(T), \A t \in T : IsProgram(t)
  PROVE  /\ FlattenSeq(SetToSeq(T)) \in Seq(UNION {ToSet(t) : t \in T})
         /\ \A c \in UNION {ToSet(t) : t \in T} : IsSequence(c.body)
<1> DEFINE S == UNION {ToSet(t) : t \in T}
<1>1. \A t \in T : t \in Seq(S)
  <2> TAKE t \in T
  <2>1. t \in Seq(ToSet(t)) /\ ToSet(t) \subseteq S
    BY DEF IsProgram, IsSequence
  <2> HIDE DEF S
  <2> QED BY <2>1
<1>2. SetToSeq(T) \in Seq(T)
  BY ListedIsSequence
<1>3. SetToSeq(T) \in Seq(Seq(S))
  <2> HIDE DEF S
  <2> QED BY <1>1, <1>2
<1>4. FlattenSeq(SetToSeq(T)) \in Seq(S)
  <2> HIDE DEF S
  <2> QED BY <1>3, FlattenMembers
<1>5. \A c \in S : IsSequence(c.body)
  BY DEF IsProgram, ToSet
<1> QED BY <1>4, <1>5

LEMMA ReferencesFinite ==
  ASSUME NEW clauses, NEW goals, IsProgram(clauses), IsSequence(goals)
  PROVE  IsFiniteSet(ToSet(goals) \cup UNION {ToSet(clauses[i].body) : i \in DOMAIN clauses})
<1> DEFINE row == [i \in DOMAIN clauses |-> ToSet(clauses[i].body)]
           rows == {row[i] : i \in DOMAIN row}
<1>1. IsFiniteSet(ToSet(goals)) /\ IsFiniteSet(DOMAIN clauses)
  BY SequenceFinite DEF IsProgram
<1>2. \A t \in rows : IsFiniteSet(t)
  BY SequenceFinite DEF IsProgram
<1>3. DOMAIN row = DOMAIN clauses
  OBVIOUS
<1>4. UNION {ToSet(clauses[i].body) : i \in DOMAIN clauses} = UNION rows
  OBVIOUS
<1>5. IsFiniteSet(rows)
  <2> HIDE DEF row
  <2> QED BY <1>1, <1>3, ImageFinite
<1> HIDE DEF rows
<1>6. IsFiniteSet(UNION rows)
  BY <1>2, <1>5, FS_UNION
<1> QED BY <1>1, <1>4, <1>6, FS_Union

LEMMA AnchorsFinite ==
  ASSUME NEW G, IsFiniteSet(G)
  PROVE  /\ IsFiniteSet({<<0, g.args[1]>> : g \in G} \cup {<<1, g.args[2]>> : g \in G})
         /\ \A b : Anchors(b, G) \subseteq {<<0, g.args[1]>> : g \in G} \cup {<<1, g.args[2]>> : g \in G}
<1> DEFINE e == [g \in G |-> <<0, g.args[1]>>]
           h == [g \in G |-> <<1, g.args[2]>>]
<1>1. DOMAIN e = G /\ DOMAIN h = G
  OBVIOUS
<1>2. IsFiniteSet({e[g] : g \in DOMAIN e}) /\ IsFiniteSet({h[g] : g \in DOMAIN h})
  <2> HIDE DEF e, h
  <2> QED BY <1>1, ImageFinite
<1>3. {e[g] : g \in DOMAIN e} = {<<0, g.args[1]>> : g \in G} /\ {h[g] : g \in DOMAIN h} = {<<1, g.args[2]>> : g \in G}
  OBVIOUS
<1>4. IsFiniteSet({<<0, g.args[1]>> : g \in G}) /\ IsFiniteSet({<<1, g.args[2]>> : g \in G})
  BY <1>2, <1>3
<1>5. IsFiniteSet({<<0, g.args[1]>> : g \in G} \cup {<<1, g.args[2]>> : g \in G})
  BY <1>4, FS_Union
<1>6. \A b : Anchors(b, G) \subseteq {<<0, g.args[1]>> : g \in G} \cup {<<1, g.args[2]>> : g \in G}
  BY DEF Anchors
<1> QED BY <1>5, <1>6

LEMMA ExpandedIsProgram ==
  ASSUME NEW clauses, NEW goals, IsProgram(clauses), IsSequence(goals)
  PROVE  IsProgram(Expanded(clauses, goals))
<1> DEFINE references == ToSet(goals) \cup UNION {ToSet(clauses[i].body) : i \in DOMAIN clauses}
           bases == UNION {ClosureBases(g, clauses) : g \in references}
           full == {b \in bases : \E g \in references :
                      g.p = Plus[b] /\ ~Ground(g.args[1]) /\ ~Ground(g.args[2])}
           seeds == UNION {{<<b, anchor>> : anchor \in Anchors(b, references)} : b \in bases \ full}
           closure == [b \in full |-> ClosureClauses(b)]
           seeded == [s \in seeds |-> SeededClauses(s[1], s[2][2], s[2][1])]
           closures == {ClosureClauses(b) : b \in full}
           seedings == {SeededClauses(s[1], s[2][2], s[2][1]) : s \in seeds}
           anchors == {<<0, g.args[1]>> : g \in references} \cup {<<1, g.args[2]>> : g \in references}
<1>1. Expanded(clauses, goals)
        = clauses \o FlattenSeq(SetToSeq(closures)) \o FlattenSeq(SetToSeq(seedings))
  BY DEF Expanded
<1>2. bases \subseteq DOMAIN Plus /\ full \subseteq bases
  BY DEF ClosureBases
<1>3. IsFiniteSet(references)
  BY ReferencesFinite
<1> HIDE DEF references
<1>4. IsFiniteSet(anchors) /\ \A b : Anchors(b, references) \subseteq anchors
  BY <1>3, AnchorsFinite
<1> HIDE DEF anchors
<1>5. IsFiniteSet(full) /\ IsFiniteSet(seeds)
  <2>1. full \in SUBSET (DOMAIN Plus) /\ IsFiniteSet(DOMAIN Plus)
    BY <1>2, EngineAssumption
  <2>2. seeds \in SUBSET ((DOMAIN Plus) \X anchors)
    <3> HIDE DEF full, bases
    <3> QED BY <1>2, <1>4
  <2>3. IsFiniteSet((DOMAIN Plus) \X anchors)
    BY <1>4, <2>1, FS_Product
  <2> HIDE DEF seeds, full
  <2> QED BY <2>1, <2>2, <2>3, FS_Subset
<1> HIDE DEF full, bases, seeds
<1>6. IsFiniteSet(closures) /\ \A t \in closures : IsProgram(t)
  <2>1. DOMAIN closure = full /\ {closure[b] : b \in DOMAIN closure} = closures
    OBVIOUS
  <2>2. IsFiniteSet({closure[b] : b \in DOMAIN closure})
    <3> HIDE DEF closure
    <3> QED BY <1>5, <2>1, ImageFinite
  <2>3. IsFiniteSet(closures)
    <3> HIDE DEF closure, closures
    <3> QED BY <2>1, <2>2
  <2> QED BY <2>3, SynthesizedClauses
<1>7. IsFiniteSet(seedings) /\ \A t \in seedings : IsProgram(t)
  <2>1. DOMAIN seeded = seeds /\ {seeded[s] : s \in DOMAIN seeded} = seedings
    OBVIOUS
  <2>2. IsFiniteSet({seeded[s] : s \in DOMAIN seeded})
    <3> HIDE DEF seeded
    <3> QED BY <1>5, <2>1, ImageFinite
  <2>3. IsFiniteSet(seedings)
    <3> HIDE DEF seeded, seedings
    <3> QED BY <2>1, <2>2
  <2> QED BY <2>3, SynthesizedClauses
<1> HIDE DEF closures, seedings
<1> DEFINE S == ToSet(clauses)
           T == UNION {ToSet(t) : t \in closures}
           U == UNION {ToSet(t) : t \in seedings}
           V == S \cup T \cup U
           result == Expanded(clauses, goals)
<1>8. clauses \in Seq(S) /\ \A c \in S : IsSequence(c.body)
  BY DEF IsProgram, IsSequence, ToSet
<1>9. FlattenSeq(SetToSeq(closures)) \in Seq(T) /\ \A c \in T : IsSequence(c.body)
  BY <1>6, ProgramsJoined
<1>10. FlattenSeq(SetToSeq(seedings)) \in Seq(U) /\ \A c \in U : IsSequence(c.body)
  BY <1>7, ProgramsJoined
<1> HIDE DEF S, T, U
<1>11. result \in Seq(V)
  BY <1>1, <1>8, <1>9, <1>10
<1>12. \A c \in V : IsSequence(c.body)
  BY <1>8, <1>9, <1>10
<1> HIDE DEF V, result
<1>13. \A i \in DOMAIN result : result[i] \in V
  BY <1>11
<1>14. result \in Seq(ToSet(result))
  BY <1>11 DEF ToSet
<1> QED BY <1>12, <1>13, <1>14 DEF IsProgram, IsSequence, result

-----------------------------------------------------------------------------
(* Rules.                                                                    *)

LEMMA SolutionsCarry ==
  ASSUME NEW goals, IsSequence(goals), NEW U, NEW j, NEW F, NEW D, NEW k, NEW G, NEW E,
         Carried(goals, Len(goals), U, j, F, D, k, G, E),
         NEW s \in Solutions(goals, j, F, D), ToSet(s.used) \subseteq U
  PROVE  s \in Solutions(goals, k, G, E)
<1>1. Len(goals) \in Nat
  BY SequenceShape
<1>2. s \in Partial(goals, Len(goals), j, F, D)
  BY SolutionsArePartial
<1>3. s \in Partial(goals, Len(goals), k, G, E)
  BY <1>1, <1>2, PartialCarries
<1> QED BY <1>3, SolutionsArePartial

LEMMA SolutionSound ==
  ASSUME NEW goals, IsSequence(goals), NEW j, NEW F, NEW D, NEW s \in Solutions(goals, j, F, D)
  PROVE  /\ s.used \in Seq(F \cup D) /\ ToSet(s.used) \subseteq F \cup D
         /\ \A pattern \in s.absent : \E i \in DOMAIN goals :
              /\ Negated(goals[i]) /\ pattern.p = goals[i].p
              /\ i # j => Absent(pattern, F)
<1>1. Len(goals) \in Nat /\ DOMAIN goals = 1..Len(goals)
  BY SequenceShape
<1>2. Sound(s, goals, Len(goals), j, F, D)
  BY <1>1, SolutionsArePartial, PartialSound
<1>3. ToSet(s.used) \subseteq F \cup D
  BY <1>2 DEF Sound, ToSet
<1> QED BY <1>1, <1>2, <1>3 DEF Sound

LEMMA SolutionsFinite ==
  ASSUME NEW goals, IsSequence(goals), NEW j, NEW F, NEW D, IsFiniteSet(F), IsFiniteSet(D)
  PROVE  IsFiniteSet(Solutions(goals, j, F, D))
BY SequenceShape, SolutionsArePartial, PartialFinite

LEMMA VisitOf ==
  ASSUME NEW goals, NEW j, NEW F, NEW D, NEW v
  PROVE  v \in Visits(goals, j, F, D) <=>
           \E i \in DOMAIN goals : \E s \in Partial(goals, i - 1, j, F, D) :
             v \in {<<i, s>>} \X Candidates(s, goals[i], Reads(i, j, F, D))
BY DEF Visits

LEMMA VisitsFinite ==
  ASSUME NEW goals, IsSequence(goals), NEW j, NEW F, NEW D, IsFiniteSet(F), IsFiniteSet(D)
  PROVE  IsFiniteSet(Visits(goals, j, F, D))
<1> DEFINE C(i, s) == {<<i, s>>} \X Candidates(s, goals[i], Reads(i, j, F, D))
           P(i) == Partial(goals, i - 1, j, F, D)
           V(i) == UNION {C(i, s) : s \in P(i)}
           g == [i \in DOMAIN goals |-> V(i)]
           T == {g[i] : i \in DOMAIN g}
<1>1. ASSUME NEW i, NEW s PROVE IsFiniteSet(C(i, s))
  <2>1. IsFiniteSet(Reads(i, j, F, D))
    BY DEF Reads
  <2>2. IsFiniteSet(Candidates(s, goals[i], Reads(i, j, F, D)))
    BY <2>1, FS_Subset DEF Candidates
  <2> QED BY <2>2, FS_Singleton, FS_Product
<1>2. ASSUME NEW i \in DOMAIN goals PROVE IsFiniteSet(V(i))
  <2> DEFINE h == [s \in P(i) |-> C(i, s)]
             U == {h[s] : s \in DOMAIN h}
  <2>1. i - 1 \in Nat
    BY SequenceShape
  <2>2. IsFiniteSet(P(i))
    BY <2>1, PartialFinite
  <2>3. IsFiniteSet(U)
    <3> HIDE DEF P
    <3>1. IsFiniteSet(DOMAIN h)
      BY <2>2
    <3> HIDE DEF h
    <3> QED BY <3>1, ImageFinite
  <2>4. \A t \in U : IsFiniteSet(t)
    <3> HIDE DEF C
    <3> QED BY <1>1
  <2>5. V(i) = UNION U
    OBVIOUS
  <2> HIDE DEF U, V
  <2> QED BY <2>3, <2>4, <2>5, FS_UNION
<1>3. IsFiniteSet(T)
  <2>1. IsFiniteSet(DOMAIN g)
    BY SequenceFinite
  <2> HIDE DEF g
  <2> QED BY <2>1, ImageFinite
<1>4. \A t \in T : IsFiniteSet(t)
  <2> HIDE DEF V
  <2> QED BY <1>2
<1>5. Visits(goals, j, F, D) = UNION T
  BY DEF Visits
<1> HIDE DEF T
<1> QED BY <1>3, <1>4, <1>5, FS_UNION

LEMMA SolutionMeets ==
  ASSUME NEW goals, IsSequence(goals), NEW F, NEW D, NEW s \in Solutions(goals, 0, F, {}),
         NEW x \in ToSet(s.used), x \in D
  PROVE  \E j \in DOMAIN goals : ~Negated(goals[j]) /\ s \in Solutions(goals, j, F, D)
<1>1. Len(goals) \in Nat /\ DOMAIN goals = 1..Len(goals)
  BY SequenceShape
<1>2. s \in Partial(goals, Len(goals), 0, F, {})
  BY SolutionsArePartial
<1>3. PICK j \in 1..Len(goals) : ~Negated(goals[j]) /\ s \in Partial(goals, Len(goals), j, F, D)
  BY <1>1, <1>2, PartialMeets
<1> QED BY <1>1, <1>3, SolutionsArePartial

\* A rule is above what its body reads, and strictly above what it negates or counts.
RuleOrdered(rule, strata) ==
  /\ IsSequence(rule.body) /\ strata[rule.head.p] \in Nat
  /\ \A j \in DOMAIN rule.body :
       /\ strata[rule.body[j].p] \in Nat
       /\ strata[rule.body[j].p] <= strata[rule.head.p]
       /\ Negated(rule.body[j]) \/ Aggregate(rule) => strata[rule.body[j].p] < strata[rule.head.p]

\* G has the facts F and facts of stratum n.
Grown(F, G, strata, n) == F \subseteq G /\ \A f \in G \ F : strata[f.p] = n

\* Facts of a rule's own stratum, or of a higher one, leave it the solutions it has.
LEMMA GrowthKeeps ==
  ASSUME NEW rule, NEW strata, RuleOrdered(rule, strata), NEW n \in Nat, strata[rule.head.p] <= n,
         NEW F, NEW G, Grown(F, G, strata, n), NEW D, NEW E, D \subseteq E,
         NEW j, j \in DOMAIN rule.body => ~Negated(rule.body[j])
  PROVE  Solutions(rule.body, j, F, D) \subseteq Solutions(rule.body, j, G, E)
<1> DEFINE goals == rule.body
<1>1. IsSequence(goals) /\ DOMAIN goals = 1..Len(goals)
  BY SequenceShape DEF RuleOrdered
<1>2. Carried(goals, Len(goals), F \cup D, j, F, D, j, G, E)
  <2>1. ASSUME NEW i \in 1..Len(goals), ~Negated(goals[i]), NEW f \in Reads(i, j, F, D)
        PROVE  f \in Reads(i, j, G, E)
    BY <2>1 DEF Reads, Grown
  <2>2. ASSUME NEW i \in 1..Len(goals), Negated(goals[i]), NEW f \in Reads(i, j, G, E),
               f.p = goals[i].p
        PROVE  f \in Reads(i, j, F, D)
    <3>1. i # j /\ i \in DOMAIN goals
      BY <1>1, <2>2
    <3>2. strata[goals[i].p] < n
      <4>1. strata[goals[i].p] \in Nat /\ strata[goals[i].p] < strata[rule.head.p]
            /\ strata[rule.head.p] \in Nat
        BY <2>2, <3>1 DEF RuleOrdered
      <4> QED BY <4>1
    <3>3. f \in G
      BY <2>2, <3>1 DEF Reads
    <3>4. strata[f.p] # n
      BY <2>2, <3>1, <3>2 DEF RuleOrdered
    <3> QED BY <3>1, <3>3, <3>4 DEF Reads, Grown
  <2> QED BY <2>1, <2>2 DEF Carried
<1>3. ASSUME NEW s \in Solutions(goals, j, F, D) PROVE s \in Solutions(goals, j, G, E)
  <2>1. ToSet(s.used) \subseteq F \cup D
    BY <1>1, SolutionSound
  <2> HIDE DEF goals
  <2> QED BY <1>1, <1>2, <2>1, SolutionsCarry
<1> QED BY <1>3

\* Reading a delta, a rule visits no more than reading everything; facts of its own
\* stratum, or of a higher one, leave it the candidates it has.
LEMMA VisitsGrow ==
  ASSUME NEW rule, NEW strata, RuleOrdered(rule, strata), NEW n \in Nat, strata[rule.head.p] <= n,
         NEW F, NEW G, Grown(F, G, strata, n), NEW D \in SUBSET F,
         NEW j, j \in DOMAIN rule.body => ~Negated(rule.body[j])
  PROVE  Visits(rule.body, j, F, D) \subseteq Visits(rule.body, 0, G, {})
<1> DEFINE goals == rule.body
<1>1. IsSequence(goals) /\ DOMAIN goals = 1..Len(goals) /\ Len(goals) \in Nat
  BY SequenceShape DEF RuleOrdered
<1>2. Carried(goals, Len(goals), F, j, F, D, 0, G, {})
  <2>1. ASSUME NEW i \in 1..Len(goals), ~Negated(goals[i]), NEW f \in Reads(i, j, F, D)
        PROVE  f \in Reads(i, 0, G, {})
    BY <2>1 DEF Reads, Grown
  <2>2. ASSUME NEW i \in 1..Len(goals), Negated(goals[i]), NEW f \in Reads(i, 0, G, {}),
               f.p = goals[i].p
        PROVE  f \in Reads(i, j, F, D)
    <3>1. i # j /\ i \in DOMAIN goals
      BY <1>1, <2>2
    <3>2. strata[goals[i].p] \in Nat /\ strata[goals[i].p] < strata[rule.head.p]
          /\ strata[rule.head.p] \in Nat
      BY <2>2, <3>1 DEF RuleOrdered
    <3>3. f \in G /\ strata[f.p] # n
      BY <2>2, <3>1, <3>2 DEF Reads
    <3> QED BY <3>1, <3>3 DEF Reads, Grown
  <2> QED BY <2>1, <2>2 DEF Carried
<1>3. ASSUME NEW v \in Visits(goals, j, F, D) PROVE v \in Visits(goals, 0, G, {})
  <2> HIDE DEF goals
  <2>0. PICK i \in DOMAIN goals : \E s \in Partial(goals, i - 1, j, F, D) :
          v \in {<<i, s>>} \X Candidates(s, goals[i], Reads(i, j, F, D))
    BY <1>3, VisitOf
  <2>1. PICK s \in Partial(goals, i - 1, j, F, D) :
          v \in {<<i, s>>} \X Candidates(s, goals[i], Reads(i, j, F, D))
    BY <2>0
  <2>2. i - 1 \in Nat /\ i - 1 <= Len(goals) /\ i # 0
    BY <1>1
  <2>3. Carried(goals, i - 1, F, j, F, D, 0, G, {})
    BY <1>1, <1>2, <2>2 DEF Carried
  <2>4. ToSet(s.used) \subseteq F
    <3>1. s.used \in Seq(F \cup D)
      BY <2>1, <2>2, PartialSound DEF Sound
    <3>2. F \cup D = F
      OBVIOUS
    <3> QED BY <3>1, <3>2 DEF ToSet
  <2>5. s \in Partial(goals, i - 1, 0, G, {})
    BY <2>1, <2>2, <2>3, <2>4, PartialCarries
  <2>6. Candidates(s, goals[i], Reads(i, j, F, D)) \subseteq Candidates(s, goals[i], Reads(i, 0, G, {}))
    BY <2>2 DEF Candidates, Reads, Grown
  <2>7. v \in {<<i, s>>} \X Candidates(s, goals[i], Reads(i, 0, G, {}))
    BY <2>1, <2>6
  <2> QED BY <2>5, <2>7, VisitOf
<1> QED BY <1>3

\* Facts of a stratum above its body change nothing.
LEMMA GrowthIgnored ==
  ASSUME NEW rule, NEW strata, RuleOrdered(rule, strata), NEW n \in Nat,
         strata[rule.head.p] < n \/ (Aggregate(rule) /\ strata[rule.head.p] <= n),
         NEW F, NEW G, Grown(F, G, strata, n)
  PROVE  Solutions(rule.body, 0, F, {}) = Solutions(rule.body, 0, G, {})
<1> DEFINE goals == rule.body
<1>1. IsSequence(goals) /\ DOMAIN goals = 1..Len(goals)
  BY SequenceShape DEF RuleOrdered
<1>2. ASSUME NEW i \in 1..Len(goals), NEW f \in G, f.p = goals[i].p PROVE f \in F
  <2>1. i \in DOMAIN goals
    BY <1>1
  <2>2. /\ strata[goals[i].p] \in Nat /\ strata[rule.head.p] \in Nat
        /\ strata[goals[i].p] <= strata[rule.head.p]
        /\ Aggregate(rule) => strata[goals[i].p] < strata[rule.head.p]
    BY <2>1 DEF RuleOrdered
  <2>3. strata[f.p] # n
    BY <2>2, <1>2
  <2> QED BY <2>3 DEF Grown
<1>3. Carried(goals, Len(goals), F, 0, F, {}, 0, G, {})
      /\ Carried(goals, Len(goals), G, 0, G, {}, 0, F, {})
  BY <1>2 DEF Carried, Reads, Grown
<1>4. ASSUME NEW s \in Solutions(goals, 0, F, {}) PROVE s \in Solutions(goals, 0, G, {})
  <2>0. IsSequence(goals) /\ s \in Solutions(goals, 0, F, {})
    BY <1>1
  <2>1. ToSet(s.used) \subseteq F
    <3> HIDE DEF goals
    <3>1. ToSet(s.used) \subseteq F \cup {}
      BY <2>0, SolutionSound
    <3> QED BY <3>1
  <2> HIDE DEF goals
  <2> QED BY <1>1, <1>3, <2>1, SolutionsCarry
<1>5. ASSUME NEW s \in Solutions(goals, 0, G, {}) PROVE s \in Solutions(goals, 0, F, {})
  <2>0. IsSequence(goals) /\ s \in Solutions(goals, 0, G, {})
    BY <1>1
  <2>1. ToSet(s.used) \subseteq G
    <3> HIDE DEF goals
    <3>1. ToSet(s.used) \subseteq G \cup {}
      BY <2>0, SolutionSound
    <3> QED BY <3>1
  <2> HIDE DEF goals
  <2> QED BY <1>1, <1>3, <2>1, SolutionsCarry
<1> QED BY <1>4, <1>5

LEMMA CountedSame ==
  ASSUME NEW rule, NEW F, NEW G, Solutions(rule.body, 0, F, {}) = Solutions(rule.body, 0, G, {})
  PROVE  Counted(rule, F) = Counted(rule, G)
BY DEF Counted, Groups, Rows

LEMMA HeadDerived ==
  ASSUME NEW rule
  PROVE  /\ \A s : Derived(rule, s).p = rule.head.p
         /\ \A F : \A f \in Counted(rule, F) : f.p = rule.head.p
BY DEF Derived, Counted

LEMMA CountedFinite ==
  ASSUME NEW rule, IsSequence(rule.body), NEW F, IsFiniteSet(F)
  PROVE  IsFiniteSet(Counted(rule, F))
<1> DEFINE S == Solutions(rule.body, 0, F, {})
           g == [s \in S |-> Substitute(GroupArgs(rule), s.env)]
           A == {g[s] : s \in DOMAIN g}
           B == IF ToSet(GroupArgs(rule)) \cap Variables = {} THEN {GroupArgs(rule)} ELSE {}
           G == Groups(rule, F)
           h == [group \in G |->
                   [p |-> rule.head.p,
                    args |-> [i \in DOMAIN group |->
                                IF rule.head.args[i] = rule.count
                                THEN Cardinality(Rows(rule, group, F)) ELSE group[i]]]]
<1>1. IsFiniteSet(S)
  BY SolutionsFinite, FS_EmptySet
<1>2. IsFiniteSet(A)
  <2>1. DOMAIN g = S
    OBVIOUS
  <2> HIDE DEF g, S
  <2> QED BY <1>1, <2>1, ImageFinite
<1>3. IsFiniteSet(B)
  <2>1. IsFiniteSet({}) /\ IsFiniteSet({GroupArgs(rule)})
    BY FS_EmptySet, FS_Singleton
  <2> QED BY <2>1
<1>4. G = A \cup B
  BY DEF Groups
<1>5. IsFiniteSet(G)
  <2> HIDE DEF A, B, G
  <2> QED BY <1>2, <1>3, <1>4, FS_Union
<1>6. Counted(rule, F) = {h[group] : group \in DOMAIN h} /\ DOMAIN h = G
  <2> HIDE DEF G
  <2>1. DOMAIN h = G
    OBVIOUS
  <2>2. Counted(rule, F) = {h[group] : group \in G}
    BY DEF Counted, G
  <2> HIDE DEF h
  <2> QED BY <2>1, <2>2
<1> HIDE DEF h, G
<1> QED BY <1>5, <1>6, ImageFinite

-----------------------------------------------------------------------------
(* Proofs.                                                                   *)

\* No set of facts rests on itself alone.
WellFounded(F, proofs) ==
  /\ \A f \in F : proofs[f].uses \subseteq F
  /\ \A S \in SUBSET F : S # {} => \E f \in S : proofs[f].uses \cap S = {}

\* What is proved in so many steps.
Grounded(g, F, proofs, m) ==
  g = [k \in 0..m |-> IF k = 0 THEN {f \in F : proofs[f].uses = {}}
                      ELSE LET before == g[k - 1] IN {f \in F : proofs[f].uses \subseteq before}]

LEMMA GroundedExists ==
  ASSUME NEW F, NEW proofs, NEW m \in Nat
  PROVE  \E g : Grounded(g, F, proofs, m)
<1> DEFINE D == SUBSET F
           start == {f \in F : proofs[f].uses = {}}
           next(S) == {f \in F : proofs[f].uses \subseteq S}
           step == [n \in 1..m |-> [S \in D |-> next(S)]]
<1>1. start \in D /\ step \in [1..m -> [D -> D]]
  <2>1. start \in D /\ \A S \in D : next(S) \in D
    OBVIOUS
  <2> HIDE DEF start, next, D
  <2> QED BY <2>1
<1>2. PICK g : Iterates(g, start, step, D, m)
  <2> HIDE DEF start, step, D
  <2> QED BY <1>1, IterationExists
<1>3. g \in [0..m -> D] /\ g[0] = start /\ \A n \in 1..m : g[n] = next(g[n - 1])
  <2>1. g \in [0..m -> D] /\ g[0] = start /\ \A n \in 1..m : g[n] = step[n][g[n - 1]]
    BY <1>2 DEF Iterates
  <2>2. ASSUME NEW n \in 1..m PROVE g[n] = next(g[n - 1])
    <3>1. n - 1 \in 0..m
      OBVIOUS
    <3>2. g[n - 1] \in D
      BY <2>1, <3>1
    <3> HIDE DEF D, next
    <3>3. step[n][g[n - 1]] = next(g[n - 1])
      BY <3>2
    <3> QED BY <2>1, <3>3
  <2> QED BY <2>1, <2>2
<1> DEFINE h == [k \in 0..m |-> IF k = 0 THEN start ELSE next(g[k - 1])]
<1>4. g = h
  <2> HIDE DEF D, start, next
  <2>1. ASSUME NEW n \in 0..m PROVE g[n] = h[n]
    <3>1. CASE n = 0
      BY <1>3, <3>1
    <3>2. CASE n # 0
      <4>1. n \in 1..m
        BY <3>2
      <4> QED BY <1>3, <4>1, <3>2
    <3> QED BY <3>1, <3>2
  <2>2. g = [n \in 0..m |-> g[n]]
    BY <1>3
  <2> HIDE DEF h
  <2>3. DOMAIN h = 0..m /\ h = [n \in 0..m |-> h[n]]
    BY DEF h
  <2> QED BY <2>1, <2>2, <2>3
<1>5. Grounded(g, F, proofs, m)
  BY <1>4 DEF Grounded
<1> QED BY <1>5

LEMMA GroundedIsAll ==
  ASSUME NEW F, IsFiniteSet(F), NEW proofs, WellFounded(F, proofs),
         NEW g, Grounded(g, F, proofs, Cardinality(F))
  PROVE  g[Cardinality(F)] = F
<1> DEFINE m == Cardinality(F)
           next(S) == {f \in F : proofs[f].uses \subseteq S}
<1>1. m \in Nat
  BY FS_CardinalityType
<1>2. g[0] = {f \in F : proofs[f].uses = {}} /\ \A n \in 1..m : g[n] = next(g[n - 1])
  <2>1. 0 \in 0..m /\ \A n \in 1..m : n \in 0..m /\ n # 0
    BY <1>1
  <2> HIDE DEF m
  <2>2. g = [k \in 0..m |-> IF k = 0 THEN {f \in F : proofs[f].uses = {}}
                      ELSE LET before == g[k - 1] IN {f \in F : proofs[f].uses \subseteq before}]
    BY DEF Grounded, m
  <2> QED BY <2>1, <2>2
<1>3. \A n \in 0..m : g[n] \subseteq F
  <2> TAKE n \in 0..m
  <2>1. CASE n = 0
    BY <1>2, <2>1
  <2>2. CASE n # 0
    <3>1. n \in 1..m
      BY <1>1, <2>2
    <3> QED BY <1>2, <3>1
  <2> QED BY <2>1, <2>2
<1> HIDE DEF m
<1> DEFINE K == {k \in Nat : k + 1 <= m => g[k] \subseteq g[k + 1]}
<1>4. 0 \in K
  <2>1. 1 <= m => 1 \in 1..m /\ 1 - 1 = 0
    BY <1>1
  <2> QED BY <1>2, <2>1
<1>5. ASSUME NEW k \in Nat, k \in K PROVE k + 1 \in K
  <2> SUFFICES ASSUME (k + 1) + 1 <= m PROVE g[k + 1] \subseteq g[(k + 1) + 1]
    OBVIOUS
  <2>1. /\ k + 1 \in 1..m /\ (k + 1) - 1 = k /\ k + 1 <= m
        /\ (k + 1) + 1 \in 1..m /\ ((k + 1) + 1) - 1 = k + 1
    BY <1>1
  <2>2. g[k + 1] = next(g[k]) /\ g[(k + 1) + 1] = next(g[k + 1])
    BY <1>2, <2>1
  <2> QED BY <1>5, <2>1, <2>2
<1> HIDE DEF K
<1>6. Nat \subseteq K
  BY <1>4, <1>5, Induction
<1> DEFINE Q(k) == g[k] = F \/ k < Cardinality(g[k])
           L == {k \in Nat : k <= m => Q(k)}
<1>7. 0 \in L
  <2>1. CASE F = {}
    BY <1>2, <2>1
  <2>2. CASE F # {}
    <3>1. PICK f \in F : proofs[f].uses \cap F = {}
      BY <2>2 DEF WellFounded
    <3>2. f \in g[0]
      BY <1>2, <3>1 DEF WellFounded
    <3>3. 0 \in 0..m
      BY <1>1
    <3>4. g[0] \in SUBSET F
      BY <1>3, <3>3
    <3>5. IsFiniteSet(g[0])
      BY <3>4, FS_Subset
    <3>6. Cardinality(g[0]) \in Nat /\ Cardinality(g[0]) # 0
      BY <3>2, <3>5, FS_EmptySet, FS_CardinalityType
    <3> QED BY <3>6
  <2> QED BY <2>1, <2>2
<1>8. ASSUME NEW k \in Nat, k \in L PROVE k + 1 \in L
  <2> SUFFICES ASSUME k + 1 <= m PROVE Q(k + 1)
    <3> HIDE DEF Q
    <3> QED OBVIOUS
  <2>1. k \in 0..m /\ k + 1 \in 0..m /\ k + 1 \in 1..m /\ (k + 1) - 1 = k /\ k <= m /\ k \in K
    BY <1>1, <1>6
  <2>2. g[k] \subseteq g[k + 1] /\ g[k + 1] = next(g[k]) /\ g[k + 1] \in SUBSET F /\ g[k] \in SUBSET F
    BY <1>2, <1>3, <2>1 DEF K
  <2>3. CASE g[k] = F
    BY <2>2, <2>3
  <2>4. CASE g[k] # F
    <3>1. k < Cardinality(g[k])
      BY <1>8, <2>1, <2>4
    <3>2. PICK f \in F \ g[k] : proofs[f].uses \cap (F \ g[k]) = {}
      <4>1. F \ g[k] \in SUBSET F /\ F \ g[k] # {}
        BY <2>2, <2>4
      <4> QED BY <4>1 DEF WellFounded
    <3>3. f \in g[k + 1]
      BY <2>2, <3>2 DEF WellFounded
    <3>4. IsFiniteSet(g[k]) /\ IsFiniteSet(g[k + 1])
      BY <2>2, FS_Subset
    <3>5. Cardinality(g[k] \cup {f}) = Cardinality(g[k]) + 1 /\ Cardinality(g[k]) \in Nat
      BY <3>2, <3>4, FS_AddElement, FS_CardinalityType
    <3>6. g[k] \cup {f} \in SUBSET g[k + 1]
      BY <2>2, <3>3
    <3>7. Cardinality(g[k] \cup {f}) <= Cardinality(g[k + 1])
      BY <3>4, <3>6, FS_Subset
    <3>8. Cardinality(g[k + 1]) \in Nat
      BY <3>4, FS_CardinalityType
    <3> QED BY <3>1, <3>5, <3>7, <3>8
  <2> QED BY <2>3, <2>4
<1> HIDE DEF L
<1>9. Nat \subseteq L
  BY <1>7, <1>8, Induction
<1>10. Q(m)
  BY <1>1, <1>9 DEF L
<1>11. g[m] \in SUBSET F
  BY <1>1, <1>3
<1>12. Cardinality(g[m]) <= m /\ Cardinality(g[m]) \in Nat
  BY <1>11, FS_Subset, FS_CardinalityType DEF m
<1>13. g[m] = F
  BY <1>1, <1>10, <1>12
<1> QED BY <1>13 DEF m

-----------------------------------------------------------------------------
(* The shape of an evaluation.                                               *)

EngineShape ==
  /\ EngineTypeOK
  /\ IsProgram(program.clauses)
  /\ Strata \in [PredicatesOf(program.clauses) -> Nat]
  /\ Authored(program.clauses) \subseteq db
  /\ newDelta \cap Authored(program.clauses) = {}
  /\ status # "unstratifiable" =>
       \A i \in Rules(program.clauses) : RuleOrdered(program.clauses[i], Strata)
  /\ status = "rules" => agenda \subseteq RoundSteps

LEMMA RuleHeads ==
  ASSUME NEW clauses, NEW i \in Rules(clauses)
  PROVE  clauses[i].head.p \in PredicatesOf(clauses) /\ i \in DOMAIN clauses
BY DEF Rules, PredicatesOf

LEMMA RulesOrdered ==
  ASSUME NEW clauses, IsProgram(clauses), Stratifiable(clauses), NEW i \in Rules(clauses)
  PROVE  RuleOrdered(clauses[i], StrataAfter(clauses, Passes(clauses)))
<1> DEFINE strata == StrataAfter(clauses, Passes(clauses))
           rule == clauses[i]
<1>1. strata \in [PredicatesOf(clauses) -> Nat]
  BY StrataSound
<1>2. i \in DOMAIN clauses /\ rule.head.p \in PredicatesOf(clauses)
  BY RuleHeads
<1>3. ASSUME NEW j \in DOMAIN rule.body
      PROVE  /\ rule.body[j].p \in PredicatesOf(clauses)
             /\ strata[rule.head.p] >= strata[rule.body[j].p] + DependsOn(rule, rule.body[j]).strict
  <2>1. rule.body[j].p \in PredicatesOf(clauses)
    BY <1>2 DEF PredicatesOf, ToSet
  <2>2. /\ DependsOn(rule, rule.body[j]).head = rule.head.p
        /\ DependsOn(rule, rule.body[j]).body = rule.body[j].p
    BY DEF DependsOn
  <2>3. LET d == DependsOn(rule, rule.body[j]) IN strata[d.head] >= strata[d.body] + d.strict
    BY <1>2, StrataSound
  <2> QED BY <2>1, <2>2, <2>3
<1> HIDE DEF strata
<1>4. ASSUME NEW j \in DOMAIN rule.body
      PROVE  /\ strata[rule.body[j].p] \in Nat /\ strata[rule.body[j].p] <= strata[rule.head.p]
             /\ Negated(rule.body[j]) \/ Aggregate(rule) => strata[rule.body[j].p] < strata[rule.head.p]
  <2>1. strata[rule.body[j].p] \in Nat /\ strata[rule.head.p] \in Nat
    BY <1>1, <1>2, <1>3
  <2>2. /\ DependsOn(rule, rule.body[j]).strict \in {0, 1}
        /\ Negated(rule.body[j]) \/ Aggregate(rule) => DependsOn(rule, rule.body[j]).strict = 1
    BY DEF DependsOn, Negated
  <2> HIDE DEF rule
  <2> QED BY <1>3, <2>1, <2>2
<1>5. IsSequence(rule.body) /\ strata[rule.head.p] \in Nat
  BY <1>1, <1>2 DEF IsProgram
<1> QED BY <1>4, <1>5 DEF RuleOrdered, strata

LEMMA AuthoredFinite ==
  ASSUME NEW clauses, IsProgram(clauses)
  PROVE  IsFiniteSet(Authored(clauses))
<1> DEFINE C == {j \in DOMAIN clauses : Fact(clauses[j])}
           head == [i \in C |-> clauses[i].head]
<1>1. IsFiniteSet(C)
  BY SequenceFinite, FS_Subset DEF IsProgram
<1>2. {head[i] : i \in DOMAIN head} = Authored(clauses) /\ DOMAIN head = C
  BY DEF Authored
<1> HIDE DEF C
<1> HIDE DEF head
<1> QED BY <1>1, <1>2, ImageFinite

LEMMA InitProgram ==
  ASSUME EngineInit
  PROVE  /\ IsProgram(program.clauses)
         /\ Strata = StrataAfter(program.clauses, Passes(program.clauses))
<1>1. PICK authored \in Programs :
        program = [clauses |-> Expanded(authored.clauses, authored.goals),
                   strata |-> StrataAfter(Expanded(authored.clauses, authored.goals),
                                          Passes(Expanded(authored.clauses, authored.goals))),
                   authored |-> authored.clauses, goals |-> authored.goals]
  BY DEF EngineInit
<1>2. IsProgram(authored.clauses) /\ IsSequence(authored.goals)
  BY EngineAssumption DEF IsProgram
<1> QED BY <1>1, <1>2, ExpandedIsProgram DEF Strata

LEMMA EngineInitShape == EngineInit => EngineShape
<1> SUFFICES ASSUME EngineInit PROVE EngineShape
  OBVIOUS
<1> DEFINE clauses == program.clauses
<1>1. IsProgram(clauses) /\ Strata = StrataAfter(clauses, Passes(clauses))
  BY InitProgram
<1> HIDE DEF clauses
<1>2. Strata \in [PredicatesOf(clauses) -> Nat]
  BY <1>1, StrataSound
<1>3. db = Authored(clauses) /\ IsFiniteSet(db)
  BY <1>1, AuthoredFinite DEF EngineInit, clauses
<1>4. status # "unstratifiable" => \A i \in Rules(clauses) : RuleOrdered(clauses[i], Strata)
  BY <1>1, RulesOrdered DEF EngineInit, clauses
<1>5. EngineTypeOK /\ newDelta = {} /\ status # "rules"
  BY <1>3 DEF EngineInit, EngineTypeOK
<1> QED BY <1>1, <1>2, <1>3, <1>4, <1>5 DEF EngineShape, clauses

LEMMA FirstOf ==
  ASSUME NEW S \in SUBSET (Nat \X Nat), S # {}
  PROVE  \E s \in S : \A t \in S \ {s} : Earlier(s, t)
<1> DEFINE A == {s[1] : s \in S}
<1>1. PICK x \in A : \A y \in A : ~(y < x)
  <2>1. A \subseteq Nat /\ A # {}
    OBVIOUS
  <2> HIDE DEF A
  <2> QED BY <2>1, LeastNumber
<1> DEFINE B == {s[2] : s \in {t \in S : t[1] = x}}
<1>2. PICK z \in B : \A y \in B : ~(y < z)
  <2>1. B \subseteq Nat /\ B # {}
    OBVIOUS
  <2> HIDE DEF B
  <2> QED BY <2>1, LeastNumber
<1>3. PICK s \in S : s[1] = x /\ s[2] = z
  OBVIOUS
<1>4. ASSUME NEW t \in S \ {s} PROVE Earlier(s, t)
  <2>1. t[1] \in A /\ t[1] \in Nat /\ t[2] \in Nat /\ s[1] \in Nat /\ s[2] \in Nat
        /\ t = <<t[1], t[2]>> /\ s = <<s[1], s[2]>>
    OBVIOUS
  <2>2. ~(t[1] < x)
    BY <1>1, <2>1
  <2>3. t[1] = x => ~(t[2] < z) /\ t[2] # z
    <3> SUFFICES ASSUME t[1] = x PROVE ~(t[2] < z) /\ t[2] # z
      OBVIOUS
    <3>1. t[2] \in B
      OBVIOUS
    <3>2. t[2] # z
      BY <1>3, <2>1
    <3> QED BY <1>2, <3>1, <3>2
  <2> HIDE DEF A, B
  <2> QED BY <1>3, <2>1, <2>2, <2>3 DEF Earlier
<1> QED BY <1>4

LEMMA PositionsNatural ==
  ASSUME NEW rule, IsSequence(rule.body)
  PROVE  /\ Positions(rule) \subseteq Nat
         /\ \A j \in Positions(rule) : j \in DOMAIN rule.body => ~Negated(rule.body[j])
<1>1. PositiveGoals(rule) \subseteq Nat /\ \A j \in PositiveGoals(rule) : ~Negated(rule.body[j])
  BY SequenceShape DEF PositiveGoals
<1>2. 0 \notin DOMAIN rule.body
  BY SequenceShape
<1> QED BY <1>1, <1>2 DEF Positions, DeltaGoals

LEMMA StepsOf ==
  ASSUME EngineShape, NEW s \in RoundSteps
  PROVE  /\ s \in Nat \X Nat /\ s[1] \in StratumRules /\ s[2] \in Positions(program.clauses[s[1]])
         /\ s[1] \in Rules(program.clauses) /\ Strata[program.clauses[s[1]].head.p] = level
<1>1. PICK i \in StratumRules : s \in {i} \X Positions(program.clauses[i])
  BY DEF RoundSteps
<1>2. i \in Rules(program.clauses) /\ Strata[program.clauses[i].head.p] = level
  BY DEF StratumRules
<1>3. i \in DOMAIN program.clauses
  BY <1>2, RuleHeads
<1>4. i \in Nat /\ IsSequence(program.clauses[i].body)
  BY <1>3, SequenceShape DEF EngineShape, IsProgram
<1>5. Positions(program.clauses[i]) \subseteq Nat
  BY <1>4, PositionsNatural
<1> QED BY <1>1, <1>2, <1>4, <1>5

LEMMA CurrentOf ==
  ASSUME EngineShape, status = "rules", agenda # {}
  PROVE  /\ Current \in agenda /\ Current \in RoundSteps
         /\ Current[1] \in Rules(program.clauses) /\ Rule = program.clauses[Current[1]]
         /\ Position \in Positions(Rule)
         /\ Position \in DOMAIN Rule.body => ~Negated(Rule.body[Position])
         /\ RuleOrdered(Rule, Strata) /\ Strata[Rule.head.p] = level
<1>1. agenda \subseteq RoundSteps
  BY DEF EngineShape
<1>2. agenda \in SUBSET (Nat \X Nat)
  BY <1>1, StepsOf
<1>3. Current \in agenda
  <2>1. \E s \in agenda : \A t \in agenda \ {s} : Earlier(s, t)
    BY <1>2, FirstOf
  <2> QED BY <2>1 DEF Current
<1>4. Current \in RoundSteps
  BY <1>1, <1>3
<1>5. /\ Current[1] \in Rules(program.clauses) /\ Strata[Rule.head.p] = level
      /\ Position \in Positions(Rule)
  BY <1>4, StepsOf DEF Rule, Position
<1>6. RuleOrdered(Rule, Strata)
  BY <1>5 DEF EngineShape, Rule
<1>7. Position \in DOMAIN Rule.body => ~Negated(Rule.body[Position])
  BY <1>5, <1>6, PositionsNatural DEF RuleOrdered
<1> QED BY <1>3, <1>4, <1>5, <1>6, <1>7 DEF Rule

Reading == Visits(Rule.body, Position, db, delta)

LEMMA VisitAllCounts ==
  ASSUME EngineShape, status = "rules", agenda # {}, VisitAll
  PROVE  /\ visits' \in [least : Nat, most : Nat]
         /\ visits'.most = visits.most + Cardinality(Reading)
<1> DEFINE V == Visits(Rule.body, Position, base, delta \cap base)
           sure == Inevitable(Rule.body, V)
<1>1. IsSequence(Rule.body)
  BY CurrentOf DEF RuleOrdered
<1>2. IsFiniteSet(db) /\ delta \subseteq db /\ base \subseteq db
  BY DEF EngineShape, EngineTypeOK
<1>3. IsFiniteSet(delta) /\ IsFiniteSet(base) /\ IsFiniteSet(delta \cap base)
  BY <1>2, FS_Subset
<1>4. IsFiniteSet(Reading) /\ IsFiniteSet(V)
  BY <1>1, <1>2, <1>3, VisitsFinite DEF Reading
<1>5. IsFiniteSet(sure)
  <2>1. sure \subseteq V
    BY DEF Inevitable
  <2> HIDE DEF sure, V
  <2> QED BY <1>4, <2>1, FS_Subset
<1>6. Cardinality(Reading) \in Nat /\ Cardinality(sure) \in Nat
  BY <1>4, <1>5, FS_CardinalityType
<1>7. visits' = [least |-> visits.least + Cardinality(sure), most |-> visits.most + Cardinality(Reading)]
  BY DEF VisitAll, Reading
<1>8. visits.least \in Nat /\ visits.most \in Nat
  BY DEF EngineShape, EngineTypeOK
<1> HIDE DEF sure
<1> QED BY <1>6, <1>7, <1>8

\* A rule of the stratum adds facts that were not known.
Adding(facts, proof) ==
  /\ status = "rules" /\ facts \cap db = {} /\ IsFiniteSet(facts)
  /\ \A f \in facts : Strata[f.p] = level
  /\ Add(facts, proof)
  /\ agenda' \subseteq agenda /\ visits' \in [least : Nat, most : Nat]
  /\ UNCHANGED <<program, level, first, iterations>>

LEMMA DeriveAdds ==
  ASSUME EngineShape, Derive
  PROVE  \E s \in Solutions(Rule.body, Position, db, delta) :
           /\ Derived(Rule, s) \notin db /\ Adding({Derived(Rule, s)}, Proof(s))
           /\ agenda' = agenda /\ base' = base /\ agenda # {} /\ ~Aggregate(Rule)
           /\ visits' = visits
<1>1. status = "rules" /\ agenda # {} /\ ~Aggregate(Rule)
  BY DEF Derive
<1>2. PICK s \in Solutions(Rule.body, Position, db, delta) :
        ~Known(Derived(Rule, s)) /\ Add({Derived(Rule, s)}, Proof(s))
  BY DEF Derive
<1>3. Strata[Derived(Rule, s).p] = level
  BY <1>1, CurrentOf, HeadDerived
<1>4. Derived(Rule, s) \notin db /\ IsFiniteSet({Derived(Rule, s)})
  BY <1>2, FS_Singleton DEF Known
<1>5. UNCHANGED <<program, level, first, iterations, agenda, base, visits>>
  BY DEF Derive
<1>6. Adding({Derived(Rule, s)}, Proof(s))
  BY <1>1, <1>2, <1>3, <1>4, <1>5 DEF Adding, EngineShape, EngineTypeOK
<1> QED BY <1>1, <1>4, <1>5, <1>6

NoProof == [uses |-> {}, absent |-> {}]

LEMMA CountRowsAdds ==
  ASSUME EngineShape, CountRows
  PROVE  /\ status = "rules" /\ agenda # {} /\ Aggregate(Rule)
         /\ agenda' = agenda \ {Current} /\ UNCHANGED <<program, level, first, iterations>>
         /\ visits' \in [least : Nat, most : Nat]
         /\ visits'.most = visits.most + Cardinality(Reading)
         /\ \/ /\ Cardinality(Solutions(Rule.body, 0, db, {})) > MaxAggregateRows
               /\ status' = "limit" /\ UNCHANGED <<derivation, delta, base>>
            \/ Adding(Counted(Rule, db) \ db, NoProof) /\ base' = db'
<1>1. /\ status = "rules" /\ agenda # {} /\ Aggregate(Rule)
      /\ agenda' = agenda \ {Current} /\ UNCHANGED <<program, level, first, iterations>>
      /\ VisitAll
  BY DEF CountRows
<1>8. /\ visits' \in [least : Nat, most : Nat]
      /\ visits'.most = visits.most + Cardinality(Reading)
  BY <1>1, VisitAllCounts
<1> DEFINE counted == Counted(Rule, db) \ db
<1>2. {f \in Counted(Rule, db) : ~Known(f)} = counted
  BY DEF Known
<1>3. \/ /\ Cardinality(Solutions(Rule.body, 0, db, {})) > MaxAggregateRows
         /\ status' = "limit" /\ UNCHANGED <<derivation, delta, base>>
      \/ Add(counted, NoProof) /\ base' = db'
  BY <1>2 DEF CountRows, NoProof
<1>4. RuleOrdered(Rule, Strata) /\ Strata[Rule.head.p] = level
  BY <1>1, CurrentOf
<1>5. \A f \in counted : Strata[f.p] = level
  BY <1>4, HeadDerived
<1>6. IsFiniteSet(counted)
  <2>1. IsFiniteSet(Counted(Rule, db))
    BY <1>4, CountedFinite DEF RuleOrdered, EngineShape, EngineTypeOK
  <2> QED BY <2>1, FS_Subset
<1>7. ASSUME Add(counted, NoProof) PROVE Adding(counted, NoProof)
  BY <1>1, <1>5, <1>6, <1>7, <1>8 DEF Adding
<1> QED BY <1>1, <1>3, <1>7, <1>8

LEMMA AddingShape ==
  ASSUME EngineShape, NEW facts, NEW proof, Adding(facts, proof), base' \in {base, db'}
  PROVE  EngineShape'
<1>1. /\ status = "rules" /\ facts \cap db = {} /\ IsFiniteSet(facts)
      /\ agenda' \subseteq agenda /\ visits' \in [least : Nat, most : Nat]
      /\ program' = program /\ level' = level /\ first' = first /\ iterations' = iterations
      /\ db' = db \cup facts /\ why' = Explained(facts, proof) /\ newDelta' = newDelta \cup facts
      /\ delta' = (IF first THEN delta \cup {f \in facts : \E g \in delta : g.p = f.p} ELSE delta)
      /\ status' = (IF Cardinality(db') > MaxFacts THEN "limit" ELSE status)
  BY DEF Adding, Add
<1>2. EngineTypeOK'
  <2>1. IsFiniteSet(db') /\ DOMAIN why' = db'
    BY <1>1, FS_Union DEF Explained, EngineShape, EngineTypeOK
  <2>2. delta' \subseteq db'
    BY <1>1 DEF EngineShape, EngineTypeOK
  <2>3. newDelta' \subseteq db' /\ base' \subseteq db'
    BY <1>1 DEF EngineShape, EngineTypeOK
  <2> QED BY <1>1, <2>1, <2>2, <2>3 DEF EngineShape, EngineTypeOK
<1>3. Authored(program.clauses) \subseteq db' /\ newDelta' \cap Authored(program.clauses) = {}
  BY <1>1 DEF EngineShape
<1>4. agenda' \subseteq RoundSteps /\ RoundSteps' = RoundSteps
  <2>1. RoundSteps' = RoundSteps
    BY <1>1 DEF RoundSteps, StratumRules, Positions, Strata
  <2> QED BY <1>1, <2>1 DEF EngineShape
<1>5. Strata' = Strata
  BY <1>1 DEF Strata
<1> QED BY <1>1, <1>2, <1>3, <1>4, <1>5 DEF EngineShape

LEMMA EngineShapeStep == EngineShape /\ [EngineNext]_engineVars => EngineShape'
<1> SUFFICES ASSUME EngineShape, [EngineNext]_engineVars PROVE EngineShape'
  OBVIOUS
<1> USE DEF EngineShape, EngineTypeOK
<1>1. CASE NextStratum
  <2>1. /\ program' = program /\ iterations' = iterations /\ db' = db /\ why' = why
        /\ newDelta' = newDelta /\ base' = base /\ visits' = visits /\ status = "stratum"
        /\ level' \in {level, level + 1} /\ first' \in {first, TRUE} /\ delta' \in {delta, db}
        /\ status' \in {"stratum", "done", "round"}
    BY <1>1 DEF NextStratum, derivation
  <2>2. Strata' = Strata
    BY <2>1 DEF Strata
  <2>3. EngineTypeOK'
    <3>1. status' \in {"stratum", "round", "rules", "done", "limit", "unstratifiable"}
          /\ level' \in Nat
      BY <2>1
    <3>2. first' \in BOOLEAN
      <4>1. CASE first' = first
        BY <4>1
      <4>2. CASE first' = TRUE
        BY <4>2
      <4> QED BY <2>1, <4>1, <4>2
    <3> QED BY <2>1, <3>1, <3>2
  <2> HIDE DEF EngineTypeOK
  <2> QED BY <2>1, <2>2, <2>3
<1>2. CASE NextRound
  <2>1. /\ program' = program /\ first' = first /\ delta' = delta /\ db' = db /\ why' = why
        /\ visits' = visits /\ status = "round" /\ iterations' \in {iterations, iterations + 1}
        /\ level' \in {level, level + 1} /\ newDelta' \in {newDelta, {}} /\ base' \in {base, db}
        /\ status' \in {"stratum", "limit", "rules"}
        /\ status' = "rules" => agenda' = RoundSteps /\ level' = level
    BY <1>2 DEF NextRound
  <2>2. Strata' = Strata
    BY <2>1 DEF Strata
  <2>3. status' = "rules" => agenda' = RoundSteps'
    BY <2>1, <2>2 DEF RoundSteps, StratumRules, Positions
  <2> QED BY <2>1, <2>2, <2>3
<1>3. CASE Derive
  BY <1>3, DeriveAdds, AddingShape
<1>4. CASE NextPosition
  <2>1. /\ UNCHANGED <<program, status, level, first, iterations, delta, db, why, newDelta>>
        /\ agenda' = agenda \ {Current} /\ base' = db /\ status = "rules" /\ agenda # {} /\ VisitAll
    BY <1>4 DEF NextPosition, rounds, derivation
  <2>2. Strata' = Strata
    BY <2>1 DEF Strata
  <2>3. RoundSteps' = RoundSteps
    BY <2>1, <2>2 DEF RoundSteps, StratumRules, Positions
  <2>4. visits' \in [least : Nat, most : Nat]
    BY <2>1, VisitAllCounts
  <2> QED BY <2>1, <2>2, <2>3, <2>4
<1>5. CASE CountRows
  <2>1. CASE Adding(Counted(Rule, db) \ db, NoProof) /\ base' = db'
    BY <2>1, AddingShape
  <2>2. CASE status' = "limit" /\ UNCHANGED <<derivation, delta, base>>
    <3>1. /\ UNCHANGED <<program, level, first, iterations>> /\ status = "rules"
          /\ visits' \in [least : Nat, most : Nat]
      BY <1>5, CountRowsAdds
    <3>2. UNCHANGED <<db, why, newDelta, delta, base>> /\ Strata' = Strata
      BY <2>2, <3>1 DEF derivation, Strata
    <3> QED BY <2>2, <3>1, <3>2
  <2> QED BY <1>5, <2>1, <2>2, CountRowsAdds
<1>6. CASE EndRound
  <2>1. /\ UNCHANGED <<program, level, iterations, db, why, newDelta, agenda, base, visits>>
        /\ status = "rules" /\ status' = "round" /\ delta' = newDelta /\ first' = FALSE
    BY <1>6 DEF EndRound, derivation
  <2>2. Strata' = Strata
    BY <2>1 DEF Strata
  <2> QED BY <2>1, <2>2
<1>8. CASE VisitTooMany
  <2>1. /\ UNCHANGED <<program, level, first, iterations, delta, db, why, newDelta, base, visits>>
        /\ status = "rules" /\ status' = "limit"
    BY <1>8 DEF VisitTooMany, rounds, derivation
  <2>2. Strata' = Strata
    BY <2>1 DEF Strata
  <2> QED BY <2>1, <2>2
<1>7. CASE UNCHANGED engineVars
  <2>1. UNCHANGED <<program, status, level, first, iterations, delta, db, why, newDelta, agenda, base, visits>>
    BY <1>7 DEF engineVars, rounds, derivation
  <2>2. Strata' = Strata
    BY <2>1 DEF Strata
  <2>3. RoundSteps' = RoundSteps
    BY <2>1, <2>2 DEF RoundSteps, StratumRules, Positions
  <2> QED BY <2>1, <2>2, <2>3
<1> QED BY <1>1, <1>2, <1>3, <1>4, <1>5, <1>6, <1>7, <1>8 DEF EngineNext

\* The variables keep their types, and the program stays what it was: for every
\* program, the limits included (deriveDatabase).
THEOREM EngineTypes == EngineSpec => []EngineTypeOK
<1>1. EngineShape => EngineTypeOK
  BY DEF EngineShape
<1> QED BY <1>1, EngineInitShape, EngineShapeStep, PTL DEF EngineSpec

-----------------------------------------------------------------------------
(* The limits.                                                               *)

Gained == Cardinality(db \ Authored(program.clauses))

\* Every iteration but the last of a stratum has added a fact.
IterationsPaid ==
  /\ status = "stratum" => iterations <= Gained + level
  /\ status = "round" => \/ iterations <= Gained + level
                         \/ ~first /\ delta = {} /\ iterations <= Gained + level + 1
  /\ status = "rules" =>
       iterations <= Cardinality((db \ newDelta) \ Authored(program.clauses)) + level + 1

\* The rules of the strata up to n, each with a goal that reads the delta.
StepsUpTo(clauses, strata, n) ==
  LET rules == {i \in Rules(clauses) : strata[clauses[i].head.p] <= n}
  IN UNION {{i} \X DeltaGoals(clauses[i]) : i \in rules}

\* What they visit when they read all facts.
VisitedBy(clauses, steps, facts) ==
  UNION {{step} \X Visits(clauses[step[1]].body, 0, facts, {}) : step \in steps}

WorkSteps == StepsUpTo(program.clauses, Strata, level)

LEMMA WorkIs == Work = VisitedBy(program.clauses, WorkSteps, db)
BY DEF Work, VisitedBy, WorkSteps, StepsUpTo

LEMMA StepUpTo ==
  ASSUME NEW clauses, NEW strata, NEW n, NEW s
  PROVE  s \in StepsUpTo(clauses, strata, n) <=>
           \E i \in Rules(clauses) :
             strata[clauses[i].head.p] <= n /\ s \in {i} \X DeltaGoals(clauses[i])
BY DEF StepsUpTo

LEMMA StepsFinite ==
  ASSUME NEW clauses, IsProgram(clauses), NEW strata, NEW n
  PROVE  IsFiniteSet(StepsUpTo(clauses, strata, n))
<1> DEFINE R == {i \in Rules(clauses) : strata[clauses[i].head.p] <= n}
           g == [i \in R |-> {i} \X DeltaGoals(clauses[i])]
           T == {g[i] : i \in DOMAIN g}
<1>1. IsFiniteSet(R)
  BY SequenceFinite, FS_Subset DEF IsProgram, Rules
<1>2. ASSUME NEW i \in R PROVE IsFiniteSet({i} \X DeltaGoals(clauses[i]))
  <2>1. IsSequence(clauses[i].body)
    BY RuleHeads DEF IsProgram
  <2>2. IsFiniteSet(PositiveGoals(clauses[i]))
    BY <2>1, SequenceFinite, FS_Subset DEF PositiveGoals
  <2>3. IsFiniteSet(DeltaGoals(clauses[i]))
    BY <2>2, FS_Singleton DEF DeltaGoals
  <2> QED BY <2>3, FS_Singleton, FS_Product
<1>3. IsFiniteSet(T)
  <2>1. IsFiniteSet(DOMAIN g)
    BY <1>1
  <2> HIDE DEF g
  <2> QED BY <2>1, ImageFinite
<1>4. \A t \in T : IsFiniteSet(t)
  <2> HIDE DEF R
  <2> QED BY <1>2
<1>5. StepsUpTo(clauses, strata, n) = UNION T
  BY DEF StepsUpTo
<1> HIDE DEF T
<1> QED BY <1>3, <1>4, <1>5, FS_UNION

LEMMA VisitedFinite ==
  ASSUME NEW clauses, IsProgram(clauses), NEW strata, NEW n,
         NEW steps \in SUBSET StepsUpTo(clauses, strata, n), NEW F, IsFiniteSet(F)
  PROVE  IsFiniteSet(VisitedBy(clauses, steps, F)) /\ Cardinality(VisitedBy(clauses, steps, F)) \in Nat
<1> DEFINE V(step) == {step} \X Visits(clauses[step[1]].body, 0, F, {})
           g == [step \in steps |-> V(step)]
           T == {g[step] : step \in DOMAIN g}
<1>1. IsFiniteSet(steps)
  BY StepsFinite, FS_Subset
<1>2. ASSUME NEW step \in steps PROVE IsFiniteSet(V(step))
  <2>1. step[1] \in Rules(clauses)
    BY StepUpTo
  <2>2. IsSequence(clauses[step[1]].body)
    BY <2>1, RuleHeads DEF IsProgram
  <2>3. IsFiniteSet(Visits(clauses[step[1]].body, 0, F, {}))
    BY <2>2, VisitsFinite, FS_EmptySet
  <2> QED BY <2>3, FS_Singleton, FS_Product
<1>3. IsFiniteSet(T)
  <2>1. IsFiniteSet(DOMAIN g)
    BY <1>1
  <2> HIDE DEF g
  <2> QED BY <2>1, ImageFinite
<1>4. \A t \in T : IsFiniteSet(t)
  <2> HIDE DEF V
  <2> QED BY <1>2
<1>5. VisitedBy(clauses, steps, F) = UNION T
  BY DEF VisitedBy
<1>6. IsFiniteSet(VisitedBy(clauses, steps, F))
  <2> HIDE DEF T
  <2> QED BY <1>3, <1>4, <1>5, FS_UNION
<1> QED BY <1>6, FS_CardinalityType

LEMMA VisitedGrows ==
  ASSUME NEW clauses, IsProgram(clauses), NEW strata, NEW n \in Nat,
         \A i \in Rules(clauses) : RuleOrdered(clauses[i], strata),
         NEW T \in SUBSET StepsUpTo(clauses, strata, n), NEW S \in SUBSET T,
         NEW F, NEW G, Grown(F, G, strata, n), IsFiniteSet(G)
  PROVE  /\ VisitedBy(clauses, S, F) \subseteq VisitedBy(clauses, T, G)
         /\ Cardinality(VisitedBy(clauses, S, F)) <= Cardinality(VisitedBy(clauses, T, G))
<1>1. ASSUME NEW step \in S
      PROVE  Visits(clauses[step[1]].body, 0, F, {}) \subseteq Visits(clauses[step[1]].body, 0, G, {})
  <2>1. step[1] \in Rules(clauses) /\ strata[clauses[step[1]].head.p] <= n
    BY StepUpTo
  <2>2. RuleOrdered(clauses[step[1]], strata)
    BY <2>1
  <2>3. 0 \notin DOMAIN clauses[step[1]].body
    BY <2>2, SequenceShape DEF RuleOrdered
  <2> QED BY <2>1, <2>2, <2>3, VisitsGrow
<1>2. VisitedBy(clauses, S, F) \subseteq VisitedBy(clauses, T, G)
  BY <1>1 DEF VisitedBy
<1>3. IsFiniteSet(VisitedBy(clauses, T, G))
  BY VisitedFinite
<1> QED BY <1>2, <1>3, FS_Subset

\* No round has visited more than its rules have to.
VisitsPaid ==
  /\ status \in {"stratum", "round"} => visits.most <= iterations * Cardinality(Work)
  /\ status = "rules" =>
       /\ iterations > 0
       /\ visits.most <= (iterations - 1) * Cardinality(Work)
                         + Cardinality(VisitedBy(program.clauses, WorkSteps \ agenda, db))

LEMMA MoreWork ==
  ASSUME NEW k \in Nat, NEW v \in Nat, NEW w \in Nat, w <= v
  PROVE  k * w <= k * v /\ k * w \in Nat /\ (k + 1) * w = k * w + w
<1>1. k * v = k * w + k * (v - w) /\ k * (v - w) >= 0
  OBVIOUS
<1> QED BY <1>1

\* The work of the strata up to this one only grows.
LEMMA WorkGrows ==
  ASSUME EngineShape, EngineShape', status # "unstratifiable", program' = program,
         Grown(db, db', Strata, level), level' \in {level, level + 1}
  PROVE  /\ Cardinality(Work) \in Nat /\ Cardinality(Work') \in Nat
         /\ Cardinality(Work) <= Cardinality(Work')
<1> DEFINE clauses == program.clauses
           S == StepsUpTo(clauses, Strata, level)
           T == StepsUpTo(clauses, Strata, level')
<1>0. /\ IsProgram(clauses) /\ IsFiniteSet(db) /\ IsFiniteSet(db') /\ Strata' = Strata
      /\ level \in Nat /\ level' \in Nat
      /\ \A i \in Rules(clauses) : RuleOrdered(clauses[i], Strata)
  BY DEF EngineShape, EngineTypeOK, Strata
<1>1. /\ Work = VisitedBy(clauses, S, db) /\ Work' = VisitedBy(clauses, T, db')
  BY <1>0, WorkIs DEF Work, VisitedBy, WorkSteps, StepsUpTo
<1>2. S \subseteq T
  <2> SUFFICES ASSUME NEW s \in S PROVE s \in T
    OBVIOUS
  <2>1. PICK i \in Rules(clauses) : Strata[clauses[i].head.p] <= level /\ s \in {i} \X DeltaGoals(clauses[i])
    BY StepUpTo
  <2>2. Strata[clauses[i].head.p] \in Nat
    BY <1>0 DEF RuleOrdered
  <2>3. Strata[clauses[i].head.p] <= level'
    BY <1>0, <2>1, <2>2
  <2> QED BY <2>1, <2>3, StepUpTo
<1> HIDE DEF clauses
<1>3. VisitedBy(clauses, S, db) \subseteq VisitedBy(clauses, S, db')
  BY <1>0, VisitedGrows
<1>4. VisitedBy(clauses, S, db') \subseteq VisitedBy(clauses, T, db')
  BY <1>2 DEF VisitedBy
<1>5. IsFiniteSet(VisitedBy(clauses, T, db'))
  <2>1. T \in SUBSET T
    OBVIOUS
  <2> QED BY <1>0, <2>1, VisitedFinite
<1> HIDE DEF S, T
<1>6. Work \subseteq Work' /\ IsFiniteSet(Work')
  BY <1>1, <1>3, <1>4, <1>5
<1> QED BY <1>6, FS_Subset, FS_CardinalityType

LEMMA TakenNatural ==
  ASSUME EngineShape, NEW steps \in SUBSET WorkSteps
  PROVE  Cardinality(VisitedBy(program.clauses, steps, db)) \in Nat
BY VisitedFinite DEF EngineShape, EngineTypeOK, WorkSteps

\* What a rule reads, the delta for one goal, is at most what it reads of everything.
LEMMA ReadingIsWork ==
  ASSUME EngineShape, status = "rules", agenda # {}
  PROVE  LET taken == VisitedBy(program.clauses, WorkSteps \ agenda, db)
             after == VisitedBy(program.clauses, WorkSteps \ (agenda \ {Current}), db)
         IN /\ Cardinality(taken) \in Nat /\ Cardinality(after) \in Nat
            /\ Cardinality(Reading) \in Nat
            /\ Cardinality(taken) + Cardinality(Reading) <= Cardinality(after)
            /\ Cardinality(after) <= Cardinality(Work)
<1> DEFINE clauses == program.clauses
           V == Visits(Rule.body, 0, db, {})
           S == WorkSteps \ agenda
           A == VisitedBy(clauses, S, db)
           B == {Current} \X V
           C == VisitedBy(clauses, WorkSteps \ (agenda \ {Current}), db)
<1>1. /\ Current \in agenda /\ Current[1] \in Rules(clauses) /\ Rule = clauses[Current[1]]
      /\ Position \in Positions(Rule) /\ Current \in RoundSteps
      /\ Position \in DOMAIN Rule.body => ~Negated(Rule.body[Position])
      /\ RuleOrdered(Rule, Strata) /\ Strata[Rule.head.p] = level
  BY CurrentOf
<1>2. IsFiniteSet(db) /\ delta \subseteq db /\ level \in Nat /\ IsProgram(clauses)
  BY DEF EngineShape, EngineTypeOK
<1>3. Current \in WorkSteps
  <2>1. Current \in {Current[1]} \X DeltaGoals(clauses[Current[1]])
    <3>1. Current \in Nat \X Nat /\ Current[2] \in Positions(clauses[Current[1]])
      BY <1>1, StepsOf
    <3>2. Current[2] \in DeltaGoals(clauses[Current[1]])
      BY <3>1 DEF Positions
    <3> QED BY <3>1, <3>2
  <2>2. Strata[clauses[Current[1]].head.p] <= level
    BY <1>1, <1>2
  <2> QED BY <1>1, <2>1, <2>2, StepUpTo DEF WorkSteps
<1>4. Reading \subseteq V
  <2>1. Grown(db, db, Strata, level) /\ delta \in SUBSET db /\ Strata[Rule.head.p] <= level
    BY <1>1, <1>2 DEF Grown
  <2>2. Visits(Rule.body, Position, db, delta) \subseteq Visits(Rule.body, 0, db, {})
    BY <1>1, <1>2, <2>1, VisitsGrow
  <2> QED BY <2>2 DEF Reading
<1>5. IsFiniteSet(V)
  BY <1>1, <1>2, VisitsFinite, FS_EmptySet DEF RuleOrdered
<1>6. Cardinality(Reading) \in Nat /\ Cardinality(Reading) <= Cardinality(V) /\ Cardinality(V) \in Nat
  <2> HIDE DEF V
  <2> QED BY <1>4, <1>5, FS_Subset, FS_CardinalityType
<1>7. IsFiniteSet(B) /\ Cardinality(B) = Cardinality(V)
  <2> HIDE DEF V
  <2>1. IsFiniteSet({Current}) /\ Cardinality({Current}) = 1
    BY FS_Singleton
  <2>2. IsFiniteSet(B) /\ Cardinality(B) = 1 * Cardinality(V)
    BY <1>5, <2>1, FS_Product
  <2> QED BY <1>6, <2>2
<1>8. C = A \cup B
  <2>1. WorkSteps \ (agenda \ {Current}) = S \cup {Current}
    BY <1>1, <1>3
  <2> QED BY <1>1, <2>1 DEF VisitedBy
<1>9. A \cap B = {}
  BY <1>1 DEF VisitedBy
<1>10. IsFiniteSet(A) /\ Cardinality(A) \in Nat
  BY <1>2, VisitedFinite DEF WorkSteps
<1>11. Cardinality(C) = Cardinality(A) + Cardinality(V)
  <2> HIDE DEF A, B, C, V
  <2>1. Cardinality(A \cup B) = Cardinality(A) + Cardinality(B) - Cardinality(A \cap B)
    BY <1>7, <1>10, FS_Union
  <2>2. Cardinality(A \cap B) = 0
    BY <1>9, FS_EmptySet
  <2> QED BY <1>6, <1>7, <1>8, <1>10, <2>1, <2>2
<1>12. Cardinality(C) <= Cardinality(Work)
  <2>1. C \subseteq Work
    BY WorkIs DEF VisitedBy
  <2>2. IsFiniteSet(Work)
    <3>1. WorkSteps \in SUBSET StepsUpTo(clauses, Strata, level)
      BY DEF WorkSteps
    <3> QED BY <1>2, <3>1, WorkIs, VisitedFinite
  <2> HIDE DEF C
  <2> QED BY <2>1, <2>2, FS_Subset
<1> HIDE DEF V
<1>13. Cardinality(A) + Cardinality(Reading) <= Cardinality(C) /\ Cardinality(C) \in Nat
  BY <1>6, <1>10, <1>11
<1> QED BY <1>6, <1>10, <1>12, <1>13

\* A step of a rule, and the visits of the rule when it ends, are paid for.
LEMMA RulePays ==
  ASSUME EngineShape, EngineShape', VisitsPaid, status = "rules", Grown(db, db', Strata, level),
         UNCHANGED <<program, level, iterations>>, status' \in {"rules", "limit"},
         \/ agenda' = agenda /\ visits' = visits
         \/ /\ agenda # {} /\ agenda' = agenda \ {Current}
            /\ visits'.most = visits.most + Cardinality(Reading)
  PROVE  VisitsPaid'
<1> DEFINE clauses == program.clauses
           k == iterations - 1
           w == Cardinality(Work)
           v == Cardinality(Work')
           taken == Cardinality(VisitedBy(clauses, WorkSteps \ agenda, db))
           after == Cardinality(VisitedBy(clauses, WorkSteps \ agenda', db))
           grown == Cardinality(VisitedBy(clauses, WorkSteps \ agenda', db'))
<1>1. /\ IsProgram(clauses) /\ IsFiniteSet(db') /\ Strata' = Strata /\ level \in Nat
      /\ iterations \in Nat /\ iterations > 0 /\ visits.most \in Nat
      /\ visits.most <= k * w + taken
      /\ \A i \in Rules(clauses) : RuleOrdered(clauses[i], Strata)
  BY DEF EngineShape, EngineTypeOK, Strata, VisitsPaid
<1>2. WorkSteps' = WorkSteps
  BY <1>1 DEF WorkSteps
<1>3. k \in Nat /\ w \in Nat /\ v \in Nat /\ w <= v
  BY <1>1, WorkGrows
<1>4. k * w \in Nat /\ k * w <= k * v
  BY <1>3, MoreWork
<1>5. after \in Nat /\ taken \in Nat
  BY TakenNatural
<1>6. after <= grown
  <2>1. WorkSteps \ agenda' \in SUBSET StepsUpTo(clauses, Strata, level)
    BY DEF WorkSteps
  <2>2. WorkSteps \ agenda' \in SUBSET (WorkSteps \ agenda')
    OBVIOUS
  <2> HIDE DEF clauses
  <2> QED BY <1>1, <2>1, <2>2, VisitedGrows
<1>7. grown \in Nat
  <2>1. WorkSteps \ agenda' \in SUBSET StepsUpTo(clauses, Strata, level)
    BY DEF WorkSteps
  <2> HIDE DEF clauses
  <2> QED BY <1>1, <2>1, VisitedFinite
<1>8. visits'.most <= k * w + after
  <2>1. CASE agenda' = agenda /\ visits' = visits
    BY <1>1, <2>1
  <2>2. CASE /\ agenda # {} /\ agenda' = agenda \ {Current}
             /\ visits'.most = visits.most + Cardinality(Reading)
    <3>1. Cardinality(Reading) \in Nat /\ taken + Cardinality(Reading) <= after
      BY <2>2, ReadingIsWork
    <3> HIDE DEF k, w, taken, after
    <3> QED BY <1>1, <1>4, <1>5, <2>2, <3>1
  <2> QED BY <2>1, <2>2
<1>9. visits'.most <= k * v + grown
  <2>1. visits'.most \in Nat
    BY DEF EngineShape, EngineTypeOK
  <2>2. k * v \in Int
    BY <1>3
  <2> HIDE DEF k, w, v, after, grown
  <2> QED BY <1>4, <1>5, <1>6, <1>7, <1>8, <2>1, <2>2
<1> QED BY <1>1, <1>2, <1>9 DEF VisitsPaid

LEMMA VisitsStep ==
  ASSUME EngineShape, EngineShape', VisitsPaid, EngineNext
  PROVE  VisitsPaid'
<1>0. /\ iterations \in Nat /\ visits.most \in Nat /\ level \in Nat
      /\ newDelta \subseteq db /\ base \subseteq db
  BY DEF EngineShape, EngineTypeOK
<1>1. CASE NextStratum
  <2>1. /\ UNCHANGED <<program, iterations, db, visits>> /\ status = "stratum"
        /\ status' \in {"stratum", "done", "round"} /\ level' \in {level, level + 1}
    BY <1>1 DEF NextStratum, derivation
  <2>2. Grown(db, db', Strata, level)
    BY <2>1 DEF Grown
  <2>3. /\ Cardinality(Work) \in Nat /\ Cardinality(Work') \in Nat
        /\ Cardinality(Work) <= Cardinality(Work')
    BY <2>1, <2>2, WorkGrows
  <2>4. iterations * Cardinality(Work) <= iterations * Cardinality(Work')
        /\ iterations * Cardinality(Work) \in Nat
    BY <1>0, <2>3, MoreWork
  <2>5. visits.most <= iterations * Cardinality(Work)
    BY <2>1 DEF VisitsPaid
  <2>6. iterations * Cardinality(Work') \in Nat
    BY <1>0, <2>3, MoreWork
  <2>7. visits'.most <= iterations' * Cardinality(Work')
    BY <1>0, <2>1, <2>4, <2>5, <2>6
  <2> QED BY <2>1, <2>7 DEF VisitsPaid
<1>2. CASE NextRound
  <2>1. /\ UNCHANGED <<program, db, visits>> /\ status = "round"
        /\ level' \in {level, level + 1} /\ status' \in {"stratum", "limit", "rules"}
        /\ status' = "stratum" => iterations' = iterations
        /\ status' = "rules" => iterations' = iterations + 1
    BY <1>2 DEF NextRound
  <2>2. Grown(db, db', Strata, level)
    BY <2>1 DEF Grown
  <2>3. /\ Cardinality(Work) \in Nat /\ Cardinality(Work') \in Nat
        /\ Cardinality(Work) <= Cardinality(Work')
    BY <2>1, <2>2, WorkGrows
  <2> DEFINE w == Cardinality(Work)
             v == Cardinality(Work')
             taken == Cardinality(VisitedBy(program.clauses, WorkSteps \ agenda, db))
  <2>4. iterations * w <= iterations * v /\ iterations * w \in Nat /\ iterations * v \in Nat
    BY <1>0, <2>3, MoreWork
  <2>5. visits.most <= iterations * w
    BY <2>1 DEF VisitsPaid
  <2>6. visits.most <= iterations * v
    <3> HIDE DEF w, v
    <3> QED BY <1>0, <2>4, <2>5
  <2>7. ASSUME status' = "rules"
        PROVE  /\ iterations' > 0
               /\ visits'.most <= (iterations' - 1) * v + taken'
    <3>1. taken' \in Nat
      BY VisitedFinite DEF EngineShape, EngineTypeOK, WorkSteps
    <3>2. iterations' - 1 = iterations /\ iterations' > 0
      BY <1>0, <2>1, <2>7
    <3>3. (iterations' - 1) * v = iterations * v
      BY <3>2
    <3> HIDE DEF v, taken
    <3>4. visits.most <= iterations * v + taken'
      BY <1>0, <2>4, <2>6, <3>1
    <3> QED BY <2>1, <3>2, <3>3, <3>4
  <2> QED BY <2>1, <2>6, <2>7 DEF VisitsPaid
<1>3. CASE Derive
  <2>1. PICK s : Adding({Derived(Rule, s)}, Proof(s)) /\ agenda' = agenda /\ visits' = visits
    BY <1>3, DeriveAdds
  <2>2. /\ Grown(db, db', Strata, level) /\ status = "rules" /\ status' \in {"rules", "limit"}
        /\ UNCHANGED <<program, level, iterations>>
    BY <2>1 DEF Adding, Add, Grown
  <2> QED BY <2>1, <2>2, RulePays
<1>4. CASE NextPosition
  <2>1. /\ UNCHANGED <<program, status, level, iterations, db>>
        /\ agenda' = agenda \ {Current} /\ status = "rules" /\ agenda # {} /\ VisitAll
    BY <1>4 DEF NextPosition, rounds, derivation
  <2>2. Grown(db, db', Strata, level) /\ status' \in {"rules", "limit"}
    BY <2>1 DEF Grown
  <2>3. visits'.most = visits.most + Cardinality(Reading)
    BY <2>1, VisitAllCounts
  <2> QED BY <2>1, <2>2, <2>3, RulePays
<1>5. CASE CountRows
  <2>1. /\ status = "rules" /\ agenda # {} /\ agenda' = agenda \ {Current}
        /\ UNCHANGED <<program, level, iterations>>
        /\ visits'.most = visits.most + Cardinality(Reading)
        /\ \/ status' = "limit"
           \/ Adding(Counted(Rule, db) \ db, NoProof)
    BY <1>5, CountRowsAdds
  <2>2. CASE status' = "limit"
    BY <2>2 DEF VisitsPaid
  <2>3. CASE Adding(Counted(Rule, db) \ db, NoProof)
    <3>1. Grown(db, db', Strata, level) /\ status' \in {"rules", "limit"}
      BY <2>1, <2>3 DEF Adding, Add, Grown
    <3> QED BY <2>1, <3>1, RulePays
  <2> QED BY <2>1, <2>2, <2>3
<1>6. CASE EndRound
  <2>1. /\ UNCHANGED <<program, level, iterations, db, visits>>
        /\ status = "rules" /\ agenda = {} /\ status' = "round"
    BY <1>6 DEF EndRound, derivation
  <2>2. Grown(db, db', Strata, level)
    BY <2>1 DEF Grown
  <2>3. /\ Cardinality(Work) \in Nat /\ Cardinality(Work') \in Nat
        /\ Cardinality(Work) <= Cardinality(Work')
    BY <2>1, <2>2, WorkGrows
  <2> DEFINE k == iterations - 1
             w == Cardinality(Work)
             v == Cardinality(Work')
  <2>4. k \in Nat /\ visits.most <= k * w + w /\ iterations = k + 1
    <3>1. WorkSteps \ agenda = WorkSteps
      BY <2>1
    <3> QED BY <1>0, <2>1, <3>1, WorkIs DEF VisitsPaid
  <2>5. k * w <= k * v /\ k * w \in Nat /\ k * v \in Nat /\ (k + 1) * v = k * v + v
    <3>1. k \in Nat /\ w \in Nat /\ v \in Nat /\ w <= v /\ v <= v
      BY <2>3, <2>4
    <3> HIDE DEF k, w, v
    <3> QED BY <3>1, MoreWork
  <2>6. visits.most <= (k + 1) * v
    <3> HIDE DEF k, w, v
    <3>1. w \in Nat /\ v \in Nat /\ w <= v
      BY <2>3 DEF w, v
    <3> QED BY <1>0, <2>4, <2>5, <3>1
  <2>7. visits'.most <= iterations' * v
    BY <2>1, <2>4, <2>6
  <2> QED BY <2>1, <2>7 DEF VisitsPaid
<1>7. CASE VisitTooMany
  BY <1>7 DEF VisitTooMany, VisitsPaid
<1> QED BY <1>1, <1>2, <1>3, <1>4, <1>5, <1>6, <1>7 DEF EngineNext

\* The visits are used up only by a program with that much to visit.
LEMMA VisitsUsedUp ==
  ASSUME EngineShape, VisitsPaid, VisitTooMany
  PROVE  iterations * Cardinality(Work) > MaxVisits
<1> DEFINE k == iterations - 1
           w == Cardinality(Work)
           taken == Cardinality(VisitedBy(program.clauses, WorkSteps \ agenda, db))
           after == Cardinality(VisitedBy(program.clauses, WorkSteps \ (agenda \ {Current}), db))
           read == Cardinality(Reading)
<1>1. status = "rules" /\ agenda # {} /\ visits.most + read > MaxVisits
  BY DEF VisitTooMany, Reading
<1>2. /\ iterations \in Nat /\ iterations > 0 /\ visits.most \in Nat /\ MaxVisits \in Nat
      /\ visits.most <= k * w + taken
  BY <1>1, EngineAssumption DEF EngineShape, EngineTypeOK, VisitsPaid
<1>3. /\ taken \in Nat /\ after \in Nat /\ read \in Nat
      /\ taken + read <= after /\ after <= w
  BY <1>1, ReadingIsWork
<1>4. w \in Nat
  BY TakenNatural, WorkIs
<1>5. k \in Nat /\ k + 1 = iterations
  BY <1>2
<1>6. k * w \in Nat /\ (k + 1) * w = k * w + w
  <2> HIDE DEF k, w
  <2>1. w <= w
    BY <1>4
  <2> QED BY <1>4, <1>5, <2>1, MoreWork
<1> HIDE DEF w, taken, after, read, k
<1>7. k * w + w > MaxVisits
  BY <1>1, <1>2, <1>3, <1>4, <1>6
<1> QED BY <1>5, <1>6, <1>7 DEF w

LimitsInv == EngineShape /\ IterationsPaid /\ VisitsPaid /\ LimitsDeserved

LEMMA AddedNatural ==
  ASSUME EngineShape
  PROVE  /\ Gained \in Nat /\ level \in Nat /\ iterations \in Nat
         /\ Cardinality((db \ newDelta) \ Authored(program.clauses)) \in Nat
         /\ Cardinality((db \ newDelta) \ Authored(program.clauses)) <= Gained
         /\ newDelta # {} => Cardinality((db \ newDelta) \ Authored(program.clauses)) + 1 <= Gained
<1> DEFINE A == Authored(program.clauses)
           S == db \ A
           T == (db \ newDelta) \ A
<1>1. IsFiniteSet(db) /\ newDelta \subseteq db /\ newDelta \cap A = {}
  BY DEF EngineShape, EngineTypeOK
<1>2. IsFiniteSet(S) /\ Cardinality(S) \in Nat
  BY <1>1, FS_Subset, FS_CardinalityType
<1>3. T \in SUBSET S
  OBVIOUS
<1>4. IsFiniteSet(T) /\ Cardinality(T) \in Nat /\ Cardinality(T) <= Cardinality(S)
  BY <1>2, <1>3, FS_Subset, FS_CardinalityType
<1>5. ASSUME newDelta # {} PROVE Cardinality(T) + 1 <= Cardinality(S)
  <2>1. PICK f \in S : f \notin T
    BY <1>1, <1>5
  <2>2. T # S
    BY <2>1
  <2>3. Cardinality(T) # Cardinality(S)
    BY <1>2, <1>3, <2>2, FS_Subset
  <2> HIDE DEF S, T
  <2> QED BY <1>2, <1>4, <2>3
<1> QED BY <1>2, <1>4, <1>5 DEF Gained, EngineShape, EngineTypeOK

LEMMA InitLimits == EngineInit => LimitsInv
<1> SUFFICES ASSUME EngineInit PROVE LimitsInv
  OBVIOUS
<1>1. EngineShape
  BY EngineInitShape
<1>2. /\ iterations = 0 /\ level = 0 /\ status \in {"unstratifiable", "limit", "stratum"}
      /\ status = "limit" => Cardinality(db) > MaxFacts
  BY DEF EngineInit
<1>3. IterationsPaid
  BY <1>1, <1>2, AddedNatural DEF IterationsPaid
<1>4. LimitsDeserved
  BY <1>2 DEF LimitsDeserved
<1>5. VisitsPaid
  <2>1. visits.most = 0 /\ Cardinality(Work) \in Nat
    BY <1>1, TakenNatural, WorkIs DEF EngineInit
  <2>2. visits.most <= iterations * Cardinality(Work)
    BY <1>2, <2>1
  <2> QED BY <1>2, <2>2 DEF VisitsPaid
<1> QED BY <1>1, <1>3, <1>4, <1>5 DEF LimitsInv

LEMMA AddingPays ==
  ASSUME LimitsInv, NEW facts, NEW proof, Adding(facts, proof)
  PROVE  IterationsPaid' /\ LimitsDeserved'
<1>1. /\ status = "rules" /\ facts \cap db = {} /\ level' = level /\ program' = program
      /\ iterations' = iterations /\ db' = db \cup facts /\ newDelta' = newDelta \cup facts
      /\ status' = (IF Cardinality(db') > MaxFacts THEN "limit" ELSE status)
  BY DEF Adding, Add
<1>2. db' \ newDelta' = db \ newDelta
  BY <1>1 DEF LimitsInv, EngineShape, EngineTypeOK
<1>3. (Cardinality((db \ newDelta) \ Authored(program.clauses)))'
        = Cardinality((db \ newDelta) \ Authored(program.clauses))
  BY <1>1, <1>2
<1>4. status' = "rules" \/ (status' = "limit" /\ Cardinality(db') > MaxFacts)
  BY <1>1
<1> QED BY <1>1, <1>3, <1>4 DEF LimitsInv, IterationsPaid, LimitsDeserved

LEMMA LimitsStep == LimitsInv /\ [EngineNext]_engineVars => LimitsInv'
<1> SUFFICES ASSUME LimitsInv, [EngineNext]_engineVars PROVE LimitsInv'
  OBVIOUS
<1>0. EngineShape /\ EngineShape'
  BY EngineShapeStep DEF LimitsInv
<1>a. /\ Gained \in Nat /\ level \in Nat /\ iterations \in Nat /\ MaxIterations \in Nat
  BY <1>0, AddedNatural, EngineAssumption
<1>b. VisitsPaid'
  <2>1. CASE EngineNext
    BY <1>0, <2>1, VisitsStep DEF LimitsInv
  <2>2. CASE UNCHANGED engineVars
    BY <2>2 DEF engineVars, rounds, derivation, LimitsInv, VisitsPaid, Work, WorkSteps, StepsUpTo, VisitedBy, Strata
  <2> QED BY <2>1, <2>2
<1> SUFFICES IterationsPaid' /\ LimitsDeserved'
  BY <1>0, <1>b DEF LimitsInv
<1>1. CASE NextStratum
  <2>1. /\ program' = program /\ iterations' = iterations /\ db' = db /\ status = "stratum"
        /\ status' # "limit" /\ status' # "rules"
        /\ status' = "stratum" => level' = level + 1
        /\ status' = "round" => level' = level
    BY <1>1 DEF NextStratum, derivation
  <2>2. iterations <= Gained + level /\ Gained' = Gained
    BY <2>1 DEF LimitsInv, IterationsPaid, Gained
  <2> QED BY <1>a, <2>1, <2>2 DEF IterationsPaid, LimitsDeserved
<1>2. CASE NextRound
  <2>1. /\ program' = program /\ first' = first /\ delta' = delta /\ db' = db /\ status = "round"
    BY <1>2 DEF NextRound
  <2>2. /\ Gained' = Gained
        /\ iterations <= Gained + level \/ (~first /\ delta = {} /\ iterations <= Gained + level + 1)
    BY <2>1 DEF LimitsInv, IterationsPaid, Gained
  <2>3. CASE ~first /\ delta = {}
    <3>1. status' = "stratum" /\ level' = level + 1 /\ iterations' = iterations
      BY <1>2, <2>3 DEF NextRound
    <3>2. iterations <= Gained + level + 1
      BY <1>a, <2>2
    <3> QED BY <1>a, <2>2, <3>1, <3>2 DEF IterationsPaid, LimitsDeserved
  <2>4. CASE ~(~first /\ delta = {})
    <3>1. /\ iterations' = iterations + 1 /\ newDelta' = {} /\ level' = level
          /\ status' = (IF iterations' > MaxIterations THEN "limit" ELSE "rules")
      BY <1>2, <2>4 DEF NextRound
    <3>2. iterations <= Gained + level
      BY <2>2, <2>4
    <3>3. (Cardinality((db \ newDelta) \ Authored(program.clauses)))' = Gained
      <4>1. (db' \ newDelta') \ Authored(program'.clauses) = db \ Authored(program.clauses)
        BY <2>1, <3>1
      <4> QED BY <4>1 DEF Gained
    <3>4. CASE iterations' > MaxIterations
      <4>1. Gained + level >= MaxIterations
        BY <1>a, <3>1, <3>2, <3>4
      <4>2. (Cardinality(db \ Authored(program.clauses)) + level >= MaxIterations)'
        BY <4>1, <2>1, <3>1 DEF Gained
      <4> QED BY <3>1, <3>4, <4>2 DEF IterationsPaid, LimitsDeserved
    <3>5. CASE ~(iterations' > MaxIterations)
      BY <1>a, <3>1, <3>2, <3>3, <3>5 DEF IterationsPaid, LimitsDeserved
    <3> QED BY <3>4, <3>5
  <2> QED BY <2>3, <2>4
<1>3. CASE Derive
  BY <1>0, <1>3, DeriveAdds, AddingPays
<1>4. CASE NextPosition
  <2>1. UNCHANGED <<program, status, level, first, iterations, delta, db, why, newDelta>>
        /\ status = "rules"
    BY <1>4 DEF NextPosition, rounds, derivation
  <2> QED BY <2>1 DEF LimitsInv, IterationsPaid, LimitsDeserved, Gained
<1>5. CASE CountRows
  <2>1. CASE Adding(Counted(Rule, db) \ db, NoProof)
    BY <2>1, AddingPays
  <2>2. CASE /\ Cardinality(Solutions(Rule.body, 0, db, {})) > MaxAggregateRows
             /\ status' = "limit" /\ UNCHANGED <<derivation, delta, base>>
    <3>1. program' = program /\ status = "rules" /\ agenda # {}
      BY <1>0, <1>5, CountRowsAdds
    <3>2. db' = db
      BY <2>2 DEF derivation
    <3>3. Current[1] \in DOMAIN program.clauses /\ Rule = program.clauses[Current[1]]
      BY <1>0, <3>1, CurrentOf, RuleHeads
    <3>4. \E i \in DOMAIN program'.clauses :
            Cardinality(Solutions(program'.clauses[i].body, 0, db', {})) > MaxAggregateRows
      BY <2>2, <3>1, <3>2, <3>3
    <3> QED BY <2>2, <3>4 DEF IterationsPaid, LimitsDeserved
  <2> QED BY <1>0, <1>5, <2>1, <2>2, CountRowsAdds
<1>6. CASE EndRound
  <2>1. /\ UNCHANGED <<program, level, iterations, db, why, newDelta, agenda, base>>
        /\ status = "rules" /\ status' = "round" /\ delta' = newDelta /\ first' = FALSE
    BY <1>6 DEF EndRound, derivation
  <2>2. iterations <= Cardinality((db \ newDelta) \ Authored(program.clauses)) + level + 1
        /\ Gained' = Gained
    BY <2>1 DEF LimitsInv, IterationsPaid, Gained
  <2>3. /\ newDelta # {} => iterations <= Gained + level
        /\ iterations <= Gained + level + 1
    BY <1>0, <1>a, <2>2, AddedNatural
  <2> QED BY <2>1, <2>2, <2>3 DEF IterationsPaid, LimitsDeserved
<1>7. CASE UNCHANGED engineVars
  <2>1. Work' = Work
    BY <1>7 DEF engineVars, rounds, derivation, Work, Strata
  <2> HIDE DEF Work
  <2> QED BY <1>7, <2>1 DEF engineVars, rounds, derivation, LimitsInv, IterationsPaid, LimitsDeserved, Gained
<1>8. CASE VisitTooMany
  <2>1. iterations * Cardinality(Work) > MaxVisits
    BY <1>0, <1>8, VisitsUsedUp DEF LimitsInv
  <2>2. UNCHANGED <<program, level, iterations, db>> /\ status' = "limit"
    BY <1>8 DEF VisitTooMany, rounds, derivation
  <2>3. Work' = Work
    BY <2>2 DEF Work, Strata
  <2>4. (iterations * Cardinality(Work) > MaxVisits)'
    BY <2>1, <2>2, <2>3
  <2> QED BY <2>2, <2>4 DEF IterationsPaid, LimitsDeserved
<1> QED BY <1>1, <1>2, <1>3, <1>4, <1>5, <1>6, <1>7, <1>8 DEF EngineNext

\* A program is stopped at a limit only when it has that much to derive, for every
\* program, limit and order of solutions: the iterations are paid for with facts
\* and strata (deriveDatabase).
THEOREM LimitsAreDeserved == EngineSpec => []LimitsDeserved
<1>1. LimitsInv => LimitsDeserved
  BY DEF LimitsInv
<1> QED BY <1>1, InitLimits, LimitsStep, PTL DEF EngineSpec

-----------------------------------------------------------------------------
(* Every proof is one.                                                       *)

\* What was found absent is of a stratum that is not added to any more.
AbsentKept(pattern) == Absent(pattern, db) /\ Strata[pattern.p] \in Nat /\ Strata[pattern.p] < level

ProofsKept ==
  /\ WellFounded(db, why)
  /\ \A f \in db : \A pattern \in why[f].absent : AbsentKept(pattern)
  /\ \A f \in db \ Authored(program.clauses) :
       Strata[f.p] \in Nat /\ Strata[f.p] <= level /\ Follows(f)

ProofsInv == EngineShape /\ ProofsKept

LEMMA InitProofs == EngineInit => ProofsInv
<1> SUFFICES ASSUME EngineInit PROVE ProofsInv
  OBVIOUS
<1>1. EngineShape
  BY EngineInitShape
<1>2. db = Authored(program.clauses) /\ \A f \in db : why[f] = [uses |-> {}, absent |-> {}]
  BY DEF EngineInit
<1>3. WellFounded(db, why)
  BY <1>2 DEF WellFounded
<1> QED BY <1>1, <1>2, <1>3 DEF ProofsInv, ProofsKept

\* The database grows by facts of the stratum.
LEMMA AddingGrows ==
  ASSUME EngineShape, NEW facts, NEW proof, Adding(facts, proof)
  PROVE  /\ program' = program /\ Strata' = Strata /\ level' = level /\ level \in Nat
         /\ db' = db \cup facts /\ facts \cap db = {} /\ \A f \in facts : Strata[f.p] = level
         /\ Grown(db, db', Strata, level)
         /\ \A f \in db : why'[f] = why[f]
         /\ \A f \in facts : why'[f] = proof
         /\ \A i \in Rules(program.clauses) : RuleOrdered(program.clauses[i], Strata)
<1>1. /\ program' = program /\ level' = level /\ db' = db \cup facts /\ facts \cap db = {}
      /\ why' = Explained(facts, proof) /\ status = "rules" /\ \A f \in facts : Strata[f.p] = level
  BY DEF Adding, Add
<1>2. Strata' = Strata
  BY <1>1 DEF Strata
<1>3. \A f \in db \cup facts : why'[f] = IF f \in facts THEN proof ELSE why[f]
  BY <1>1 DEF Explained
<1> QED BY <1>1, <1>2, <1>3 DEF Grown, EngineShape, EngineTypeOK

LEMMA FollowsKept ==
  ASSUME ProofsInv, NEW facts, NEW proof, Adding(facts, proof), NEW f \in db \ Authored(program.clauses)
  PROVE  Follows(f)'
<1>1. Follows(f) /\ Strata[f.p] \in Nat /\ Strata[f.p] <= level /\ EngineShape
  BY DEF ProofsInv, ProofsKept
<1>2. PICK i \in Rules(program.clauses) :
        LET rule == program.clauses[i] IN
        IF Aggregate(rule) THEN f \in Counted(rule, db)
        ELSE \E s \in Solutions(rule.body, 0, db, {}) : Derived(rule, s) = f /\ why[f] = Proof(s)
  BY <1>1 DEF Follows
<1> DEFINE rule == program.clauses[i]
<1>3. f.p = rule.head.p
  BY <1>2, HeadDerived
<1>4. RuleOrdered(rule, Strata) /\ Strata[rule.head.p] <= level /\ Grown(db, db', Strata, level)
      /\ level \in Nat /\ program' = program /\ why'[f] = why[f]
  BY <1>1, <1>3, AddingGrows
<1>5. CASE Aggregate(rule)
  <2>1. Solutions(rule.body, 0, db, {}) = Solutions(rule.body, 0, db', {})
    BY <1>4, <1>5, GrowthIgnored
  <2>2. f \in Counted(rule, db')
    BY <1>2, <1>5, <2>1, CountedSame
  <2> QED BY <1>4, <1>5, <2>2 DEF Follows
<1>6. CASE ~Aggregate(rule)
  <2>1. PICK s \in Solutions(rule.body, 0, db, {}) : Derived(rule, s) = f /\ why[f] = Proof(s)
    BY <1>2, <1>6
  <2>2. 0 \notin DOMAIN rule.body
    BY <1>4, SequenceShape DEF RuleOrdered
  <2>3. s \in Solutions(rule.body, 0, db', {})
    BY <1>4, <2>2, GrowthKeeps
  <2> QED BY <1>4, <1>6, <2>1, <2>3 DEF Follows
<1> QED BY <1>5, <1>6

LEMMA AddingProves ==
  ASSUME ProofsInv, NEW facts, NEW proof, Adding(facts, proof), proof.uses \subseteq db,
         \A pattern \in proof.absent : AbsentKept(pattern),
         \A f \in facts : Follows(f)'
  PROVE  ProofsKept'
<1>1. EngineShape
  BY DEF ProofsInv
<1>2. /\ program' = program /\ Strata' = Strata /\ level' = level /\ level \in Nat
      /\ db' = db \cup facts /\ facts \cap db = {} /\ \A f \in facts : Strata[f.p] = level
      /\ \A f \in db : why'[f] = why[f]
      /\ \A f \in facts : why'[f] = proof
  BY <1>1, AddingGrows
<1>3. WellFounded(db, why)
  BY DEF ProofsInv, ProofsKept
<1>4. WellFounded(db', why')
  <2>1. \A f \in db' : why'[f].uses \subseteq db
    BY <1>2, <1>3 DEF WellFounded
  <2>2. ASSUME NEW S \in SUBSET db', S # {} PROVE \E f \in S : why'[f].uses \cap S = {}
    <3>1. CASE S \cap db = {}
      <4>1. PICK f \in S : TRUE
        BY <2>2
      <4> QED BY <2>1, <3>1, <4>1
    <3>2. CASE S \cap db # {}
      <4>1. S \cap db \in SUBSET db
        OBVIOUS
      <4>2. PICK f \in S \cap db : why[f].uses \cap (S \cap db) = {}
        BY <1>3, <3>2, <4>1 DEF WellFounded
      <4>3. why'[f] = why[f] /\ why'[f].uses \subseteq db
        BY <1>2, <2>1
      <4> QED BY <4>2, <4>3
    <3> QED BY <3>1, <3>2
  <2>3. \A f \in db' : why'[f].uses \subseteq db'
    BY <1>2, <2>1
  <2> QED BY <2>2, <2>3 DEF WellFounded
<1>5. ASSUME NEW pattern, AbsentKept(pattern) PROVE AbsentKept(pattern)'
  <2>1. \A f \in facts : f.p # pattern.p
    BY <1>2, <1>5 DEF AbsentKept
  <2>2. Absent(pattern, db')
    BY <1>2, <1>5, <2>1 DEF Absent, AbsentKept
  <2> QED BY <1>2, <1>5, <2>2 DEF AbsentKept
<1>6. ASSUME NEW f \in db', NEW pattern \in why'[f].absent PROVE AbsentKept(pattern)'
  <2>1. AbsentKept(pattern)
    BY <1>2, <1>6 DEF ProofsInv, ProofsKept
  <2> QED BY <1>5, <2>1
<1>7. ASSUME NEW f \in db' \ Authored(program'.clauses)
      PROVE  (Strata[f.p])' \in Nat /\ (Strata[f.p])' <= level' /\ Follows(f)'
  <2>1. CASE f \in facts
    BY <1>2, <2>1
  <2>2. CASE f \in db
    <3>1. f \in db \ Authored(program.clauses)
      BY <1>2, <1>7, <2>2
    <3>2. Strata[f.p] \in Nat /\ Strata[f.p] <= level
      BY <3>1 DEF ProofsInv, ProofsKept
    <3> QED BY <1>2, <3>1, <3>2, FollowsKept
  <2> QED BY <1>2, <1>7, <2>1, <2>2
<1> QED BY <1>4, <1>6, <1>7 DEF ProofsKept

\* A solution over the delta is one over all facts.
LEMMA DeltaSolution ==
  ASSUME NEW goals, IsSequence(goals), NEW j, j \in DOMAIN goals => ~Negated(goals[j]),
         NEW F, NEW D, D \subseteq F, NEW s \in Solutions(goals, j, F, D)
  PROVE  s \in Solutions(goals, 0, F, {})
<1>1. DOMAIN goals = 1..Len(goals)
  BY SequenceShape
<1>2. Carried(goals, Len(goals), F, j, F, D, 0, F, {})
  BY <1>1 DEF Carried, Reads
<1>3. ToSet(s.used) \subseteq F \cup D
  BY SolutionSound
<1>4. ToSet(s.used) \subseteq F
  BY <1>3
<1> QED BY <1>2, <1>4, SolutionsCarry

LEMMA DeriveProves ==
  ASSUME ProofsInv, Derive
  PROVE  ProofsKept'
<1>1. EngineShape
  BY DEF ProofsInv
<1>2. PICK s \in Solutions(Rule.body, Position, db, delta) :
        /\ Derived(Rule, s) \notin db /\ Adding({Derived(Rule, s)}, Proof(s))
        /\ agenda # {} /\ ~Aggregate(Rule)
  BY <1>1, DeriveAdds
<1>a. PICK f : f = Derived(Rule, s)
  OBVIOUS
<1>b. Adding({f}, Proof(s))
  BY <1>2, <1>a
<1>3. status = "rules" /\ delta \subseteq db
  BY <1>1, <1>2 DEF Adding, EngineShape, EngineTypeOK
<1>4. /\ Current[1] \in Rules(program.clauses) /\ Rule = program.clauses[Current[1]]
      /\ RuleOrdered(Rule, Strata) /\ Strata[Rule.head.p] = level
      /\ Position \in DOMAIN Rule.body => ~Negated(Rule.body[Position])
  BY <1>1, <1>2, <1>3, CurrentOf
<1>5. IsSequence(Rule.body) /\ 0 \notin DOMAIN Rule.body
  BY <1>4, SequenceShape DEF RuleOrdered
<1>6. /\ program' = program /\ Strata' = Strata /\ level \in Nat /\ Grown(db, db', Strata, level)
      /\ why'[f] = Proof(s)
  BY <1>1, <1>b, AddingGrows
<1>7. ToSet(s.used) \subseteq db
  <2>1. ToSet(s.used) \subseteq db \cup delta
    BY <1>5, SolutionSound
  <2> QED BY <1>3, <2>1
<1>8. ASSUME NEW pattern \in s.absent PROVE AbsentKept(pattern)
  <2>1. PICK i \in DOMAIN Rule.body : /\ Negated(Rule.body[i]) /\ pattern.p = Rule.body[i].p
                                      /\ i # Position => Absent(pattern, db)
    BY <1>5, SolutionSound
  <2>2. i # Position
    BY <1>4, <2>1
  <2>3. Strata[pattern.p] \in Nat /\ Strata[pattern.p] < level
    BY <1>4, <2>1 DEF RuleOrdered
  <2> QED BY <2>1, <2>2, <2>3 DEF AbsentKept
<1>9. s \in Solutions(Rule.body, 0, db, {})
  BY <1>3, <1>4, <1>5, DeltaSolution
<1>10. s \in Solutions(Rule.body, 0, db', {})
  <2>1. Strata[Rule.head.p] <= level
    BY <1>4, <1>6
  <2>2. Solutions(Rule.body, 0, db, {}) \subseteq Solutions(Rule.body, 0, db', {})
    BY <1>4, <1>5, <1>6, <2>1, GrowthKeeps
  <2> QED BY <1>9, <2>2
<1>11. Follows(f)'
  <2> DEFINE rule == program'.clauses[Current[1]]
  <2>1. Current[1] \in Rules(program'.clauses) /\ rule = Rule
    BY <1>4, <1>6
  <2>2. \E t \in Solutions(rule.body, 0, db', {}) : Derived(rule, t) = f /\ why'[f] = Proof(t)
    BY <1>6, <1>10, <1>a, <2>1
  <2>3. ~Aggregate(rule)
    BY <1>2, <2>1
  <2> HIDE DEF rule
  <2>4. \E i \in Rules(program'.clauses) :
          LET r == program'.clauses[i] IN
          IF Aggregate(r) THEN f \in Counted(r, db')
          ELSE \E t \in Solutions(r.body, 0, db', {}) : Derived(r, t) = f /\ why'[f] = Proof(t)
    BY <2>1, <2>2, <2>3 DEF rule
  <2> QED BY <2>4 DEF Follows
<1>12. Proof(s).uses = ToSet(s.used) /\ Proof(s).absent = s.absent
  BY DEF Proof
<1> QED BY <1>b, <1>7, <1>8, <1>11, <1>12, AddingProves

LEMMA CountRowsProves ==
  ASSUME ProofsInv, CountRows, Adding(Counted(Rule, db) \ db, NoProof)
  PROVE  ProofsKept'
<1>1. EngineShape
  BY DEF ProofsInv
<1>2. status = "rules" /\ agenda # {} /\ Aggregate(Rule)
  BY <1>1, CountRowsAdds
<1>3. /\ Current[1] \in Rules(program.clauses) /\ Rule = program.clauses[Current[1]]
      /\ RuleOrdered(Rule, Strata) /\ Strata[Rule.head.p] = level
  BY <1>1, <1>2, CurrentOf
<1>4. program' = program /\ level \in Nat /\ Grown(db, db', Strata, level)
  BY <1>1, AddingGrows
<1>5. Counted(Rule, db) = Counted(Rule, db')
  <2>1. Strata[Rule.head.p] <= level
    BY <1>3, <1>4
  <2>2. Solutions(Rule.body, 0, db, {}) = Solutions(Rule.body, 0, db', {})
    BY <1>2, <1>3, <1>4, <2>1, GrowthIgnored
  <2> QED BY <2>2, CountedSame
<1>6. PICK facts : facts = Counted(Rule, db) \ db
  OBVIOUS
<1>7. ASSUME NEW f \in facts PROVE Follows(f)'
  <2>1. f \in Counted(Rule, db')
    BY <1>5, <1>6, <1>7
  <2> DEFINE rule == program'.clauses[Current[1]]
  <2>2. Current[1] \in Rules(program'.clauses) /\ rule = Rule
    BY <1>3, <1>4
  <2>3. Aggregate(rule) /\ f \in Counted(rule, db')
    BY <1>2, <2>1, <2>2
  <2> HIDE DEF rule
  <2>4. \E i \in Rules(program'.clauses) :
          LET r == program'.clauses[i] IN
          IF Aggregate(r) THEN f \in Counted(r, db')
          ELSE \E t \in Solutions(r.body, 0, db', {}) : Derived(r, t) = f /\ why'[f] = Proof(t)
    BY <2>2, <2>3 DEF rule
  <2> QED BY <2>4 DEF Follows
<1>8. NoProof.uses \subseteq db /\ NoProof.absent = {}
  BY DEF NoProof
<1>9. Adding(facts, NoProof)
  BY <1>6
<1> QED BY <1>7, <1>8, <1>9, AddingProves

LEMMA ProofsStep == ProofsInv /\ [EngineNext]_engineVars => ProofsInv'
<1> SUFFICES ASSUME ProofsInv, [EngineNext]_engineVars PROVE ProofsInv'
  OBVIOUS
<1>0. EngineShape /\ EngineShape' /\ ProofsKept /\ level \in Nat
  BY EngineShapeStep DEF ProofsInv, EngineShape, EngineTypeOK
<1>a. ASSUME UNCHANGED <<program, db, why>>, level' \in {level, level + 1}
      PROVE  ProofsKept'
  <2>1. Strata' = Strata /\ WellFounded(db', why')
    BY <1>0, <1>a DEF Strata, ProofsKept
  <2>2. ASSUME NEW f, Follows(f) PROVE Follows(f)'
    BY <1>a, <2>2 DEF Follows
  <2>3. ASSUME NEW f \in db', NEW pattern \in why'[f].absent PROVE AbsentKept(pattern)'
    BY <1>0, <1>a, <2>1, <2>3 DEF ProofsKept, AbsentKept
  <2>4. ASSUME NEW f \in db' \ Authored(program'.clauses)
        PROVE  (Strata[f.p])' \in Nat /\ (Strata[f.p])' <= level' /\ Follows(f)'
    BY <1>0, <1>a, <2>1, <2>2, <2>4 DEF ProofsKept
  <2> QED BY <2>1, <2>3, <2>4 DEF ProofsKept
<1>1. CASE NextStratum
  BY <1>1, <1>a, <1>0 DEF NextStratum, derivation, ProofsInv
<1>2. CASE NextRound
  BY <1>2, <1>a, <1>0 DEF NextRound, ProofsInv
<1>3. CASE Derive
  BY <1>3, <1>0, DeriveProves DEF ProofsInv
<1>4. CASE NextPosition
  BY <1>4, <1>a, <1>0 DEF NextPosition, rounds, derivation, ProofsInv
<1>5. CASE CountRows
  <2>1. CASE Adding(Counted(Rule, db) \ db, NoProof)
    BY <1>5, <2>1, <1>0, CountRowsProves DEF ProofsInv
  <2>2. CASE UNCHANGED <<derivation, delta, base>>
    <3>1. program' = program /\ level' = level
      BY <1>0, <1>5, CountRowsAdds
    <3>2. UNCHANGED <<program, db, why>>
      BY <2>2, <3>1 DEF derivation
    <3> QED BY <1>0, <1>a, <3>1, <3>2 DEF ProofsInv
  <2> QED BY <1>0, <1>5, <2>1, <2>2, CountRowsAdds
<1>6. CASE EndRound
  BY <1>6, <1>a, <1>0 DEF EndRound, derivation, ProofsInv
<1>7. CASE UNCHANGED engineVars
  BY <1>7, <1>a, <1>0 DEF engineVars, rounds, derivation, ProofsInv
<1>8. CASE VisitTooMany
  BY <1>8, <1>a, <1>0 DEF VisitTooMany, rounds, derivation, ProofsInv
<1> QED BY <1>1, <1>2, <1>3, <1>4, <1>5, <1>6, <1>7, <1>8 DEF EngineNext

LEMMA ProofsInvGrounds == ProofsInv => ProofsGrounded
<1> SUFFICES ASSUME ProofsInv PROVE ProofsGrounded
  OBVIOUS
<1>1. IsFiniteSet(db) /\ ProofsKept
  BY DEF ProofsInv, EngineShape, EngineTypeOK
<1> DEFINE m == Cardinality(db)
           g == CHOOSE g : Grounded(g, db, why, m)
<1>2. m \in Nat
  BY <1>1, FS_CardinalityType
<1>3. Grounded(g, db, why, m)
  <2>1. \E h : Grounded(h, db, why, m)
    BY <1>2, GroundedExists
  <2> QED BY <2>1
<1>4. g[m] = db
  <2> HIDE DEF g
  <2> QED BY <1>1, <1>3, GroundedIsAll DEF ProofsKept
<1>5. \A f \in db : \A pattern \in why[f].absent : Absent(pattern, db)
  BY <1>1 DEF ProofsKept, AbsentKept
<1>6. \A f \in db : f \in Authored(program.clauses) \/ Follows(f)
  BY <1>1 DEF ProofsKept
<1> QED BY <1>4, <1>5, <1>6 DEF ProofsGrounded, Grounded

\* Every fact of every program, in whatever order it was found, has a proof from the
\* clauses of the program that is not circular and that later facts do not undo.
THEOREM ProofsAreGrounded == EngineSpec => []ProofsGrounded
BY ProofsInvGrounds, InitProofs, ProofsStep, PTL DEF EngineSpec

-----------------------------------------------------------------------------
(* Nothing is missed.                                                        *)

DerivedFrom(rule, position, F, D, facts) ==
  \A s \in Solutions(rule.body, position, F, D) : Derived(rule, s) \in facts

\* What follows by the rule from F is known.
Saturates(rule, F, facts) ==
  IF Aggregate(rule) THEN Counted(rule, facts) \subseteq facts
  ELSE DerivedFrom(rule, 0, F, {}, facts)

\* The facts and the delta that the round began with.
Before == db \ newDelta
DeltaBefore == delta \ newDelta

\* The step of the round has derived what follows from these.
Taken(s) ==
  LET rule == program.clauses[s[1]] IN
  IF Aggregate(rule) THEN Counted(rule, db) \subseteq db
  ELSE DerivedFrom(rule, s[2], Before, DeltaBefore, db)

LowerSaturated ==
  status \in {"stratum", "round", "rules", "done"} =>
    \A i \in Rules(program.clauses) :
      Strata[program.clauses[i].head.p] < level => Saturates(program.clauses[i], db, db)

\* Between rounds, only what follows from the last delta may be missing.
RoundSaturated ==
  status = "round" =>
    IF first THEN delta = db
    ELSE \A i \in StratumRules : Saturates(program.clauses[i], db \ delta, db)

RulesSaturated ==
  status = "rules" =>
    /\ \A f \in newDelta : Strata[f.p] = level
    /\ Before \subseteq base
    /\ IF first THEN DeltaBefore = Before
       ELSE /\ delta \cap newDelta = {}
            /\ \A i \in StratumRules : Saturates(program.clauses[i], Before \ delta, db)
    /\ \A s \in RoundSteps \ agenda : Taken(s)

SaturationInv ==
  /\ EngineShape /\ LowerSaturated /\ RoundSaturated /\ RulesSaturated
  /\ status = "done" => Evaluated

LEMMA InitSaturation == EngineInit => SaturationInv
<1> SUFFICES ASSUME EngineInit PROVE SaturationInv
  OBVIOUS
<1>1. EngineShape
  BY EngineInitShape
<1>2. level = 0 /\ status \in {"unstratifiable", "limit", "stratum"}
  BY DEF EngineInit
<1>3. ASSUME status = "stratum", NEW i \in Rules(program.clauses)
      PROVE  ~(Strata[program.clauses[i].head.p] < level)
  <2>1. Strata[program.clauses[i].head.p] \in Nat
    BY <1>1, <1>3 DEF EngineShape, RuleOrdered
  <2> QED BY <1>2, <2>1
<1>4. LowerSaturated
  BY <1>2, <1>3 DEF LowerSaturated
<1> QED BY <1>1, <1>2, <1>4 DEF SaturationInv, RoundSaturated, RulesSaturated

\* A rule that was saturated from F is so when facts of its stratum, or of a higher one, are added.
LEMMA SaturatesKept ==
  ASSUME NEW rule, NEW strata, RuleOrdered(rule, strata), NEW n \in Nat, strata[rule.head.p] <= n,
         NEW facts, NEW more, Grown(facts, more, strata, n), NEW F, Saturates(rule, F, facts)
  PROVE  Saturates(rule, F, more)
<1>1. CASE Aggregate(rule)
  <2>1. Solutions(rule.body, 0, facts, {}) = Solutions(rule.body, 0, more, {})
    BY <1>1, GrowthIgnored
  <2>2. Counted(rule, facts) = Counted(rule, more)
    BY <2>1, CountedSame
  <2> QED BY <1>1, <2>2 DEF Saturates, Grown
<1>2. CASE ~Aggregate(rule)
  BY <1>2 DEF Saturates, DerivedFrom, Grown
<1> QED BY <1>1, <1>2

LEMMA AddingSaturation ==
  ASSUME SaturationInv, NEW facts, NEW proof, Adding(facts, proof), base' \in {base, db'},
         \A s \in RoundSteps \ agenda' : Taken(s)'
  PROVE  SaturationInv'
<1>1. EngineShape /\ EngineShape'
  BY AddingShape DEF SaturationInv
<1>2. /\ program' = program /\ Strata' = Strata /\ level' = level /\ level \in Nat
      /\ db' = db \cup facts /\ facts \cap db = {} /\ \A f \in facts : Strata[f.p] = level
      /\ Grown(db, db', Strata, level)
      /\ \A i \in Rules(program.clauses) : RuleOrdered(program.clauses[i], Strata)
  BY <1>1, AddingGrows
<1>3. /\ status = "rules" /\ first' = first /\ newDelta' = newDelta \cup facts
      /\ delta' = (IF first THEN delta \cup {f \in facts : \E g \in delta : g.p = f.p} ELSE delta)
      /\ status' = (IF Cardinality(db') > MaxFacts THEN "limit" ELSE status)
  BY DEF Adding, Add
<1>4. delta \subseteq db /\ newDelta \subseteq db /\ Before' = Before /\ DeltaBefore' = DeltaBefore
  <2>1. delta \subseteq db /\ newDelta \subseteq db
    BY <1>1 DEF EngineShape, EngineTypeOK
  <2>2. Before' = Before
    BY <1>2, <1>3, <2>1 DEF Before
  <2>3. delta' \ newDelta' = delta \ newDelta
    BY <1>2, <1>3, <2>1
  <2> QED BY <2>1, <2>2, <2>3 DEF DeltaBefore
<1>5. RoundSteps' = RoundSteps /\ StratumRules' = StratumRules
  BY <1>2, <1>3 DEF RoundSteps, StratumRules, Positions
<1>6. LowerSaturated'
  <2>1. ASSUME NEW i \in Rules(program.clauses), Strata[program.clauses[i].head.p] < level
        PROVE  Saturates(program.clauses[i], db', db')
    <3> DEFINE rule == program.clauses[i]
    <3>1. RuleOrdered(rule, Strata) /\ Saturates(rule, db, db)
      BY <1>2, <1>3, <2>1 DEF SaturationInv, LowerSaturated
    <3>2. Strata[rule.head.p] <= level
      BY <1>2, <2>1, <3>1 DEF RuleOrdered
    <3>3. Solutions(rule.body, 0, db, {}) = Solutions(rule.body, 0, db', {})
      BY <1>2, <2>1, <3>1, GrowthIgnored
    <3>4. Saturates(rule, db, db')
      BY <1>2, <3>1, <3>2, SaturatesKept
    <3> QED BY <3>3, <3>4 DEF Saturates, DerivedFrom
  <2> QED BY <1>2, <2>1 DEF LowerSaturated
<1>7. RulesSaturated'
  <2>1. \A f \in newDelta' : Strata[f.p] = level
    BY <1>2, <1>3 DEF SaturationInv, RulesSaturated
  <2>2. Before \subseteq base'
    BY <1>2, <1>3 DEF SaturationInv, RulesSaturated, Before
  <2>3. first => DeltaBefore = Before
    BY <1>3 DEF SaturationInv, RulesSaturated
  <2>4. ASSUME ~first PROVE delta' \cap newDelta' = {}
    BY <1>2, <1>3, <1>4, <2>4 DEF SaturationInv, RulesSaturated
  <2>5. ASSUME ~first, NEW i \in StratumRules PROVE Saturates(program.clauses[i], Before \ delta', db')
    <3>1. /\ delta' = delta /\ Saturates(program.clauses[i], Before \ delta, db)
          /\ i \in Rules(program.clauses) /\ Strata[program.clauses[i].head.p] = level
      BY <1>3, <2>5 DEF SaturationInv, RulesSaturated, StratumRules
    <3>2. Strata[program.clauses[i].head.p] <= level
      BY <1>2, <3>1
    <3> QED BY <1>2, <3>1, <3>2, SaturatesKept
  <2> QED BY <1>2, <1>3, <1>4, <1>5, <2>1, <2>2, <2>3, <2>4, <2>5 DEF RulesSaturated
<1>8. status' \in {"rules", "limit"}
  BY <1>3
<1> QED BY <1>1, <1>6, <1>7, <1>8 DEF SaturationInv, RoundSaturated

\* A step that was taken stays so.
LEMMA TakenKept ==
  ASSUME EngineShape, NEW facts, NEW proof, Adding(facts, proof), NEW s \in RoundSteps, Taken(s)
  PROVE  Taken(s)'
<1> DEFINE rule == program.clauses[s[1]]
<1>1. /\ program' = program /\ level \in Nat /\ db' = db \cup facts /\ facts \cap db = {}
      /\ Grown(db, db', Strata, level)
      /\ \A i \in Rules(program.clauses) : RuleOrdered(program.clauses[i], Strata)
  BY AddingGrows
<1>2. RuleOrdered(rule, Strata) /\ Strata[rule.head.p] <= level
  BY <1>1, StepsOf
<1>3. delta \subseteq db /\ newDelta \subseteq db
  BY DEF EngineShape, EngineTypeOK
<1>4. /\ newDelta' = newDelta \cup facts
      /\ delta' = (IF first THEN delta \cup {f \in facts : \E g \in delta : g.p = f.p} ELSE delta)
  BY DEF Adding, Add
<1>5. db' \ newDelta' = db \ newDelta /\ delta' \ newDelta' = delta \ newDelta
  BY <1>1, <1>3, <1>4
<1>6. CASE Aggregate(rule)
  <2>1. Saturates(rule, db, db)
    BY <1>6 DEF Taken, Saturates
  <2>2. Saturates(rule, db, db')
    BY <1>1, <1>2, <2>1, SaturatesKept
  <2> QED BY <1>1, <1>6, <2>2 DEF Taken, Saturates
<1>7. CASE ~Aggregate(rule)
  BY <1>1, <1>5, <1>7 DEF Taken, DerivedFrom, Before, DeltaBefore
<1> QED BY <1>6, <1>7

LEMMA DeriveSaturation ==
  ASSUME SaturationInv, Derive
  PROVE  SaturationInv'
<1>1. EngineShape /\ RulesSaturated
  BY DEF SaturationInv
<1>2. PICK s \in Solutions(Rule.body, Position, db, delta) :
        Adding({Derived(Rule, s)}, Proof(s)) /\ agenda' = agenda /\ base' = base
  BY <1>1, DeriveAdds
<1>3. PICK f : f = Derived(Rule, s)
  OBVIOUS
<1>4. Adding({f}, Proof(s)) /\ status = "rules"
  BY <1>2, <1>3 DEF Adding
<1>5. ASSUME NEW t \in RoundSteps \ agenda' PROVE Taken(t)'
  BY <1>1, <1>2, <1>4, <1>5, TakenKept DEF RulesSaturated
<1> QED BY <1>2, <1>4, <1>5, AddingSaturation

LEMMA CountRowsSaturation ==
  ASSUME SaturationInv, CountRows, Adding(Counted(Rule, db) \ db, NoProof), base' = db'
  PROVE  SaturationInv'
<1>1. EngineShape /\ RulesSaturated
  BY DEF SaturationInv
<1>2. status = "rules" /\ agenda # {} /\ Aggregate(Rule) /\ agenda' = agenda \ {Current}
  BY <1>1, CountRowsAdds
<1>3. PICK facts : facts = Counted(Rule, db) \ db
  OBVIOUS
<1>4. Adding(facts, NoProof)
  BY <1>3
<1>5. PICK c : c = Current
  OBVIOUS
<1>6. /\ c \in RoundSteps /\ Rule = program.clauses[c[1]]
      /\ RuleOrdered(Rule, Strata) /\ Strata[Rule.head.p] = level
  BY <1>1, <1>2, <1>5, CurrentOf
<1>7. program' = program /\ level \in Nat /\ Grown(db, db', Strata, level) /\ db' = db \cup facts
  BY <1>1, <1>4, AddingGrows
<1>8. Counted(Rule, db) = Counted(Rule, db')
  <2>1. Strata[Rule.head.p] <= level
    BY <1>6, <1>7
  <2>2. Solutions(Rule.body, 0, db, {}) = Solutions(Rule.body, 0, db', {})
    BY <1>2, <1>6, <1>7, <2>1, GrowthIgnored
  <2> QED BY <2>2, CountedSame
<1>9. Taken(c)'
  <2> DEFINE rule == program'.clauses[c[1]]
  <2>1. rule = Rule
    BY <1>6, <1>7
  <2>2. Aggregate(rule) /\ Counted(rule, db') \subseteq db'
    BY <1>2, <1>3, <1>7, <1>8, <2>1
  <2> QED BY <2>2 DEF Taken
<1>10. ASSUME NEW t \in RoundSteps \ agenda' PROVE Taken(t)'
  <2>1. CASE t = c
    BY <1>9, <2>1
  <2>2. CASE t # c
    <3>1. t \in RoundSteps \ agenda
      BY <1>2, <1>5, <1>10, <2>2
    <3>2. Taken(t)
      BY <1>1, <1>2, <3>1 DEF RulesSaturated
    <3> QED BY <1>1, <1>4, <3>1, <3>2, TakenKept
  <2> QED BY <2>1, <2>2
<1> QED BY <1>4, <1>10, AddingSaturation

LEMMA PositionTaken ==
  ASSUME SaturationInv, NextPosition
  PROVE  Taken(Current)
<1>1. EngineShape /\ RulesSaturated
  BY DEF SaturationInv
<1>2. /\ status = "rules" /\ agenda # {} /\ ~Aggregate(Rule)
      /\ \A s \in Solutions(Rule.body, Position, base, delta \cap base) : Derived(Rule, s) \in db
  BY DEF NextPosition
<1>3. /\ Rule = program.clauses[Current[1]] /\ RuleOrdered(Rule, Strata) /\ Strata[Rule.head.p] = level
      /\ Position \in DOMAIN Rule.body => ~Negated(Rule.body[Position])
  BY <1>1, <1>2, CurrentOf
<1>4. /\ base \subseteq db /\ delta \subseteq db /\ newDelta \subseteq db /\ level \in Nat
  BY <1>1 DEF EngineShape, EngineTypeOK
<1>5. Before \subseteq base /\ \A f \in newDelta : Strata[f.p] = level
  BY <1>1, <1>2 DEF RulesSaturated
<1>6. Grown(Before, base, Strata, level) /\ DeltaBefore \subseteq delta \cap base
  BY <1>4, <1>5 DEF Grown, Before, DeltaBefore
<1>7. Solutions(Rule.body, Position, Before, DeltaBefore)
        \subseteq Solutions(Rule.body, Position, base, delta \cap base)
  <2>1. Strata[Rule.head.p] <= level
    BY <1>3, <1>4
  <2>2. PICK rule, j, strata, n : rule = Rule /\ j = Position /\ strata = Strata /\ n = level
    OBVIOUS
  <2>3. /\ RuleOrdered(rule, strata) /\ n \in Nat /\ strata[rule.head.p] <= n
        /\ j \in DOMAIN rule.body => ~Negated(rule.body[j])
        /\ Grown(Before, base, strata, n)
    BY <1>3, <1>4, <1>6, <2>1, <2>2
  <2>4. Solutions(rule.body, j, Before, DeltaBefore) \subseteq Solutions(rule.body, j, base, delta \cap base)
    BY <1>6, <2>3, GrowthKeeps
  <2> QED BY <2>2, <2>4
<1>8. DerivedFrom(Rule, Position, Before, DeltaBefore, db)
  BY <1>2, <1>7 DEF DerivedFrom
<1> QED BY <1>2, <1>3, <1>8 DEF Taken, Position

\* When every step of a round is taken, the rules are saturated from the facts it began with.
LEMMA RoundTaken ==
  ASSUME SaturationInv, status = "rules", agenda = {}, NEW i \in StratumRules
  PROVE  Saturates(program.clauses[i], Before, db)
<1> DEFINE rule == program.clauses[i]
<1>1. EngineShape /\ RulesSaturated
  BY DEF SaturationInv
<1>2. i \in Rules(program.clauses) /\ Strata[rule.head.p] = level /\ RuleOrdered(rule, Strata)
  BY <1>1 DEF StratumRules, EngineShape
<1>3. IsSequence(rule.body) /\ 0 \notin DOMAIN rule.body /\ DOMAIN rule.body = 1..Len(rule.body)
  BY <1>2, SequenceShape DEF RuleOrdered
<1>4. ASSUME NEW j \in Positions(rule) PROVE Taken(<<i, j>>)
  <2>1. <<i, j>> \in RoundSteps
    BY DEF RoundSteps
  <2> QED BY <1>1, <2>1 DEF RulesSaturated
<1>5. CASE Aggregate(rule)
  <2>1. CASE first
    <3>1. 0 \in Positions(rule)
      BY <1>5, <2>1 DEF Positions, DeltaGoals
    <3>2. Taken(<<i, 0>>)
      BY <1>4, <3>1
    <3> QED BY <1>5, <3>2 DEF Taken, Saturates
  <2>2. CASE ~first
    BY <1>1, <1>5, <2>2 DEF RulesSaturated, Saturates
  <2> QED BY <2>1, <2>2
<1>6. CASE ~Aggregate(rule)
  <2> SUFFICES ASSUME NEW s \in Solutions(rule.body, 0, Before, {}) PROVE Derived(rule, s) \in db
    BY <1>6 DEF Saturates, DerivedFrom
  <2>a. ASSUME NEW j \in Positions(rule), s \in Solutions(rule.body, j, Before, DeltaBefore)
        PROVE  Derived(rule, s) \in db
    <3>1. Taken(<<i, j>>)
      BY <1>4
    <3> QED BY <1>6, <2>a, <3>1 DEF Taken, DerivedFrom
  <2>b. ToSet(s.used) \subseteq Before
    <3>1. ToSet(s.used) \subseteq Before \cup {}
      BY <1>3, SolutionSound
    <3> QED BY <3>1
  <2>1. CASE first
    <3>1. DeltaBefore = Before
      BY <1>1, <2>1 DEF RulesSaturated
    <3>2. PICK j \in Positions(rule) : TRUE
      BY <1>6, <2>1 DEF Positions, DeltaGoals
    <3>3. Carried(rule.body, Len(rule.body), Before, 0, Before, {}, j, Before, DeltaBefore)
      BY <1>3, <3>1 DEF Carried, Reads
    <3>4. s \in Solutions(rule.body, j, Before, DeltaBefore)
      <4> HIDE DEF rule
      <4> QED BY <1>3, <2>b, <3>3, SolutionsCarry
    <3> QED BY <2>a, <3>4
  <2>2. CASE ~first
    <3>1. CASE ToSet(s.used) \cap DeltaBefore = {}
      <4>1. delta \cap newDelta = {} /\ Saturates(rule, Before \ delta, db)
        BY <1>1, <2>2 DEF RulesSaturated
      <4>2. DeltaBefore = delta
        BY <4>1 DEF DeltaBefore
      <4>3. Carried(rule.body, Len(rule.body), ToSet(s.used), 0, Before, {}, 0, Before \ delta, {})
        BY <1>3, <3>1, <4>2 DEF Carried, Reads
      <4>4. s \in Solutions(rule.body, 0, Before \ delta, {})
        <5> HIDE DEF rule
        <5> QED BY <1>3, <4>3, SolutionsCarry
      <4> QED BY <1>6, <4>1, <4>4 DEF Saturates, DerivedFrom
    <3>2. CASE ToSet(s.used) \cap DeltaBefore # {}
      <4>1. PICK x \in ToSet(s.used) : x \in DeltaBefore
        BY <3>2
      <4>2. PICK j \in DOMAIN rule.body :
              ~Negated(rule.body[j]) /\ s \in Solutions(rule.body, j, Before, DeltaBefore)
        <5> HIDE DEF rule
        <5> QED BY <1>3, <4>1, SolutionMeets
      <4>3. j \in Positions(rule)
        <5>1. j \in PositiveGoals(rule) /\ j # 0
          BY <1>3, <4>2 DEF PositiveGoals
        <5> HIDE DEF rule
        <5> QED BY <1>6, <5>1 DEF Positions, DeltaGoals
      <4> QED BY <2>a, <4>2, <4>3
    <3> QED BY <3>1, <3>2
  <2> QED BY <2>1, <2>2
<1> QED BY <1>5, <1>6

LEMMA SaturationStep == SaturationInv /\ [EngineNext]_engineVars => SaturationInv'
<1> SUFFICES ASSUME SaturationInv, [EngineNext]_engineVars PROVE SaturationInv'
  OBVIOUS
<1>0. /\ EngineShape /\ EngineShape' /\ LowerSaturated /\ RoundSaturated /\ RulesSaturated
      /\ level \in Nat
  BY EngineShapeStep DEF SaturationInv, EngineShape, EngineTypeOK
<1>a. ASSUME NEW i \in Rules(program.clauses), status # "unstratifiable"
      PROVE  Strata[program.clauses[i].head.p] \in Nat
  BY <1>0, <1>a DEF EngineShape, RuleOrdered
<1>b. ASSUME UNCHANGED <<program, db, level>>, status \in {"stratum", "round", "rules"}
      PROVE  LowerSaturated'
  <2>1. Strata' = Strata
    BY <1>b DEF Strata
  <2> QED BY <1>0, <1>b, <2>1 DEF LowerSaturated
<1>c. ASSUME UNCHANGED <<program, db>>, level' = level + 1, status \in {"stratum", "round"},
             \A i \in StratumRules : Saturates(program.clauses[i], db, db)
      PROVE  LowerSaturated'
  <2>1. Strata' = Strata
    BY <1>c DEF Strata
  <2>2. ASSUME NEW i \in Rules(program.clauses), Strata[program.clauses[i].head.p] < level + 1
        PROVE  Saturates(program.clauses[i], db, db)
    <3>1. Strata[program.clauses[i].head.p] \in Nat
      BY <1>a, <1>c
    <3>2. CASE Strata[program.clauses[i].head.p] = level
      BY <1>c, <3>2 DEF StratumRules
    <3>3. CASE Strata[program.clauses[i].head.p] < level
      BY <1>0, <1>c, <3>3 DEF LowerSaturated
    <3> QED BY <1>0, <2>2, <3>1, <3>2, <3>3
  <2> QED BY <1>c, <2>1, <2>2 DEF LowerSaturated
<1>1. CASE NextStratum
  <2>1. status = "stratum" /\ UNCHANGED <<program, db>>
    BY <1>1 DEF NextStratum, derivation
  <2>2. CASE Evaluated
    <3>1. status' = "done" /\ UNCHANGED <<level, first, delta>>
      BY <1>1, <2>2 DEF NextStratum
    <3>2. Evaluated'
      BY <2>1, <2>2, <3>1 DEF Evaluated, Strata
    <3>3. LowerSaturated'
      BY <1>b, <2>1, <3>1
    <3> QED BY <1>0, <3>1, <3>2, <3>3 DEF SaturationInv, RoundSaturated, RulesSaturated
  <2>3. CASE ~Evaluated /\ StratumRules = {}
    <3>1. level' = level + 1 /\ status' = status
      BY <1>1, <2>3 DEF NextStratum
    <3>2. LowerSaturated'
      BY <1>c, <2>1, <2>3, <3>1
    <3> QED BY <1>0, <2>1, <3>1, <3>2 DEF SaturationInv, RoundSaturated, RulesSaturated
  <2>4. CASE ~Evaluated /\ StratumRules # {}
    <3>1. delta' = db /\ first' = TRUE /\ status' = "round" /\ level' = level
      BY <1>1, <2>4 DEF NextStratum
    <3>2. LowerSaturated'
      BY <1>b, <2>1, <3>1
    <3>3. RoundSaturated'
      BY <2>1, <3>1 DEF RoundSaturated
    <3> QED BY <1>0, <3>1, <3>2, <3>3 DEF SaturationInv, RulesSaturated
  <2> QED BY <2>2, <2>3, <2>4
<1>2. CASE NextRound
  <2>1. status = "round" /\ UNCHANGED <<program, first, delta, db, why>>
    BY <1>2 DEF NextRound
  <2>2. CASE ~first /\ delta = {}
    <3>1. status' = "stratum" /\ level' = level + 1
      BY <1>2, <2>2 DEF NextRound
    <3>2. \A i \in StratumRules : Saturates(program.clauses[i], db, db)
      <4>1. db \ delta = db
        BY <2>2
      <4> QED BY <1>0, <2>1, <2>2, <4>1 DEF RoundSaturated
    <3>3. LowerSaturated'
      BY <1>c, <2>1, <3>1, <3>2
    <3> QED BY <1>0, <3>1, <3>3 DEF SaturationInv, RoundSaturated, RulesSaturated
  <2>3. CASE ~(~first /\ delta = {})
    <3>1. /\ newDelta' = {} /\ base' = db /\ agenda' = RoundSteps /\ level' = level
          /\ status' \in {"limit", "rules"}
      BY <1>2, <2>3 DEF NextRound
    <3>2. LowerSaturated'
      BY <1>b, <2>1, <3>1
    <3>3. StratumRules' = StratumRules /\ RoundSteps' = RoundSteps
      BY <2>1, <3>1 DEF StratumRules, RoundSteps, Positions, Strata
    <3>4. Before' = db /\ DeltaBefore' = delta
      BY <2>1, <3>1 DEF Before, DeltaBefore
    <3>5. first => delta = db
      BY <1>0, <2>1 DEF RoundSaturated
    <3>6. ~first => \A i \in StratumRules : Saturates(program.clauses[i], db \ delta, db)
      BY <1>0, <2>1 DEF RoundSaturated
    <3>7. RulesSaturated'
      BY <2>1, <3>1, <3>3, <3>4, <3>5, <3>6 DEF RulesSaturated
    <3> QED BY <1>0, <3>1, <3>2, <3>7 DEF SaturationInv, RoundSaturated
  <2> QED BY <2>2, <2>3
<1>3. CASE Derive
  BY <1>3, DeriveSaturation
<1>4. CASE NextPosition
  <2>1. /\ UNCHANGED <<program, status, level, first, iterations, delta, db, why, newDelta>>
        /\ agenda' = agenda \ {Current} /\ base' = db /\ status = "rules"
    BY <1>4 DEF NextPosition, rounds, derivation
  <2>2. StratumRules' = StratumRules /\ RoundSteps' = RoundSteps
    BY <2>1 DEF StratumRules, RoundSteps, Positions, Strata
  <2>3. Before' = Before /\ DeltaBefore' = DeltaBefore
    BY <2>1 DEF Before, DeltaBefore
  <2>4. Taken(Current)
    BY <1>4, PositionTaken
  <2>5. \A t \in RoundSteps \ agenda' : Taken(t)
    BY <1>0, <2>1, <2>4 DEF RulesSaturated
  <2>6. \A t \in RoundSteps \ agenda' : Taken(t)'
    BY <2>1, <2>3, <2>5 DEF Taken
  <2>7. LowerSaturated'
    BY <1>b, <2>1
  <2>8. Before \subseteq db
    BY DEF Before
  <2>9. /\ \A f \in newDelta : Strata[f.p] = level
        /\ IF first THEN DeltaBefore = Before
           ELSE /\ delta \cap newDelta = {}
                /\ \A i \in StratumRules : Saturates(program.clauses[i], Before \ delta, db)
    BY <1>0, <2>1 DEF RulesSaturated
  <2>10. Strata' = Strata
    BY <2>1 DEF Strata
  <2>11. RulesSaturated'
    BY <2>1, <2>2, <2>3, <2>6, <2>8, <2>9, <2>10 DEF RulesSaturated
  <2> QED BY <1>0, <2>1, <2>7, <2>11 DEF SaturationInv, RoundSaturated
<1>5. CASE CountRows
  <2>1. CASE Adding(Counted(Rule, db) \ db, NoProof) /\ base' = db'
    BY <1>5, <2>1, CountRowsSaturation
  <2>2. CASE status' = "limit"
    BY <1>0, <2>2 DEF SaturationInv, LowerSaturated, RoundSaturated, RulesSaturated
  <2> QED BY <1>0, <1>5, <2>1, <2>2, CountRowsAdds
<1>6. CASE EndRound
  <2>1. /\ UNCHANGED <<program, level, iterations, db, why, newDelta, agenda, base>>
        /\ status = "rules" /\ agenda = {} /\ status' = "round" /\ delta' = newDelta /\ first' = FALSE
    BY <1>6 DEF EndRound, derivation
  <2>2. \A i \in StratumRules : Saturates(program.clauses[i], Before, db)
    BY <2>1, RoundTaken
  <2>3. StratumRules' = StratumRules /\ db' \ delta' = Before
    BY <2>1 DEF StratumRules, Strata, Before
  <2>4. RoundSaturated'
    BY <2>1, <2>2, <2>3 DEF RoundSaturated
  <2>5. LowerSaturated'
    BY <1>b, <2>1
  <2> QED BY <1>0, <2>1, <2>4, <2>5 DEF SaturationInv, RulesSaturated
<1>7. CASE UNCHANGED engineVars
  <2>1. UNCHANGED <<program, status, level, first, iterations, delta, db, why, newDelta, agenda, base>>
    BY <1>7 DEF engineVars, rounds, derivation
  <2>2. /\ StratumRules' = StratumRules /\ RoundSteps' = RoundSteps /\ Strata' = Strata
        /\ Before' = Before /\ DeltaBefore' = DeltaBefore
    BY <2>1 DEF StratumRules, RoundSteps, Positions, Strata, Before, DeltaBefore
  <2>3. LowerSaturated' /\ RoundSaturated'
    BY <1>0, <2>1, <2>2 DEF LowerSaturated, RoundSaturated
  <2>4. RulesSaturated'
    <3>1. \A s : Taken(s)' <=> Taken(s)
      BY <2>1, <2>2 DEF Taken
    <3> QED BY <1>0, <2>1, <2>2, <3>1 DEF RulesSaturated
  <2>5. Evaluated' <=> Evaluated
    BY <2>1, <2>2 DEF Evaluated
  <2> QED BY <1>0, <2>1, <2>3, <2>4, <2>5 DEF SaturationInv
<1>8. CASE VisitTooMany
  BY <1>0, <1>8 DEF VisitTooMany, SaturationInv, LowerSaturated, RoundSaturated, RulesSaturated
<1> QED BY <1>1, <1>2, <1>3, <1>4, <1>5, <1>6, <1>7, <1>8 DEF EngineNext

\* What follows by any rule from the facts the evaluation ends with is among them.
NothingMissed ==
  status = "done" =>
    \A i \in Rules(program.clauses) : Saturates(program.clauses[i], db, db)

\* Though each round reads only the facts of the round before, one goal at a time, and
\* a relation is read while it grows, an evaluation that ends has missed nothing, for
\* every program and order of solutions (deriveDatabase, the semi-naive rounds).
THEOREM EvaluationIsComplete == EngineSpec => []NothingMissed
<1>1. SaturationInv => NothingMissed
  <2> SUFFICES ASSUME SaturationInv, status = "done", NEW i \in Rules(program.clauses)
               PROVE  Saturates(program.clauses[i], db, db)
    BY DEF NothingMissed
  <2>1. program.clauses[i].head.p \in DOMAIN Strata
    BY RuleHeads DEF SaturationInv, EngineShape
  <2> QED BY <2>1 DEF SaturationInv, LowerSaturated, Evaluated
<1> QED BY <1>1, InitSaturation, SaturationStep, PTL DEF EngineSpec

-----------------------------------------------------------------------------
(* The strata are the least ones, or there are none.                         *)

StrataInv ==
  LET ranks == Stratifications(program.clauses) IN
  /\ status = "unstratifiable" <=> ranks = {}
  /\ ranks # {} => /\ Strata \in ranks
                   /\ \A rank \in ranks : \A p \in DOMAIN rank : Strata[p] <= rank[p]

LEMMA InitStrata == EngineInit => StrataInv
<1> SUFFICES ASSUME EngineInit PROVE StrataInv
  OBVIOUS
<1> DEFINE clauses == program.clauses
<1>1. IsProgram(clauses) /\ Strata = StrataAfter(clauses, Passes(clauses))
  BY InitProgram
<1>2. status = "unstratifiable" <=> ~Stratifiable(clauses)
  BY DEF EngineInit
<1> HIDE DEF clauses
<1>3. /\ Stratifiable(clauses) <=> Stratifications(clauses) # {}
      /\ Stratifications(clauses) # {} =>
           /\ Strata \in Stratifications(clauses)
           /\ \A rank \in Stratifications(clauses) : \A p \in DOMAIN rank : Strata[p] <= rank[p]
  BY <1>1, LeastStrata
<1> QED BY <1>2, <1>3 DEF StrataInv, clauses

\* A refused program is not evaluated, and none is refused later.
LEMMA StrataStep == StrataInv /\ [EngineNext]_engineVars => StrataInv'
<1> SUFFICES ASSUME StrataInv, [EngineNext]_engineVars PROVE StrataInv'
  OBVIOUS
<1>1. /\ program' = program
      /\ status' = "unstratifiable" <=> status = "unstratifiable"
  <2>1. CASE NextStratum BY <2>1 DEF NextStratum
  <2>2. CASE NextRound BY <2>2 DEF NextRound
  <2>3. CASE Derive BY <2>3 DEF Derive, Add
  <2>4. CASE NextPosition BY <2>4 DEF NextPosition
  <2>5. CASE CountRows BY <2>5 DEF CountRows, Add
  <2>6. CASE EndRound BY <2>6 DEF EndRound
  <2>7. CASE UNCHANGED engineVars BY <2>7 DEF engineVars
  <2>8. CASE VisitTooMany BY <2>8 DEF VisitTooMany
  <2> QED BY <2>1, <2>2, <2>3, <2>4, <2>5, <2>6, <2>7, <2>8 DEF EngineNext
<1>2. Strata' = Strata
  BY <1>1 DEF Strata
<1> QED BY <1>1, <1>2 DEF StrataInv

\* For every program: it is refused exactly when it has no stratification, and the
\* strata its rules are evaluated in are the least, found in as many passes as there
\* are predicates (stratifyProgram).
THEOREM StrataAreLeast == EngineSpec => []StrataLeast
<1>1. StrataInv => StrataLeast
  BY DEF StrataInv, StrataLeast
<1> QED BY <1>1, InitStrata, StrataStep, PTL DEF EngineSpec

-----------------------------------------------------------------------------
(* The model.                                                                *)

\* G has the facts of the program and what its rules derive from facts of G, where what
\* is absent or counted is so in M.
ClosedUnder(clauses, M, G) ==
  /\ Authored(clauses) \subseteq G
  /\ \A i \in Rules(clauses) :
       LET rule == clauses[i] IN
       IF Aggregate(rule) THEN Counted(rule, M) \subseteq G
       ELSE \A s \in Solutions(rule.body, 0, M, {}) :
              ToSet(s.used) \subseteq G => Derived(rule, s) \in G

\* M is closed under the rules and no part of it is: a stable model.
IsModel(clauses, M) == \A G \in SUBSET M : ClosedUnder(clauses, M, G) <=> G = M

\* An evaluation ends with a model of the program, and it has no other.
TheModel == status = "done" => \A M : IsModel(program.clauses, M) <=> M = db

LEMMA NoneLeftOut ==
  ASSUME ProofsInv, NEW G \in SUBSET db, ClosedUnder(program.clauses, db, G)
  PROVE  G = db
<1> SUFFICES ASSUME db \ G # {} PROVE FALSE
  OBVIOUS
<1>1. WellFounded(db, why) /\ \A f \in db \ Authored(program.clauses) : Follows(f)
  BY DEF ProofsInv, ProofsKept
<1>2. PICK f \in db \ G : why[f].uses \cap (db \ G) = {}
  <2> DEFINE S == db \ G
  <2>1. S \in SUBSET db /\ S # {}
    OBVIOUS
  <2> HIDE DEF S
  <2>2. \E f \in S : why[f].uses \cap S = {}
    BY <1>1, <2>1 DEF WellFounded
  <2> QED BY <2>2 DEF S
<1>3. why[f].uses \subseteq G
  BY <1>1, <1>2 DEF WellFounded
<1>4. f \notin Authored(program.clauses)
  BY <1>2 DEF ClosedUnder
<1>5. PICK i \in Rules(program.clauses) :
        LET rule == program.clauses[i] IN
        IF Aggregate(rule) THEN f \in Counted(rule, db)
        ELSE \E s \in Solutions(rule.body, 0, db, {}) : Derived(rule, s) = f /\ why[f] = Proof(s)
  BY <1>1, <1>2, <1>4 DEF Follows
<1> DEFINE rule == program.clauses[i]
<1>6. CASE Aggregate(rule)
  <2>1. f \in Counted(rule, db) /\ Counted(rule, db) \subseteq G
    BY <1>5, <1>6 DEF ClosedUnder
  <2> QED BY <1>2, <2>1
<1>7. CASE ~Aggregate(rule)
  <2>1. PICK s \in Solutions(rule.body, 0, db, {}) : Derived(rule, s) = f /\ why[f] = Proof(s)
    BY <1>5, <1>7
  <2>2. ToSet(s.used) \subseteq G
    BY <1>3, <2>1 DEF Proof
  <2>3. Derived(rule, s) \in G
    BY <1>7, <2>2 DEF ClosedUnder
  <2> QED BY <1>2, <2>1, <2>3
<1> QED BY <1>6, <1>7

LEMMA EndsWithModel ==
  ASSUME ProofsInv, NothingMissed, status = "done"
  PROVE  IsModel(program.clauses, db)
<1>1. Authored(program.clauses) \subseteq db
  BY DEF ProofsInv, EngineShape
<1>2. ASSUME NEW i \in Rules(program.clauses) PROVE Saturates(program.clauses[i], db, db)
  BY DEF NothingMissed
<1>3. ClosedUnder(program.clauses, db, db)
  BY <1>1, <1>2 DEF ClosedUnder, Saturates, DerivedFrom
<1> QED BY <1>3, NoneLeftOut DEF IsModel

\* A model has facts of the program's predicates only.
LEMMA ModelPredicates ==
  ASSUME NEW clauses, NEW M, IsModel(clauses, M)
  PROVE  \A f \in M : f.p \in PredicatesOf(clauses)
<1> DEFINE P == PredicatesOf(clauses)
           G == {f \in M : f.p \in P}
<1>1. ClosedUnder(clauses, M, M)
  BY DEF IsModel
<1>2. ASSUME NEW f \in Authored(clauses) PROVE f \in G
  <2>1. PICK i \in DOMAIN clauses : f = clauses[i].head
    BY DEF Authored
  <2>2. f.p \in P
    BY <2>1 DEF PredicatesOf
  <2> QED BY <1>1, <2>2 DEF ClosedUnder
<1>3. ASSUME NEW i \in Rules(clauses)
      PROVE  LET rule == clauses[i] IN
             IF Aggregate(rule) THEN Counted(rule, M) \subseteq G
             ELSE \A s \in Solutions(rule.body, 0, M, {}) :
                    ToSet(s.used) \subseteq G => Derived(rule, s) \in G
  <2> DEFINE rule == clauses[i]
  <2>1. rule.head.p \in P
    BY RuleHeads
  <2>2. IF Aggregate(rule) THEN Counted(rule, M) \subseteq M
        ELSE \A s \in Solutions(rule.body, 0, M, {}) :
               ToSet(s.used) \subseteq M => Derived(rule, s) \in M
    BY <1>1 DEF ClosedUnder
  <2>3. G \subseteq M /\ \A f \in M : f.p = rule.head.p => f \in G
    BY <2>1
  <2> HIDE DEF rule, G
  <2>4. CASE Aggregate(rule)
    BY <2>2, <2>3, <2>4, HeadDerived DEF rule
  <2>5. CASE ~Aggregate(rule)
    <3>1. ASSUME NEW s \in Solutions(rule.body, 0, M, {}), ToSet(s.used) \subseteq G
          PROVE  Derived(rule, s) \in G
      <4>1. ToSet(s.used) \subseteq M
        BY <2>3, <3>1
      <4>2. Derived(rule, s) \in M
        BY <2>2, <2>5, <4>1
      <4> QED BY <2>3, <4>2, HeadDerived
    <3> QED BY <2>5, <3>1 DEF rule
  <2> QED BY <2>4, <2>5
<1>4. ClosedUnder(clauses, M, G)
  <2> HIDE DEF G
  <2> QED BY <1>2, <1>3 DEF ClosedUnder
<1>5. G \in SUBSET M
  OBVIOUS
<1>6. G = M
  <2> HIDE DEF G
  <2> QED BY <1>4, <1>5 DEF IsModel
<1> QED BY <1>6

\* A and B have the same facts below a stratum.
SameBelow(A, B, strata, n) ==
  \A f : strata[f.p] \in Nat /\ strata[f.p] < n => (f \in A <=> f \in B)

\* B has the facts U of a stratum.
HasStratum(U, B, strata, n) == \A f \in U : strata[f.p] = n => f \in B

\* A rule of the stratum derives the same from both, as long as it uses what both have.
LEMMA SharedSolution ==
  ASSUME NEW rule, NEW strata, RuleOrdered(rule, strata), NEW n, strata[rule.head.p] = n,
         NEW A, NEW B, SameBelow(A, B, strata, n), NEW U, U \subseteq A,
         HasStratum(U, B, strata, n),
         NEW s \in Solutions(rule.body, 0, A, {}), ToSet(s.used) \subseteq U
  PROVE  s \in Solutions(rule.body, 0, B, {})
<1> DEFINE goals == rule.body
<1>1. IsSequence(goals) /\ DOMAIN goals = 1..Len(goals)
  BY SequenceShape DEF RuleOrdered
<1>2. ASSUME NEW i \in 1..Len(goals), ~Negated(goals[i]), NEW f \in A, f \in U, f.p = goals[i].p
      PROVE  f \in B
  <2>1. i \in DOMAIN goals
    BY <1>1
  <2>2. /\ strata[goals[i].p] \in Nat /\ n \in Nat
        /\ strata[goals[i].p] <= n
    BY <2>1 DEF RuleOrdered
  <2>3. strata[f.p] \in Nat /\ (strata[f.p] < n \/ strata[f.p] = n)
    BY <1>2, <2>2
  <2> QED BY <1>2, <2>3 DEF SameBelow, HasStratum
<1>3. ASSUME NEW i \in 1..Len(goals), Negated(goals[i]), NEW f \in B, f.p = goals[i].p
      PROVE  f \in A
  <2>1. i \in DOMAIN goals
    BY <1>1
  <2>2. strata[goals[i].p] \in Nat /\ strata[goals[i].p] < n
    BY <1>3, <2>1 DEF RuleOrdered
  <2> QED BY <1>3, <2>2 DEF SameBelow
<1>4. Carried(goals, Len(goals), U, 0, A, {}, 0, B, {})
  BY <1>2, <1>3 DEF Carried, Reads
<1>5. s \in Solutions(goals, 0, A, {})
  OBVIOUS
<1> HIDE DEF goals
<1>6. s \in Solutions(goals, 0, B, {})
  BY <1>1, <1>4, <1>5, SolutionsCarry
<1> QED BY <1>6 DEF goals

LEMMA SolutionUses ==
  ASSUME NEW rule, NEW strata, RuleOrdered(rule, strata), NEW A,
         NEW s \in Solutions(rule.body, 0, A, {})
  PROVE  ToSet(s.used) \subseteq A
<1>1. IsSequence(rule.body)
  BY DEF RuleOrdered
<1>2. ToSet(s.used) \subseteq A \cup {}
  BY <1>1, SolutionSound
<1> QED BY <1>2

\* What is counted lies below the stratum.
LEMMA SharedCounts ==
  ASSUME NEW rule, Aggregate(rule), NEW strata, RuleOrdered(rule, strata), NEW n,
         strata[rule.head.p] = n, NEW A, NEW B, SameBelow(A, B, strata, n)
  PROVE  Counted(rule, A) = Counted(rule, B)
<1> DEFINE goals == rule.body
<1>1. IsSequence(goals) /\ DOMAIN goals = 1..Len(goals)
  BY SequenceShape DEF RuleOrdered
<1>2. ASSUME NEW i \in 1..Len(goals), NEW f, f.p = goals[i].p
      PROVE  f \in A <=> f \in B
  <2>1. i \in DOMAIN goals
    BY <1>1
  <2>2. strata[goals[i].p] \in Nat /\ strata[goals[i].p] < n
    BY <2>1 DEF RuleOrdered
  <2> QED BY <1>2, <2>2 DEF SameBelow
<1>3. Carried(goals, Len(goals), A, 0, A, {}, 0, B, {})
      /\ Carried(goals, Len(goals), B, 0, B, {}, 0, A, {})
  BY <1>2 DEF Carried, Reads
<1>4. ASSUME NEW s \in Solutions(goals, 0, A, {}) PROVE s \in Solutions(goals, 0, B, {})
  <2>1. ToSet(s.used) \subseteq A
    BY SolutionUses
  <2> HIDE DEF goals
  <2> QED BY <1>1, <1>3, <1>4, <2>1, SolutionsCarry
<1>5. ASSUME NEW s \in Solutions(goals, 0, B, {}) PROVE s \in Solutions(goals, 0, A, {})
  <2>1. ToSet(s.used) \subseteq B
    BY SolutionUses
  <2> HIDE DEF goals
  <2> QED BY <1>1, <1>3, <1>5, <2>1, SolutionsCarry
<1>6. Solutions(rule.body, 0, A, {}) = Solutions(rule.body, 0, B, {})
  BY <1>4, <1>5
<1> QED BY <1>6, CountedSame

\* Of two models that agree below a stratum, neither has more in it.
LEMMA ModelsAgreeAt ==
  ASSUME NEW clauses, NEW strata, \A i \in Rules(clauses) : RuleOrdered(clauses[i], strata),
         NEW A, IsModel(clauses, A), NEW B, IsModel(clauses, B),
         NEW n, SameBelow(A, B, strata, n)
  PROVE  \A f \in A : strata[f.p] = n => f \in B
<1> DEFINE G == {f \in A : strata[f.p] = n => f \in B}
<1>1. ClosedUnder(clauses, A, A) /\ ClosedUnder(clauses, B, B)
  BY DEF IsModel
<1>2. Authored(clauses) \subseteq G
  BY <1>1 DEF ClosedUnder
<1>3. G \subseteq A /\ \A f \in G : strata[f.p] = n => f \in B
  OBVIOUS
<1>4. \A f \in A : strata[f.p] # n \/ f \in B => f \in G
  OBVIOUS
<1> HIDE DEF G
<1>5. ASSUME NEW i \in Rules(clauses), Aggregate(clauses[i])
      PROVE  Counted(clauses[i], A) \subseteq G
  <2> DEFINE rule == clauses[i]
  <2>1. Counted(rule, A) \subseteq A /\ Counted(rule, B) \subseteq B
    BY <1>1, <1>5 DEF ClosedUnder
  <2>2. RuleOrdered(rule, strata) /\ Aggregate(rule)
    BY <1>5
  <2> HIDE DEF rule
  <2>3. CASE strata[rule.head.p] = n
    <3>1. Counted(rule, A) = Counted(rule, B)
      BY <2>2, <2>3, SharedCounts
    <3> QED BY <1>4, <2>1, <3>1 DEF rule
  <2>4. CASE strata[rule.head.p] # n
    <3>1. \A f \in Counted(rule, A) : f.p = rule.head.p
      BY HeadDerived
    <3> QED BY <1>4, <2>1, <2>4, <3>1 DEF rule
  <2> QED BY <2>3, <2>4
<1>6. ASSUME NEW i \in Rules(clauses), ~Aggregate(clauses[i]),
             NEW s \in Solutions(clauses[i].body, 0, A, {}), ToSet(s.used) \subseteq G
      PROVE  Derived(clauses[i], s) \in G
  <2> DEFINE rule == clauses[i]
  <2>1. RuleOrdered(rule, strata) /\ s \in Solutions(rule.body, 0, A, {})
    OBVIOUS
  <2>2. ToSet(s.used) \subseteq A
    BY <1>3, <1>6
  <2>3. Derived(rule, s) \in A
    BY <1>1, <1>6, <2>2 DEF ClosedUnder
  <2>4. \A t \in Solutions(rule.body, 0, B, {}) : ToSet(t.used) \subseteq B => Derived(rule, t) \in B
    BY <1>1, <1>6 DEF ClosedUnder
  <2> HIDE DEF rule
  <2>5. CASE strata[rule.head.p] = n
    <3>0. ToSet(s.used) \subseteq G /\ G \subseteq A
      BY <1>3, <1>6
    <3>1. s \in Solutions(rule.body, 0, B, {})
      <4>1. HasStratum(G, B, strata, n)
        BY <1>3 DEF HasStratum
      <4>2. ASSUME NEW m, strata[rule.head.p] = m, SameBelow(A, B, strata, m), NEW U, U \subseteq A,
              HasStratum(U, B, strata, m), ToSet(s.used) \subseteq U
            PROVE s \in Solutions(rule.body, 0, B, {})
        BY <2>1, <4>2, SharedSolution
      <4>3. ToSet(s.used) \subseteq G
        BY <3>0
      <4>4. G \subseteq A
        BY <3>0
      <4>5. SameBelow(A, B, strata, n)
        OBVIOUS
      <4>6. strata[rule.head.p] = n
        BY <2>5
      <4> QED BY <4>1, <4>2, <4>3, <4>4, <4>5, <4>6
    <3>2. ToSet(s.used) \subseteq B
      BY <2>1, <3>1, SolutionUses
    <3> QED BY <1>4, <2>3, <2>4, <3>1, <3>2 DEF rule
  <2>6. CASE strata[rule.head.p] # n
    <3>1. Derived(rule, s).p = rule.head.p
      BY HeadDerived
    <3> QED BY <1>4, <2>3, <2>6, <3>1 DEF rule
  <2> QED BY <2>5, <2>6
<1>7. ClosedUnder(clauses, A, G)
  BY <1>2, <1>5, <1>6 DEF ClosedUnder
<1>8. G = A
  BY <1>3, <1>7 DEF IsModel
<1> QED BY <1>3, <1>8

LEMMA OneModel ==
  ASSUME NEW clauses, NEW strata \in [PredicatesOf(clauses) -> Nat],
         \A i \in Rules(clauses) : RuleOrdered(clauses[i], strata),
         NEW A, IsModel(clauses, A), NEW B, IsModel(clauses, B)
  PROVE  A = B
<1> DEFINE K == {n \in Nat : SameBelow(A, B, strata, n)}
<1>1. 0 \in K
  BY DEF SameBelow
<1>2. ASSUME NEW n \in Nat, n \in K PROVE n + 1 \in K
  <2>1. SameBelow(A, B, strata, n) /\ SameBelow(B, A, strata, n)
    BY <1>2 DEF SameBelow
  <2>2. /\ \A f \in A : strata[f.p] = n => f \in B
        /\ \A f \in B : strata[f.p] = n => f \in A
    BY <2>1, ModelsAgreeAt
  <2>3. ASSUME NEW f, strata[f.p] \in Nat, strata[f.p] < n + 1 PROVE f \in A <=> f \in B
    <3>1. strata[f.p] < n \/ strata[f.p] = n
      BY <2>3
    <3> QED BY <2>1, <2>2, <2>3, <3>1 DEF SameBelow
  <2> QED BY <2>3 DEF SameBelow
<1> HIDE DEF K
<1>3. Nat \subseteq K
  BY <1>1, <1>2, Induction
<1>4. ASSUME NEW f, f.p \in PredicatesOf(clauses) PROVE f \in A <=> f \in B
  <2>1. strata[f.p] \in Nat /\ strata[f.p] + 1 \in Nat /\ strata[f.p] < strata[f.p] + 1
    BY <1>4
  <2>2. SameBelow(A, B, strata, strata[f.p] + 1)
    BY <1>3, <2>1 DEF K
  <2> QED BY <2>1, <2>2 DEF SameBelow
<1> QED BY <1>4, ModelPredicates

\* Every evaluation that ends has computed the model of the program: whatever the order
\* in which solutions are found, every fact of it is needed and none is missing, and no
\* other set of facts is a model, because the rules are evaluated stratum by stratum
\* (deriveDatabase).
THEOREM EvaluationIsTheModel == EngineSpec => []TheModel
<1>1. ProofsInv /\ NothingMissed => TheModel
  <2> SUFFICES ASSUME ProofsInv, NothingMissed, status = "done", NEW M
               PROVE  IsModel(program.clauses, M) <=> M = db
    BY DEF TheModel
  <2>1. /\ Strata \in [PredicatesOf(program.clauses) -> Nat]
        /\ \A i \in Rules(program.clauses) : RuleOrdered(program.clauses[i], Strata)
    BY DEF ProofsInv, EngineShape
  <2>2. IsModel(program.clauses, db)
    BY EndsWithModel
  <2> QED BY <2>1, <2>2, OneModel
<1>2. EngineSpec => []ProofsInv
  BY InitProofs, ProofsStep, PTL DEF EngineSpec
<1> QED BY <1>1, <1>2, EvaluationIsComplete, PTL
=============================================================================
