----------------------- MODULE StoreOperationsProofs -----------------------
(***************************************************************************)
(* Facts about one mutation, for every request and every state it may be   *)
(* decided in.                                                             *)
(***************************************************************************)
EXTENDS StoreOperations, WellFoundedInduction, TLAPS

InLog(e, log) == e \in {log[i] : i \in DOMAIN log}

\* The entry changes its namespace.
Effective(e) == e.ended # {} \/ e.added # {}

\* The position-valued ids of a journal are those of earlier positions.
IdsBelow(log) == \A i \in DOMAIN log : log[i].id \in Nat => log[i].id <= Len(log)

\* No operation of a namespace is journaled twice under a caller's id, ...
UniqueOperations(log) ==
  \A i, j \in DOMAIN log :
    /\ log[i].id \in OperationIds
    /\ log[i].op = log[j].op
    /\ log[i].ns = log[j].ns
    /\ log[i].id = log[j].id
    => i = j

\* ... and an entry with such an id is not one of an earlier call.
NewOperation(e, log) ==
  e.id \in OperationIds =>
    \A i \in DOMAIN log : ~(log[i].op = e.op /\ log[i].ns = e.ns /\ log[i].id = e.id)

LEMMA RequestFields ==
  ASSUME NEW req \in Requests
  PROVE  /\ req \in Request
         /\ req.op \in Ops /\ req.ns \in Namespaces
         /\ req.id \in OperationIds \cup {Implicit}
         /\ req.params \in Parameters /\ req.view \in SUBSET Namespaces
         /\ req.params.matches \in SUBSET Clauses
         /\ req.params.adds \in SUBSET Clauses
BY OperationsAssumption DEF Request, Parameters

\* What a request ends, adds and leaves are clauses, whoever makes it.
LEMMA EffectsOfAny ==
  ASSUME NEW req \in Request, NEW current \in SUBSET Clauses
  PROVE  /\ Ended(req, current) \in SUBSET Clauses
         /\ Kept(req, current) \in SUBSET Clauses
         /\ Added(req, current) \in SUBSET Clauses
         /\ Candidate(req, current) \in SUBSET Clauses
<1>1. Ended(req, current) \in SUBSET Clauses /\ Kept(req, current) \in SUBSET Clauses
  BY DEF Ended, Kept
<1>2. {Until[c] : c \in Ended(req, current) \cap DOMAIN Until} \subseteq Clauses
  BY OperationsAssumption
<1>3. Archived(req, current) \in SUBSET Clauses
  BY <1>2 DEF Archived
<1>4. Added(req, current) \in SUBSET Clauses
  BY <1>3 DEF Added, Request, Parameters
<1> QED BY <1>1, <1>4 DEF Candidate

LEMMA EffectTypes ==
  ASSUME NEW req \in Requests, NEW current \in SUBSET Clauses
  PROVE  /\ Ended(req, current) \in SUBSET Clauses
         /\ Kept(req, current) \in SUBSET Clauses
         /\ Added(req, current) \in SUBSET Clauses
         /\ Candidate(req, current) \in SUBSET Clauses
BY RequestFields, EffectsOfAny

\* The candidate is what replaying the entry yields.
LEMMA CandidateIsReplayed ==
  ASSUME NEW req, NEW current
  PROVE  Candidate(req, current) = (current \ Ended(req, current)) \cup Added(req, current)
BY DEF Candidate, Kept, Ended

LEMMA EntryOfAny ==
  ASSUME NEW req \in Request, NEW kb \in Knowledge, NEW log, Len(log) \in Nat
  PROVE  /\ EntryOf(req, kb, log) \in Entry
         /\ EntryOf(req, kb, log).ns = req.ns
         /\ EntryOf(req, kb, log).op = req.op
         /\ EntryOf(req, kb, log).id = IF Explicit(req) THEN req.id ELSE Len(log) + 1
<1>0. req.op \in Ops /\ req.ns \in Namespaces /\ req.params \in Parameters
      /\ req.id \in OperationIds \cup {Implicit}
  BY DEF Request
<1>1. kb[req.ns] \in SUBSET Clauses
  BY <1>0 DEF Knowledge
<1>2. (IF Explicit(req) THEN req.id ELSE Len(log) + 1) \in OperationIds \cup Nat
  <2>1. CASE Explicit(req) BY <2>1, <1>0 DEF Explicit
  <2>2. CASE ~Explicit(req) BY <2>2
  <2> QED BY <2>1, <2>2
<1> QED BY <1>0, <1>1, <1>2, EffectsOfAny DEF EntryOf, Entry

LEMMA EntryTypes ==
  ASSUME NEW req \in Requests, NEW kb \in Knowledge, NEW log \in Seq(Entry)
  PROVE  /\ EntryOf(req, kb, log) \in Entry
         /\ EntryOf(req, kb, log).ns = req.ns
BY RequestFields, EntryOfAny

LEMMA NoteTypes ==
  ASSUME NEW n \in Namespaces, NEW log \in Seq(Entry)
  PROVE  NoteEntry(n, log) \in Entry /\ ~Effective(NoteEntry(n, log))
         /\ NoteEntry(n, log).id = Len(log) + 1
BY DEF NoteEntry, Entry, Parameters, Knowledge, Effective

\* A mutation that takes effect has an entry the journal does not hold yet:
\* its operation id is new, or generated.
LEMMA ChangeIsNew ==
  ASSUME NEW req \in Requests, NEW kb \in Knowledge, NEW log \in Seq(Entry),
         IdsBelow(log), Outcome(req, kb, log) = "change"
  PROVE  /\ Effective(EntryOf(req, kb, log))
         /\ ~InLog(EntryOf(req, kb, log), log)
         /\ EntryOf(req, kb, log).id \in Nat => EntryOf(req, kb, log).id = Len(log) + 1
<1>1. ~IsRetry(req, log) /\ ~NoEffect(req, kb[req.ns])
  BY DEF Outcome
<1>2. Effective(EntryOf(req, kb, log))
  BY <1>1 DEF NoEffect, Effective, EntryOf
<1>3. CASE Explicit(req)
  <2>1. PriorEntries(req, log) = {}
    BY <1>1, <1>3 DEF IsRetry
  <2>2. ~InLog(EntryOf(req, kb, log), log)
    BY <1>3, <2>1 DEF PriorEntries, InLog, EntryOf
  <2>3. req.id \notin Nat
    BY <1>3, RequestFields, OperationsAssumption DEF Explicit
  <2> QED BY <1>2, <1>3, <2>2, <2>3 DEF EntryOf
<1>4. CASE ~Explicit(req)
  <2>1. EntryOf(req, kb, log).id = Len(log) + 1
    BY <1>4 DEF EntryOf
  <2>2. ~InLog(EntryOf(req, kb, log), log)
    BY <2>1 DEF InLog, IdsBelow
  <2> QED BY <1>2, <2>1, <2>2
<1> QED BY <1>3, <1>4

\* A call that only records its id has an entry without effect, under an id
\* its caller supplied.
LEMMA RecordIsIneffective ==
  ASSUME NEW req \in Requests, NEW kb \in Knowledge, NEW log \in Seq(Entry),
         Outcome(req, kb, log) = "record"
  PROVE  /\ ~Effective(EntryOf(req, kb, log))
         /\ EntryOf(req, kb, log).id \in OperationIds
<1>1. Explicit(req) /\ NoEffect(req, kb[req.ns])
  BY DEF Outcome
<1> QED BY <1>1, RequestFields DEF NoEffect, Effective, EntryOf, Explicit

\* Appending keeps ids below the length when the new one is a supplied id or
\* the next position.
LEMMA AppendIds ==
  ASSUME NEW log \in Seq(Entry), NEW e \in Entry, IdsBelow(log),
         e.id \in Nat => e.id = Len(log) + 1
  PROVE  IdsBelow(Append(log, e))
<1>1. /\ Append(log, e) \in Seq(Entry)
      /\ Len(Append(log, e)) = Len(log) + 1
      /\ DOMAIN Append(log, e) = 1..(Len(log) + 1)
      /\ \A i \in 1..Len(log) : Append(log, e)[i] = log[i]
      /\ Append(log, e)[Len(log) + 1] = e
  OBVIOUS
<1> QED BY <1>1 DEF IdsBelow, Entry

LEMMA AppendMembers ==
  ASSUME NEW log \in Seq(Entry), NEW e \in Entry, NEW x
  PROVE  InLog(x, Append(log, e)) <=> InLog(x, log) \/ x = e
<1>1. /\ DOMAIN Append(log, e) = 1..(Len(log) + 1)
      /\ DOMAIN log = 1..Len(log)
      /\ Len(log) \in Nat
      /\ \A i \in 1..Len(log) : Append(log, e)[i] = log[i]
      /\ Append(log, e)[Len(log) + 1] = e
  OBVIOUS
<1> QED BY <1>1 DEF InLog

\* A call that is journaled is not a retry.
LEMMA DecidedIsNew ==
  ASSUME NEW req \in Requests, NEW kb, NEW log \in Seq(Entry),
         Outcome(req, kb, log) \in {"change", "record"}
  PROVE  NewOperation(EntryOf(req, kb, log), log)
<1>1. ~IsRetry(req, log)
  BY DEF Outcome
<1>2. CASE Explicit(req)
  BY <1>1, <1>2 DEF IsRetry, PriorEntries, NewOperation, EntryOf
<1>3. CASE ~Explicit(req)
  <2>1. EntryOf(req, kb, log).id \in Nat
    BY <1>3 DEF EntryOf
  <2> QED BY <2>1, OperationsAssumption DEF NewOperation
<1> QED BY <1>2, <1>3

\* Appending an entry that is new keeps operations unique.
LEMMA AppendKeepsUnique ==
  ASSUME NEW log \in Seq(Entry), NEW e \in Entry,
         UniqueOperations(log), NewOperation(e, log)
  PROVE  UniqueOperations(Append(log, e))
<1> DEFINE longer == Append(log, e)
<1>1. /\ DOMAIN log = 1..Len(log) /\ Len(log) \in Nat
      /\ DOMAIN longer = 1..(Len(log) + 1)
      /\ \A i \in 1..Len(log) : longer[i] = log[i]
      /\ longer[Len(log) + 1] = e
  OBVIOUS
<1> HIDE DEF longer
<1> SUFFICES ASSUME NEW i \in DOMAIN longer, NEW j \in DOMAIN longer,
                    longer[i].id \in OperationIds, longer[i].op = longer[j].op,
                    longer[i].ns = longer[j].ns, longer[i].id = longer[j].id
             PROVE  i = j
  BY DEF UniqueOperations, longer
<1>2. CASE i \in DOMAIN log /\ j \in DOMAIN log
  BY <1>1, <1>2 DEF UniqueOperations
<1>3. CASE i \notin DOMAIN log /\ j \in DOMAIN log
  BY <1>1, <1>3 DEF NewOperation
<1>4. CASE i \in DOMAIN log /\ j \notin DOMAIN log
  BY <1>1, <1>4 DEF NewOperation
<1>5. CASE i \notin DOMAIN log /\ j \notin DOMAIN log
  BY <1>1, <1>5
<1> QED BY <1>2, <1>3, <1>4, <1>5
-----------------------------------------------------------------------------
\* Every non-empty set of numbers has a least member.
LEMMA LeastNumber ==
  ASSUME NEW S, S \subseteq Nat, S # {}
  PROVE  \E x \in S : \A y \in S : ~(y < x)
<1> DEFINE R == OpToRel(<, Nat)
<1>1. IsWellFoundedOn(R, Nat)
  BY NatLessThanWellFounded, Zenon
<1>2. \A x, y \in Nat : y < x => <<y, x>> \in R
  BY DEF OpToRel
<1> HIDE DEF R
<1>3. PICK x \in S : \A y \in S : ~ (<<y, x>> \in R)
    BY <1>1, WFMin
<1>4. \A y \in S : ~(y < x)
  BY <1>2, <1>3
<1> QED BY <1>4

\* Induction, over a set: the library's theorem takes a predicate as a parameter.
LEMMA Induction ==
  ASSUME NEW S, 0 \in S, \A n \in Nat : n \in S => n + 1 \in S
  PROVE  Nat \subseteq S
<1> SUFFICES ASSUME Nat \ S # {} PROVE FALSE
  OBVIOUS
<1>1. PICK x \in Nat \ S : \A y \in Nat \ S : ~(y < x)
  <2> DEFINE T == Nat \ S
  <2>1. T \subseteq Nat /\ T # {}
    OBVIOUS
  <2> HIDE DEF T
  <2>2. \E x \in T : \A y \in T : ~(y < x)
    BY <2>1, LeastNumber
  <2> QED BY <2>2 DEF T
<1>2. x # 0 /\ x \in Nat
  OBVIOUS
<1>3. x - 1 \in Nat /\ x - 1 < x /\ x = (x - 1) + 1
  BY <1>2
<1>4. x - 1 \in S
  BY <1>1, <1>3
<1> QED BY <1>3, <1>4

\* The entry at k, applied to the clauses of n if it is of that namespace.
ReplayStep(log, n, v, k) == IF log[k].ns = n THEN After(log[k], v) ELSE v

\* f is the function that Replay builds, from the empty namespace to entry m.
IsReplayRun(f, log, n, m) == f = [k \in 0..m |-> IF k = 0 THEN {} ELSE ReplayStep(log, n, f[k-1], k)]

\* There is such a function, by induction on its length.
LEMMA RunExists ==
  ASSUME NEW log, NEW n, NEW m \in Nat
  PROVE  \E f : IsReplayRun(f, log, n, m)
<1> DEFINE S == {k \in Nat : \E f : IsReplayRun(f, log, n, k)}
<1>1. 0 \in S
  <2>1. IsReplayRun([k \in 0..0 |-> {}], log, n, 0)
    BY DEF IsReplayRun
  <2> QED BY <2>1
<1>2. ASSUME NEW k \in Nat, k \in S PROVE k + 1 \in S
  <2>1. PICK f : IsReplayRun(f, log, n, k)
    BY <1>2
  <2> DEFINE g == [i \in 0..(k + 1) |-> IF i = k + 1 THEN ReplayStep(log, n, f[k], k + 1) ELSE f[i]]
             h == [i \in 0..(k + 1) |-> IF i = 0 THEN {} ELSE ReplayStep(log, n, g[i-1], i)]
  <2>2. ASSUME NEW i \in 0..(k + 1) PROVE g[i] = h[i]
    <3>1. CASE i = 0
      BY <2>1, <3>1 DEF IsReplayRun
    <3>2. CASE i = k + 1
      <4>1. k \in 0..(k+1) /\ k # k + 1
        OBVIOUS
      <4>2. g[i] = ReplayStep(log, n, f[k], k + 1) /\ g[k] = f[k]
        BY <3>2, <4>1
      <4>3. h[i] = ReplayStep(log, n, g[k], k + 1)
        BY <3>2
      <4> QED BY <4>2, <4>3
    <3>3. CASE i # 0 /\ i # k + 1
      <4>1. i \in 0..k /\ i - 1 \in 0..k /\ i - 1 # k + 1 /\ i - 1 \in 0..(k+1)
        BY <3>3
      <4>2. g[i] = f[i] /\ g[i-1] = f[i-1]
        BY <3>3, <4>1
      <4>3. f[i] = ReplayStep(log, n, f[i-1], i)
        BY <2>1, <4>1, <3>3 DEF IsReplayRun
      <4> QED BY <4>2, <4>3, <3>3
    <3> QED BY <3>1, <3>2, <3>3
  <2>3. g = h
    <3> HIDE DEF g
    <3>1. g = [i \in 0..(k+1) |-> g[i]] BY DEF g
    <3> QED BY <2>2, <3>1
  <2>4. IsReplayRun(g, log, n, k + 1)
    <3> HIDE DEF g
    <3> QED BY <2>3 DEF IsReplayRun
  <2> QED BY <2>4
<1> HIDE DEF S
<1>3. Nat \subseteq S
  BY <1>1, <1>2, Induction
<1> QED BY <1>3 DEF S

\* Replay is the last value of one.
LEMMA ReplayIsRun ==
  ASSUME NEW log, Len(log) \in Nat, NEW n
  PROVE  \E f : IsReplayRun(f, log, n, Len(log)) /\ Replay(log, n) = f[Len(log)]
<1> DEFINE f == CHOOSE g : IsReplayRun(g, log, n, Len(log))
<1>1. IsReplayRun(f, log, n, Len(log))
  <2>1. \E g : IsReplayRun(g, log, n, Len(log))
    BY RunExists
  <2> QED BY <2>1
<1>2. Replay(log, n) = f[Len(log)]
  BY DEF Replay, IsReplayRun, ReplayStep
<1> QED BY <1>1, <1>2

\* Two replays agree as far as their journals do.
LEMMA RunsAgree ==
  ASSUME NEW s, NEW t, NEW n, NEW l \in Nat, NEW m \in Nat, NEW f, NEW g,
         IsReplayRun(f, s, n, l), IsReplayRun(g, t, n, m), l <= m,
         \A i \in 1..l : s[i] = t[i]
  PROVE  f[l] = g[l]
<1> DEFINE S == {k \in Nat : k <= l => f[k] = g[k]}
<1>1. 0 \in S
  BY DEF IsReplayRun
<1>2. ASSUME NEW k \in Nat, k \in S PROVE k + 1 \in S
  <2> SUFFICES ASSUME k + 1 <= l PROVE f[k + 1] = g[k + 1]
    OBVIOUS
  <2>1. k + 1 \in 1..l /\ k + 1 \in 0..l /\ k + 1 \in 0..m /\ k + 1 # 0 /\ (k + 1) - 1 = k
    OBVIOUS
  <2>2. f[k + 1] = ReplayStep(s, n, f[k], k + 1) /\ g[k + 1] = ReplayStep(t, n, g[k], k + 1)
    BY <2>1 DEF IsReplayRun
  <2>3. f[k] = g[k] /\ s[k + 1] = t[k + 1]
    BY <1>2, <2>1
  <2> QED BY <2>2, <2>3 DEF ReplayStep
<1> HIDE DEF S
<1>3. l \in S
  BY <1>1, <1>2, Induction
<1> QED BY <1>3 DEF S

\* An empty journal leaves every namespace absent.
LEMMA ReplayEmpty == \A n : Replay(<<>>, n) = {}
<1> SUFFICES ASSUME NEW n PROVE Replay(<<>>, n) = {}
  OBVIOUS
<1>1. Len(<<>>) = 0
  OBVIOUS
<1>2. PICK f : IsReplayRun(f, <<>>, n, 0) /\ Replay(<<>>, n) = f[0]
  BY <1>1, ReplayIsRun
<1> QED BY <1>2 DEF IsReplayRun

\* An appended entry is applied last, and to its own namespace only.
LEMMA ReplayAppend ==
  ASSUME NEW S, NEW log \in Seq(S), NEW e \in S, NEW n
  PROVE  Replay(Append(log, e), n) =
           IF e.ns = n THEN After(e, Replay(log, n)) ELSE Replay(log, n)
<1> DEFINE longer == Append(log, e)
           m == Len(log)
<1>1. /\ m \in Nat /\ Len(longer) = m + 1 /\ longer[m + 1] = e
      /\ \A i \in 1..m : log[i] = longer[i]
  OBVIOUS
<1> HIDE DEF longer, m
<1>2. PICK f : IsReplayRun(f, log, n, m) /\ Replay(log, n) = f[m]
  BY <1>1, ReplayIsRun DEF m
<1>3. PICK g : IsReplayRun(g, longer, n, m + 1) /\ Replay(longer, n) = g[m + 1]
  BY <1>1, ReplayIsRun
<1>4. g[m] = f[m]
  BY <1>1, <1>2, <1>3, RunsAgree
<1>5. g[m + 1] = ReplayStep(longer, n, g[m], m + 1)
  <2>1. m + 1 \in 0..(m + 1) /\ m + 1 # 0 /\ (m + 1) - 1 = m
    BY <1>1
  <2> QED BY <1>3, <2>1 DEF IsReplayRun
<1> QED BY <1>1, <1>2, <1>3, <1>4, <1>5 DEF ReplayStep, longer

\* A namespace of which no entry has an effect stays absent.
LEMMA ReplayUntouched ==
  ASSUME NEW log, Len(log) \in Nat, NEW n,
         \A i \in 1..Len(log) : log[i].ns = n => log[i].ended = {} /\ log[i].added = {}
  PROVE  Replay(log, n) = {}
<1>1. PICK f : IsReplayRun(f, log, n, Len(log)) /\ Replay(log, n) = f[Len(log)]
  BY ReplayIsRun
<1> DEFINE S == {k \in Nat : k <= Len(log) => f[k] = {}}
<1>2. 0 \in S
  BY <1>1 DEF IsReplayRun
<1>3. ASSUME NEW k \in Nat, k \in S PROVE k + 1 \in S
  <2> SUFFICES ASSUME k + 1 <= Len(log) PROVE f[k + 1] = {}
    OBVIOUS
  <2>1. k + 1 \in 1..Len(log) /\ k + 1 \in 0..Len(log) /\ k + 1 # 0 /\ (k + 1) - 1 = k
    OBVIOUS
  <2>2. f[k + 1] = ReplayStep(log, n, f[k], k + 1)
    BY <1>1, <2>1 DEF IsReplayRun
  <2>3. f[k] = {}
    BY <1>3, <2>1
  <2> QED BY <2>1, <2>2, <2>3 DEF ReplayStep, After
<1> HIDE DEF S
<1>4. Len(log) \in S
  BY <1>2, <1>3, Induction
<1> QED BY <1>1, <1>4 DEF S
\* What is replayed is clauses.
LEMMA ReplayTypes ==
  ASSUME NEW log \in Seq(Entry), NEW n
  PROVE  Replay(log, n) \in SUBSET Clauses
<1>1. Len(log) \in Nat /\ \A i \in 1..Len(log) : log[i] \in Entry
  OBVIOUS
<1>2. PICK f : IsReplayRun(f, log, n, Len(log)) /\ Replay(log, n) = f[Len(log)]
  BY <1>1, ReplayIsRun
<1> DEFINE S == {k \in Nat : k <= Len(log) => f[k] \in SUBSET Clauses}
<1>3. 0 \in S
  BY <1>2 DEF IsReplayRun
<1>4. ASSUME NEW k \in Nat, k \in S PROVE k + 1 \in S
  <2> SUFFICES ASSUME k + 1 <= Len(log) PROVE f[k + 1] \in SUBSET Clauses
    OBVIOUS
  <2>1. k + 1 \in 1..Len(log) /\ k + 1 \in 0..Len(log) /\ k + 1 # 0 /\ (k + 1) - 1 = k
    BY <1>1
  <2>2. f[k + 1] = ReplayStep(log, n, f[k], k + 1)
    BY <1>2, <2>1 DEF IsReplayRun
  <2>3. f[k] \in SUBSET Clauses /\ log[k + 1] \in Entry
    BY <1>1, <1>4, <2>1
  <2>4. After(log[k + 1], f[k]) \in SUBSET Clauses
    BY <2>3 DEF After, Entry
  <2> QED BY <2>2, <2>3, <2>4 DEF ReplayStep
<1> HIDE DEF S
<1>5. Len(log) \in S
  BY <1>1, <1>3, <1>4, Induction
<1> QED BY <1>2, <1>5 DEF S
-----------------------------------------------------------------------------
\* The journal tells how the clauses came to be.
ReplayMatches(kb, log) == \A n \in Namespaces : kb[n] = Replay(log, n)

\* Applying an entry to the clauses and appending it to the journal go together.
LEMMA EntryMatches ==
  ASSUME NEW kb, NEW next, NEW log \in Seq(Entry), NEW e \in Entry,
         ReplayMatches(kb, log),
         \A n \in Namespaces : next[n] = IF e.ns = n THEN After(e, kb[n]) ELSE kb[n]
  PROVE  ReplayMatches(next, Append(log, e))
<1>1. \A n \in Namespaces :
        Replay(Append(log, e), n) =
          IF e.ns = n THEN After(e, Replay(log, n)) ELSE Replay(log, n)
  BY ReplayAppend
<1> QED BY <1>1 DEF ReplayMatches

LEMMA ChangeMatches ==
  ASSUME NEW kb \in Knowledge, NEW log \in Seq(Entry), NEW req \in Requests,
         ReplayMatches(kb, log)
  PROVE  ReplayMatches([kb EXCEPT ![req.ns] = Candidate(req, @)],
                       Append(log, EntryOf(req, kb, log)))
<1> DEFINE e == EntryOf(req, kb, log)
           next == [kb EXCEPT ![req.ns] = Candidate(req, @)]
<1>1. e \in Entry /\ e.ns = req.ns /\ req.ns \in Namespaces
  BY EntryTypes, RequestFields
<1>2. Candidate(req, kb[req.ns]) = After(e, kb[req.ns])
  BY CandidateIsReplayed DEF After, EntryOf
<1> HIDE DEF e
<1>3. \A n \in Namespaces : next[n] = IF e.ns = n THEN After(e, kb[n]) ELSE kb[n]
  BY <1>1, <1>2 DEF Knowledge
<1> HIDE DEF next
<1>4. ReplayMatches(next, Append(log, e))
  BY <1>1, <1>3, EntryMatches
<1> QED BY <1>4 DEF e, next

LEMMA IneffectiveMatches ==
  ASSUME NEW kb, NEW log \in Seq(Entry), NEW e \in Entry, ~Effective(e),
         ReplayMatches(kb, log)
  PROVE  ReplayMatches(kb, Append(log, e))
<1>1. \A n \in Namespaces : After(e, kb[n]) = kb[n]
  BY DEF After, Effective
<1> QED BY <1>1, EntryMatches
-----------------------------------------------------------------------------
EveryCallChecked == \A req \in Requests : req.mode # "none" /\ req.view = Namespaces

\* A candidate that is not rejected has no violation the clauses did not have.
LEMMA AcceptedIsSound ==
  ASSUME EveryCallChecked, NEW kb, NEW req \in Requests,
         Violations(kb, Namespaces) = {},
         ~NoEffect(req, kb[req.ns]), ~Rejected(req, kb)
  PROVE  Violations([kb EXCEPT ![req.ns] = Candidate(req, @)], Namespaces) = {}
<1>1. req.mode # "none" /\ req.view = Namespaces
  BY DEF EveryCallChecked
<1>2. Enforces(req, kb[req.ns])
  BY <1>1 DEF Enforces
<1> QED BY <1>1, <1>2 DEF Rejected

\* Empty namespaces violate nothing: a constraint is one of its own clauses.
LEMMA NothingViolated ==
  ASSUME NEW kb, \A n \in Namespaces : kb[n] = {}
  PROVE  Violations(kb, Namespaces) = {}
<1>1. UNION {kb[n] : n \in Namespaces} = {}
  OBVIOUS
<1>2. \A v \in Forbidden : v # {}
  BY OperationsAssumption
<1>3. \A v \in Forbidden : ~(v \subseteq UNION {kb[n] : n \in Namespaces})
  BY <1>1, <1>2
<1> QED BY <1>3 DEF Violations
=============================================================================
