-------------------------- MODULE AutoCaptureProofs --------------------------
(***************************************************************************)
(* The promises of the Stop hook in AutoCapture, for any number of runs,   *)
(* texts, days and failures, and for every cap.                            *)
(***************************************************************************)
EXTENDS AutoCapture, StoreOperationsProofs, FiniteSetTheorems, TLAPS

Line == Entry \cup CaptureEntry \cup PruneEntry

Started(e) == e.op = "auto_capture" /\ e.status = "started"

LEMMA Lines ==
  /\ \A e \in Entry : e.op \in Ops \cup {"note"}
  /\ \A e \in Entry : e.op # "auto_capture" /\ ~Started(e)
  /\ \A e \in PruneEntry : e.op \notin {"auto_capture", "assert"} /\ ~Started(e)
  /\ \A e \in CaptureEntry : e.op = "auto_capture"
BY DEF Entry, CaptureEntry, PruneEntry, Started, Ops

LEMMA Appended ==
  ASSUME TypeOK, NEW e \in Line, log' = Append(log, e)
  PROVE  /\ log' \in Seq(Line) /\ Len(log') = Len(log) + 1 /\ Len(log) \in Nat
         /\ DOMAIN log = 1..Len(log) /\ DOMAIN log' = 1..(Len(log) + 1)
         /\ \A i \in DOMAIN log : i \in DOMAIN log' /\ log'[i] = log[i]
         /\ log'[Len(log) + 1] = e
<1>1. log \in Seq(Line)
  BY DEF TypeOK, Line
<1> HIDE DEF Line
<1> QED BY <1>1

LEMMA RecordTypes ==
  ASSUME TypeOK, NEW h \in Hooks, NEW status \in Statuses
  PROVE  /\ Record(h, status) \in CaptureEntry
         /\ Record(h, status).op = "auto_capture" /\ Record(h, status).id = h
         /\ Record(h, status).status = status
         /\ Record(h, status).ns = run[h].ns /\ Record(h, status).text = run[h].text
         /\ Record(h, status).day = run[h].day
BY DEF Record, CaptureEntry, TypeOK, Run

\* What a call that appends may do, succeeding or throwing.
LEMMA AppendOrEffect ==
  ASSUME TypeOK, NEW h \in Hooks, NEW e \in Line, NEW next, NEW otherwise,
         AppendOr(h, e, next, otherwise)
  PROVE  /\ log' \in {log, Append(log, e)} /\ log' \in Seq(Line)
         /\ Len(log') <= MaxJournalEntries
         /\ failures' \in 0..MaxFailures
         /\ pc' \in {[pc EXCEPT ![h] = next], [pc EXCEPT ![h] = otherwise]}
         /\ pc' = [pc EXCEPT ![h] = otherwise] \/ log' = Append(log, e)
<1>1. /\ log' = log \/ (log' = Append(log, e) /\ HasRoom)
      /\ failures' = failures \/ (failures < MaxFailures /\ failures' = failures + 1)
      /\ \/ pc' = [pc EXCEPT ![h] = next] /\ log' = Append(log, e)
         \/ pc' = [pc EXCEPT ![h] = otherwise]
  BY DEF AppendOr, AppendFails, Goto
<1>2. log' \in Seq(Line) /\ Len(log') <= MaxJournalEntries
  <2>1. CASE log' = log BY <2>1 DEF TypeOK, Line
  <2>2. CASE log' = Append(log, e) /\ HasRoom
    BY <2>2, Appended, CaptureAssumption DEF HasRoom
  <2> QED BY <1>1, <2>1, <2>2
<1>3. failures' \in 0..MaxFailures
  BY <1>1, CaptureAssumption DEF TypeOK
<1> QED BY <1>1, <1>2, <1>3

LEMMA CaptureCallTypes ==
  ASSUME TypeOK, NEW h \in Hooks
  PROVE  /\ CaptureCall(h) \in Request
         /\ CaptureCall(h).op = "assert" /\ CaptureCall(h).id = h
         /\ CaptureCall(h).ns = run[h].ns /\ Explicit(CaptureCall(h))
<1>1. /\ h \in OperationIds /\ h # Implicit
      /\ run[h].ns \in Namespaces /\ run[h].found \in SUBSET Clauses
  BY CaptureAssumption, OperationsAssumption DEF TypeOK, Run
<1>2. CaptureCall(h).params \in Parameters
  BY <1>1 DEF CaptureCall, Parameters, Knowledge
<1> QED BY <1>1, <1>2 DEF CaptureCall, Request, Ops, Explicit

\* A mutation appends its own entry.
LEMMA CommitEffect ==
  ASSUME TypeOK, NEW req \in Request, Commit(req)
  PROVE  /\ log' = Append(log, EntryOf(req, kb, log)) /\ EntryOf(req, kb, log) \in Entry
         /\ EntryOf(req, kb, log).op = req.op
         /\ EntryOf(req, kb, log).id = IF Explicit(req) THEN req.id ELSE Len(log) + 1
         /\ log' \in Seq(Line) /\ Len(log') <= MaxJournalEntries
         /\ kb' \in Knowledge /\ ~prune.active
<1>1. /\ log' = Append(log, EntryOf(req, kb, log)) /\ HasRoom /\ ~prune.active
      /\ kb' = [kb EXCEPT ![req.ns] = Candidate(req, kb[req.ns])] \/ kb' = kb
  BY DEF Commit, Idle
<1>2. Len(log) \in Nat /\ kb \in Knowledge
  BY DEF TypeOK
<1>3. /\ EntryOf(req, kb, log) \in Entry /\ EntryOf(req, kb, log).op = req.op
      /\ EntryOf(req, kb, log).id = IF Explicit(req) THEN req.id ELSE Len(log) + 1
  BY <1>2, EntryOfAny
<1>4. log' \in Seq(Line) /\ Len(log') = Len(log) + 1
  <2>1. EntryOf(req, kb, log) \in Line
    BY <1>3 DEF Line
  <2> QED BY <1>1, <2>1, Appended
<1>5. kb' \in Knowledge
  <2>1. req.ns \in Namespaces
    BY DEF Request
  <2>2. Candidate(req, kb[req.ns]) \in SUBSET Clauses
    BY <1>2, <2>1, EffectsOfAny DEF Knowledge
  <2> QED BY <1>1, <1>2, <2>1, <2>2 DEF Knowledge
<1> QED BY <1>1, <1>2, <1>3, <1>4, <1>5, CaptureAssumption DEF HasRoom
-----------------------------------------------------------------------------
LEMMA NotPruningTypes == NotPruning \in Prune
<1>1. (CHOOSE n \in Namespaces : TRUE) \in Namespaces
  BY CaptureAssumption
<1> QED BY <1>1 DEF NotPruning, Prune

LEMMA InitTypes == Init => TypeOK
<1> SUFFICES ASSUME Init PROVE TypeOK
  OBVIOUS
<1>1. (CHOOSE n \in Namespaces : TRUE) \in Namespaces /\ (CHOOSE d \in Days : TRUE) \in Days
  BY CaptureAssumption
<1>2. run \in [Hooks -> Run]
  BY <1>1 DEF Init, Run
<1>3. kb \in Knowledge /\ log = <<>> /\ pc \in [Hooks -> {"idle"}]
  BY DEF Init, Knowledge
<1>4. failures \in 0..MaxFailures /\ prunes \in 0..MaxPrunes /\ MaxJournalEntries \in Nat
  BY CaptureAssumption DEF Init
<1>5. prune \in Prune /\ errors = {} /\ torn = FALSE /\ asked = {} /\ unheard = {}
  BY NotPruningTypes DEF Init
<1>6. log \in Seq(Line) /\ Len(log) <= MaxJournalEntries
  BY <1>3, <1>4
<1> QED BY <1>2, <1>3, <1>4, <1>5, <1>6 DEF TypeOK, Line

LEMMA HookTypes == ASSUME TypeOK, NEW h \in Hooks, Hook(h) PROVE TypeOK'
<1> DEFINE Steps == {"idle", "skip", "reserve", "model", "store", "finish", "fail",
                     "emergency", "emergency_first", "done", "dead"}
<1>0. \A status \in Statuses : Record(h, status) \in Line
  BY RecordTypes DEF Line
<1>1. ASSUME NEW stop \in Stops, Begin(h, stop) PROVE TypeOK'
  BY <1>1, CaptureAssumption
  DEF Begin, Goto, TypeOK, Run, store, fallback, curator
<1>2. ASSUME NEW e \in Line, NEW next \in Steps, NEW otherwise \in Steps,
             AppendOr(h, e, next, otherwise),
             UNCHANGED <<kb, fallback, run, asked, curator>>
      PROVE  TypeOK'
  <2>1. /\ log' \in Seq(Line) /\ Len(log') <= MaxJournalEntries
        /\ failures' \in 0..MaxFailures
        /\ pc' \in {[pc EXCEPT ![h] = next], [pc EXCEPT ![h] = otherwise]}
    BY <1>2, AppendOrEffect
  <2> QED BY <1>2, <2>1 DEF TypeOK, Line, fallback, curator
<1>3. CASE Skip(h)
  BY <1>0, <1>2, <1>3 DEF Skip, Statuses
<1>4. CASE Reserve(h)
  BY <1>0, <1>2, <1>4 DEF Reserve, Statuses
<1>5. CASE Extract(h)
  <2>1. run' \in [Hooks -> Run]
    <3>1. ASSUME NEW found \in SUBSET Facts, run' = [run EXCEPT ![h].found = found]
          PROVE  run' \in [Hooks -> Run]
      <4>1. run[h] = [ns |-> run[h].ns, text |-> run[h].text, day |-> run[h].day,
                      found |-> run[h].found]
            /\ run[h] \in Run /\ run \in [Hooks -> Run]
        BY DEF TypeOK, Run
      <4>2. [run[h] EXCEPT !.found = found] \in Run
        BY <4>1 DEF Run
      <4> QED BY <3>1, <4>1, <4>2
    <3> QED BY <1>5, <3>1 DEF Extract, TypeOK
  <2>2. pc' \in [Hooks -> Steps]
    BY <1>5 DEF Extract, Goto, TypeOK
  <2> QED BY <1>5, <2>1, <2>2 DEF Extract, TypeOK, store, fallback, curator
<1>6. CASE Store(h)
  <2>1. CASE Commit(CaptureCall(h)) /\ Goto(h, "finish") /\ UNCHANGED failures
    <3>1. log' \in Seq(Line) /\ Len(log') <= MaxJournalEntries /\ kb' \in Knowledge
      BY <2>1, CommitEffect, CaptureCallTypes
    <3> QED BY <1>6, <2>1, <3>1 DEF Store, Goto, TypeOK, Line, fallback, curator
  <2>2. CASE ~(Commit(CaptureCall(h)) /\ Goto(h, "finish") /\ UNCHANGED failures)
    BY <1>6, <2>2, CaptureAssumption DEF Store, Goto, TypeOK, store, fallback, curator
  <2> QED BY <2>1, <2>2
<1>7. CASE Finish(h)
  BY <1>0, <1>2, <1>7 DEF Finish, Statuses
<1>8. CASE Fail(h)
  BY <1>0, <1>2, <1>8 DEF Fail, Statuses
<1>9. CASE Emergency(h)
  <2>1. pc' \in [Hooks -> Steps]
    BY <1>9 DEF Emergency, Goto, TypeOK
  <2>2. /\ errors' \in SUBSET Hooks /\ unheard' \in SUBSET Hooks
        /\ torn' = torn \/ torn' = TRUE
    BY <1>9 DEF Emergency, TypeOK
  <2>3. failures' \in 0..MaxFailures
    <3>1. failures' = failures \/ (failures < MaxFailures /\ failures' = failures + 1)
      BY <1>9 DEF Emergency
    <3> QED BY <3>1, CaptureAssumption DEF TypeOK
  <2> QED BY <1>9, <2>1, <2>2, <2>3 DEF Emergency, TypeOK, store, curator
<1>10. CASE KilledAppending(h)
  BY <1>10 DEF KilledAppending, Goto, TypeOK, store, curator
<1> QED BY <1>1, <1>3, <1>4, <1>5, <1>6, <1>7, <1>8, <1>9, <1>10 DEF Hook

LEMMA PruneTypes ==
  ASSUME TypeOK,
         \/ \E selected \in SUBSET Listed : BeginPrune(selected)
         \/ \E f \in prune.remaining : Retract(f)
         \/ NotePruned \/ PruneInterrupted
  PROVE  TypeOK'
<1>0. /\ prune = [active |-> prune.active, id |-> prune.id, remaining |-> prune.remaining,
                  ns |-> prune.ns, removed |-> prune.removed]
      /\ prune.id \in Nat /\ prune.removed \in Nat /\ prune.ns \in Namespaces
      /\ prune.remaining \in SUBSET CapturedFact /\ Len(log) \in Nat
  BY DEF TypeOK, Prune
<1>1. ASSUME NEW selected \in SUBSET Listed, BeginPrune(selected) PROVE TypeOK'
  <2>1. selected \in SUBSET CapturedFact
    BY DEF Listed
  <2>2. prune' \in Prune /\ prunes' \in 0..MaxPrunes
    BY <1>0, <1>1, <2>1, CaptureAssumption DEF BeginPrune, Prune, CapturedFact, TypeOK
  <2> QED BY <1>1, <2>2 DEF BeginPrune, TypeOK, store, fallback, capture
<1>2. ASSUME NEW op \in {"retract", "auto_capture_pruned"}, NEW ended \in SUBSET Clauses
      PROVE  PruneRecord(op, ended) \in Line
  BY <1>0 DEF PruneRecord, PruneEntry, Line
<1>3. ASSUME NEW f \in prune.remaining, Retract(f) PROVE TypeOK'
  <2>1. f.clause \in Clauses /\ f.ns \in Namespaces
    BY <1>0, CaptureAssumption DEF CapturedFact
  <2>2. prune' \in Prune
    <3>1. \/ prune' = [prune EXCEPT !.remaining = prune.remaining \ {f},
                                    !.removed = prune.removed + 1]
          \/ prune' = [prune EXCEPT !.remaining = prune.remaining \ {f}]
      BY <1>3 DEF Retract
    <3>2. prune' = [active |-> prune.active, id |-> prune.id,
                    remaining |-> prune'.remaining, ns |-> prune.ns, removed |-> prune'.removed]
          /\ prune'.remaining = prune.remaining \ {f}
          /\ prune'.removed \in {prune.removed, prune.removed + 1}
      BY <1>0, <3>1
    <3>3. prune.active \in BOOLEAN /\ prune'.removed \in Nat
      BY <1>0, <3>2 DEF TypeOK, Prune
    <3> QED BY <1>0, <3>2, <3>3 DEF Prune
  <2>3. kb' \in Knowledge
    <3>1. kb' = kb \/ kb' = [kb EXCEPT ![f.ns] = kb[f.ns] \ {f.clause}]
      BY <1>3 DEF Retract, store
    <3> QED BY <2>1, <3>1 DEF TypeOK, Knowledge
  <2>4. log' \in Seq(Line) /\ Len(log') <= MaxJournalEntries
    <3>1. CASE log' = log
      BY <3>1 DEF TypeOK, Line
    <3>2. CASE log' # log
      <4> DEFINE line == PruneRecord("retract", {f.clause})
      <4>1. log' = Append(log, line) /\ HasRoom
        BY <1>3, <3>2 DEF Retract, store
      <4>2. line \in Line
        BY <1>2, <2>1
      <4> HIDE DEF line
      <4> QED BY <4>1, <4>2, Appended, CaptureAssumption DEF HasRoom
    <3> QED BY <3>1, <3>2
  <2> QED BY <1>3, <2>2, <2>3, <2>4 DEF Retract, TypeOK, Line, fallback, capture
<1>4. CASE NotePruned
  <2>1. log' = Append(log, PruneRecord("auto_capture_pruned", {})) /\ HasRoom
    BY <1>4 DEF NotePruned
  <2>2. PruneRecord("auto_capture_pruned", {}) \in Line
    BY <1>2
  <2>3. log' \in Seq(Line) /\ Len(log') <= MaxJournalEntries
    BY <2>1, <2>2, Appended, CaptureAssumption DEF HasRoom
  <2>4. prune' \in Prune
    <3>1. CASE prune' = NotPruning
      BY <3>1, NotPruningTypes
    <3>2. ASSUME NEW f \in prune.remaining, prune' = [prune EXCEPT !.ns = f.ns, !.removed = 0]
          PROVE  prune' \in Prune
      BY <1>0, <3>2 DEF Prune, CapturedFact, TypeOK
    <3> QED BY <1>4, <3>1, <3>2 DEF NotePruned
  <2> QED BY <1>4, <2>3, <2>4 DEF NotePruned, TypeOK, Line, fallback, capture
<1>5. CASE PruneInterrupted
  BY <1>5, CaptureAssumption
  DEF PruneInterrupted, TypeOK, NotPruning, Prune, store, fallback, capture
<1> QED BY <1>1, <1>3, <1>4, <1>5

LEMMA StepTypes == TypeOK /\ [Next]_vars => TypeOK'
<1> SUFFICES ASSUME TypeOK, [Next]_vars PROVE TypeOK'
  OBVIOUS
<1>1. ASSUME NEW req \in Requests, Mutate(req) PROVE TypeOK'
  <2>1. log' \in Seq(Line) /\ Len(log') <= MaxJournalEntries /\ kb' \in Knowledge
    BY <1>1, CommitEffect, RequestFields DEF Mutate
  <2> QED BY <1>1, <2>1 DEF Mutate, TypeOK, Line, fallback, capture, curator
<1>2. CASE UNCHANGED vars
  BY <1>2 DEF vars, TypeOK, store, fallback, capture, curator
<1> QED BY <1>1, <1>2, HookTypes, PruneTypes DEF Next

\* The journal, the runs and the prune always have their types, and the journal
\* stays within its limit.
THEOREM CaptureTypes == Spec => []TypeOK
BY InitTypes, StepTypes, PTL DEF Spec
-----------------------------------------------------------------------------
(* Reservations.                                                             *)

OneReservation ==
  \A i, j \in DOMAIN log :
    Started(log[i]) /\ Started(log[j]) /\ log[i].ns = log[j].ns /\ log[i].text = log[j].text
      => i = j

Positions(n, d) == {i \in DOMAIN log : Started(log[i]) /\ log[i].ns = n /\ log[i].day = d}

WithinCap == \A n \in Namespaces, d \in Days : Cardinality(Positions(n, d)) <= DailyCap

Reserved(h) ==
  \E i \in DOMAIN log :
    /\ Started(log[i]) /\ log[i].id = h
    /\ log[i].ns = run[h].ns /\ log[i].text = run[h].text /\ log[i].day = run[h].day

\* A run asks the model after its reservation, of which it keeps the terms.
Held == \A h \in Hooks : h \in asked \/ pc[h] = "model" => Reserved(h) /\ pc[h] # "idle"

Reserving == TypeOK /\ OneReservation /\ WithinCap /\ Held

\* A line is appended by a reservation that was granted, or reserves nothing.
LEMMA JournalGrows ==
  ASSUME TypeOK, [Next]_vars
  PROVE  \/ log' = log
         \/ \E e \in Line :
              /\ log' = Append(log, e)
              /\ \/ ~Started(e)
                 \/ \E h \in Hooks :
                      e = Record(h, "started") /\ ~Duplicate(h) /\ ~CapReached(h)
<1> DEFINE Grows == \/ log' = log
                    \/ \E e \in Line :
                         /\ log' = Append(log, e)
                         /\ \/ ~Started(e)
                            \/ \E h \in Hooks :
                                 e = Record(h, "started") /\ ~Duplicate(h) /\ ~CapReached(h)
<1>1. ASSUME NEW h \in Hooks, NEW status \in Statuses \ {"started"}, NEW next, NEW otherwise,
             AppendOr(h, Record(h, status), next, otherwise)
      PROVE  Grows
  <2>1. Record(h, status) \in Line /\ ~Started(Record(h, status))
    BY RecordTypes DEF Line, Started
  <2> QED BY <1>1, <2>1, AppendOrEffect
<1>2. ASSUME NEW h \in Hooks, Hook(h) PROVE Grows
  <2>1. CASE Skip(h) BY <1>1, <2>1 DEF Skip, Statuses
  <2>2. CASE Finish(h) BY <1>1, <2>2 DEF Finish, Statuses
  <2>3. CASE Fail(h) BY <1>1, <2>3 DEF Fail, Statuses
  <2>4. CASE Reserve(h)
    <3>1. CASE Duplicate(h) \/ CapReached(h)
      BY <1>1, <2>4, <3>1 DEF Reserve, Statuses
    <3>2. CASE ~(Duplicate(h) \/ CapReached(h))
      <4>1. Record(h, "started") \in Line
        BY RecordTypes DEF Line, Statuses
      <4>2. log' = log \/ log' = Append(log, Record(h, "started"))
        BY <2>4, <3>2, <4>1, AppendOrEffect DEF Reserve
      <4> QED BY <3>2, <4>1, <4>2
    <3> QED BY <3>1, <3>2
  <2>5. CASE Store(h)
    <3>1. CASE log' = log BY <3>1
    <3>2. CASE Commit(CaptureCall(h))
      <4>1. /\ log' = Append(log, EntryOf(CaptureCall(h), kb, log))
            /\ EntryOf(CaptureCall(h), kb, log) \in Entry
        BY <3>2, CommitEffect, CaptureCallTypes
      <4> QED BY <4>1, Lines DEF Line
    <3> QED BY <2>5, <3>1, <3>2 DEF Store, store
  <2>6. CASE log' = log BY <2>6
  <2> QED BY <1>2, <2>1, <2>2, <2>3, <2>4, <2>5, <2>6
          DEF Hook, Begin, Extract, Emergency, KilledAppending, store
<1>3. ASSUME NEW req \in Requests, Mutate(req) PROVE Grows
  <2>1. /\ log' = Append(log, EntryOf(req, kb, log)) /\ EntryOf(req, kb, log) \in Entry
    BY <1>3, CommitEffect, RequestFields DEF Mutate
  <2> QED BY <2>1, Lines DEF Line
<1>4. ASSUME NEW op \in {"retract", "auto_capture_pruned"}, NEW ended \in SUBSET Clauses
      PROVE  PruneRecord(op, ended) \in Line /\ ~Started(PruneRecord(op, ended))
  BY DEF PruneRecord, PruneEntry, Line, Started, TypeOK, Prune
<1>5. ASSUME NEW f \in prune.remaining, Retract(f) PROVE Grows
  <2>1. f.clause \in Clauses
    BY CaptureAssumption DEF TypeOK, Prune, CapturedFact
  <2>2. log' = log \/ log' = Append(log, PruneRecord("retract", {f.clause}))
    BY <1>5 DEF Retract, store
  <2> QED BY <1>4, <2>1, <2>2
<1>6. CASE NotePruned
  BY <1>4, <1>6 DEF NotePruned
<1>7. CASE PruneInterrupted \/ UNCHANGED vars \/ \E selected \in SUBSET Listed : BeginPrune(selected)
  BY <1>7 DEF PruneInterrupted, BeginPrune, vars, store
<1> QED BY <1>2, <1>3, <1>5, <1>6, <1>7 DEF Next

LEMMA ReservationsUnique ==
  ASSUME TypeOK, OneReservation, WithinCap, [Next]_vars
  PROVE  OneReservation' /\ WithinCap'
<1>1. CASE log' = log
  BY <1>1 DEF OneReservation, WithinCap, Positions
<1>2. ASSUME NEW e \in Line, log' = Append(log, e), ~Started(e)
      PROVE  OneReservation' /\ WithinCap'
  <2>1. /\ DOMAIN log = 1..Len(log) /\ DOMAIN log' = 1..(Len(log) + 1) /\ Len(log) \in Nat
        /\ \A i \in DOMAIN log : i \in DOMAIN log' /\ log'[i] = log[i]
        /\ log'[Len(log) + 1] = e
    BY <1>2, Appended
  <2>2. \A i \in DOMAIN log' : Started(log'[i]) => i \in DOMAIN log
    BY <1>2, <2>1
  <2>3. OneReservation'
    BY <2>1, <2>2 DEF OneReservation, Started
  <2>4. \A n, d : Positions(n, d)' = Positions(n, d)
    BY <2>1, <2>2 DEF Positions, Started
  <2> QED BY <2>3, <2>4 DEF WithinCap
<1>3. ASSUME NEW h \in Hooks, log' = Append(log, Record(h, "started")),
             ~Duplicate(h), ~CapReached(h)
      PROVE  OneReservation' /\ WithinCap'
  <2> DEFINE e == Record(h, "started")
             last == Len(log) + 1
  <2>0. e \in Line /\ Started(e) /\ e.ns = run[h].ns /\ e.text = run[h].text /\ e.day = run[h].day
    BY RecordTypes DEF Line, Started, Statuses
  <2>1. log' = Append(log, e)
    BY <1>3
  <2> HIDE DEF e
  <2>2. /\ DOMAIN log = 1..Len(log) /\ DOMAIN log' = 1..last /\ Len(log) \in Nat
        /\ \A i \in DOMAIN log : i \in DOMAIN log' /\ log'[i] = log[i]
        /\ log'[last] = e
    BY <2>0, <2>1, Appended
  <2>3. \A i \in DOMAIN log : ~(Started(log[i]) /\ log[i].ns = e.ns /\ log[i].text = e.text)
    BY <1>3, <2>0 DEF Duplicate, Reservations, Started
  <2>4. OneReservation'
    BY <2>2, <2>3 DEF OneReservation, Started
  <2>5. ASSUME NEW n \in Namespaces, NEW d \in Days
        PROVE  Cardinality(Positions(n, d)') <= DailyCap
    <3>1. IsFiniteSet(DOMAIN log)
      BY <2>2, FS_Interval
    <3>2. IsFiniteSet(Positions(n, d)) /\ Cardinality(Positions(n, d)) \in Nat
      <4>1. Positions(n, d) \in SUBSET DOMAIN log
        BY DEF Positions
      <4> QED BY <3>1, <4>1, FS_Subset, FS_CardinalityType
    <3>3. CASE ~(n = e.ns /\ d = e.day)
      <4>1. Positions(n, d)' = Positions(n, d)
        BY <2>2, <3>3 DEF Positions, Started
      <4> QED BY <4>1 DEF WithinCap
    <3>4. CASE n = e.ns /\ d = e.day
      <4>1. Positions(n, d)' = Positions(n, d) \cup {last}
        BY <2>0, <2>2, <3>4 DEF Positions, Started
      <4>2. Cardinality(Positions(n, d) \cup {last}) \in
              {Cardinality(Positions(n, d)), Cardinality(Positions(n, d)) + 1}
        <5> DEFINE before == Positions(n, d)
        <5>1. IsFiniteSet(before)
          BY <3>2
        <5> HIDE DEF before, last
        <5>2. Cardinality(before \cup {last}) =
                IF last \in before THEN Cardinality(before) ELSE Cardinality(before) + 1
          BY <5>1, FS_AddElement
        <5> QED BY <5>2 DEF before
      <4>3. Positions(n, d) = {i \in DOMAIN log :
                                 log[i] \in Reservations(run[h].ns) /\ log[i].day = run[h].day}
        BY <2>0, <3>4 DEF Positions, Reservations, Started
      <4>4. ~(Cardinality(Positions(n, d)) >= DailyCap)
        BY <1>3, <4>3 DEF CapReached
      <4> QED BY <3>2, <4>1, <4>2, <4>4, CaptureAssumption
    <3> QED BY <3>3, <3>4
  <2> QED BY <2>4, <2>5 DEF WithinCap
<1> QED BY <1>1, <1>2, <1>3, JournalGrows

\* What a run's step leaves, and how it comes to ask the model.
LEMMA HookSteps ==
  ASSUME TypeOK, NEW h \in Hooks, Hook(h)
  PROVE  /\ \A g \in Hooks \ {h} : pc'[g] = pc[g] /\ run'[g] = run[g]
         /\ asked' = asked \/ (pc[h] = "model" /\ asked' = asked \cup {h})
         /\ pc'[h] # "idle"
         /\ pc[h] # "idle" => /\ run'[h].ns = run[h].ns /\ run'[h].text = run[h].text
                              /\ run'[h].day = run[h].day
         /\ pc'[h] = "model" => run' = run /\ log' = Append(log, Record(h, "started"))
<1> DEFINE Moves == /\ \A g \in Hooks \ {h} : pc'[g] = pc[g] /\ run'[g] = run[g]
                    /\ asked' = asked \/ (pc[h] = "model" /\ asked' = asked \cup {h})
                    /\ pc'[h] # "idle"
                    /\ pc[h] # "idle" => /\ run'[h].ns = run[h].ns
                                         /\ run'[h].text = run[h].text
                                         /\ run'[h].day = run[h].day
                    /\ pc'[h] = "model" => run' = run /\ log' = Append(log, Record(h, "started"))
<1>0. h \in DOMAIN pc /\ h \in DOMAIN run /\ DOMAIN run = Hooks /\ DOMAIN pc = Hooks
      /\ DOMAIN run[h] = {"ns", "text", "day", "found"}
  BY DEF TypeOK, Run
<1>1. ASSUME NEW stop \in Stops, Begin(h, stop) PROVE Moves
  BY <1>0, <1>1 DEF Begin, Goto
<1>2. ASSUME NEW e \in Line, NEW next, NEW otherwise \in {"emergency", "emergency_first"},
             AppendOr(h, e, next, otherwise), next # "idle", UNCHANGED <<run, asked>>,
             next = "model" => e = Record(h, "started")
      PROVE  Moves
  <2>1. /\ pc' \in {[pc EXCEPT ![h] = next], [pc EXCEPT ![h] = otherwise]}
        /\ pc' = [pc EXCEPT ![h] = otherwise] \/ log' = Append(log, e)
    BY <1>2, AppendOrEffect
  <2> QED BY <1>0, <1>2, <2>1
<1>3. \A status \in Statuses : Record(h, status) \in Line
  BY RecordTypes DEF Line
<1>4. CASE Skip(h) \/ Finish(h) \/ Fail(h) \/ Reserve(h)
  BY <1>2, <1>3, <1>4 DEF Skip, Finish, Fail, Reserve, Statuses
<1>5. CASE Extract(h)
  BY <1>0, <1>5 DEF Extract, Goto
<1>6. CASE Store(h) \/ Emergency(h) \/ KilledAppending(h)
  BY <1>0, <1>6 DEF Store, Emergency, KilledAppending, Goto
<1> QED BY <1>1, <1>4, <1>5, <1>6 DEF Hook

LEMMA OthersSteps ==
  ASSUME [Next]_vars, ~\E h \in Hooks : Hook(h)
  PROVE  UNCHANGED <<pc, run, asked, errors, unheard>>
BY DEF Next, vars, Mutate, BeginPrune, Retract, NotePruned, PruneInterrupted, capture, fallback

LEMMA Reserves == Reserving /\ [Next]_vars => Reserving'
<1> SUFFICES ASSUME Reserving, [Next]_vars PROVE Reserving'
  OBVIOUS
<1>1. TypeOK /\ OneReservation /\ WithinCap /\ Held
  BY DEF Reserving
<1>2. \A i \in DOMAIN log : i \in DOMAIN log' /\ log'[i] = log[i]
  <2>1. \A e \in Line : log' = Append(log, e) =>
          \A i \in DOMAIN log : i \in DOMAIN log' /\ log'[i] = log[i]
    BY <1>1, Appended
  <2> QED BY <1>1, <2>1, JournalGrows
<1>3. Held'
  <2>1. CASE ~\E h \in Hooks : Hook(h)
    BY <1>1, <1>2, <2>1, OthersSteps DEF Held, Reserved, Started
  <2>2. ASSUME NEW h \in Hooks, Hook(h) PROVE Held'
    <3>1. /\ \A g \in Hooks \ {h} : pc'[g] = pc[g] /\ run'[g] = run[g]
          /\ asked' = asked \/ (pc[h] = "model" /\ asked' = asked \cup {h})
          /\ pc'[h] # "idle"
          /\ pc[h] # "idle" => /\ run'[h].ns = run[h].ns /\ run'[h].text = run[h].text
                               /\ run'[h].day = run[h].day
          /\ pc'[h] = "model" => run' = run /\ log' = Append(log, Record(h, "started"))
      BY <1>1, <2>2, HookSteps
    <3>2. \A g \in Hooks : Reserved(g) /\ pc[g] # "idle" => Reserved(g)'
      BY <1>2, <3>1 DEF Reserved, Started
    <3>3. pc'[h] = "model" => Reserved(h)'
      <4> SUFFICES ASSUME pc'[h] = "model" PROVE Reserved(h)'
        OBVIOUS
      <4>1. Record(h, "started") \in Line /\ Started(Record(h, "started"))
            /\ Record(h, "started").id = h /\ Record(h, "started").ns = run[h].ns
            /\ Record(h, "started").text = run[h].text /\ Record(h, "started").day = run[h].day
        BY <1>1, RecordTypes DEF Line, Started, Statuses
      <4>2. Len(log) + 1 \in DOMAIN log' /\ log'[Len(log) + 1] = Record(h, "started")
        BY <1>1, <3>1, <4>1, Appended
      <4> QED BY <3>1, <4>1, <4>2 DEF Reserved, Started
    <3> QED BY <1>1, <3>1, <3>2, <3>3 DEF Held
  <2> QED BY <2>1, <2>2
<1> QED BY <1>1, <1>3, ReservationsUnique, StepTypes DEF Reserving

LEMMA SpecReserving == Spec => []Reserving
<1>1. Init => Reserving
  <2> SUFFICES ASSUME Init PROVE Reserving
    OBVIOUS
  <2>1. log = <<>> /\ asked = {} /\ \A h \in Hooks : pc[h] = "idle"
    BY DEF Init
  <2>2. \A n, d : Positions(n, d) = {}
    BY <2>1 DEF Positions
  <2>3. WithinCap
    <3>1. Cardinality({}) = 0 /\ 0 <= DailyCap
      BY FS_EmptySet, CaptureAssumption
    <3> QED BY <2>2, <3>1 DEF WithinCap
  <2> QED BY <2>1, <2>3, InitTypes DEF Reserving, OneReservation, Held
<1> QED BY <1>1, Reserves, PTL DEF Spec

\* reserveAutoCapture: however many Stop events arrive with a text, and whichever of
\* them are killed, the model is asked about it once.
THEOREM TextsAskedOnce == Spec => []OneModelCallPerText
<1>1. Reserving => OneModelCallPerText
  BY DEF Reserving, Held, Reserved, OneReservation, OneModelCallPerText, TypeOK
<1> QED BY <1>1, SpecReserving, PTL

\* No run asks the model before its reservation is in the journal.
THEOREM AskedAfterReserving == Spec => []AskedReserved
<1>1. Reserving => AskedReserved
  BY DEF Reserving, Held, Reserved, Started, AskedReserved, Recorded, TypeOK
<1> QED BY <1>1, SpecReserving, PTL

\* dailyCap bounds the model calls of a namespace and day, for every cap.
THEOREM CapAlwaysHonoured == Spec => []CapHonoured
<1>1. Reserving => CapHonoured
  <2> SUFFICES ASSUME Reserving, NEW n \in Namespaces, NEW d \in Days
               PROVE  Cardinality({h \in asked : run[h].ns = n /\ run[h].day = d}) <= DailyCap
    BY DEF CapHonoured
  <2> DEFINE askers == {h \in asked : run[h].ns = n /\ run[h].day = d}
             position(h) == CHOOSE i \in DOMAIN log :
                              /\ Started(log[i]) /\ log[i].id = h
                              /\ log[i].ns = run[h].ns /\ log[i].text = run[h].text
                              /\ log[i].day = run[h].day
             f == [h \in askers |-> position(h)]
  <2>1. \A h \in askers : position(h) \in Positions(n, d) /\ log[position(h)].id = h
    BY DEF Reserving, Held, Reserved, Positions, TypeOK
  <2>2. f \in Injection(askers, Positions(n, d))
    <3> HIDE DEF position
    <3> QED BY <2>1 DEF Injection, IsInjective
  <2>3. IsFiniteSet(Positions(n, d)) /\ Cardinality(Positions(n, d)) \in Nat
    <3>1. Positions(n, d) \in SUBSET (1..Len(log)) /\ Len(log) \in Nat
      BY DEF Positions, Reserving, TypeOK
    <3>2. IsFiniteSet(1..Len(log))
      BY <3>1, FS_Interval
    <3>3. IsFiniteSet(Positions(n, d))
      BY <3>1, <3>2, FS_Subset
    <3> QED BY <3>3, FS_CardinalityType
  <2> HIDE DEF f, askers
  <2>4. Cardinality(askers) <= Cardinality(Positions(n, d)) /\ IsFiniteSet(askers)
    BY <2>2, <2>3, FS_Injection
  <2>5. Cardinality(Positions(n, d)) <= DailyCap
    BY DEF Reserving, WithinCap
  <2>6. Cardinality(askers) \in Nat
    BY <2>4, FS_CardinalityType
  <2> QED BY <2>3, <2>4, <2>5, <2>6, CaptureAssumption DEF askers
<1> QED BY <1>1, SpecReserving, PTL
-----------------------------------------------------------------------------
(* Outcomes.                                                                 *)

Over(h) == pc[h] \in {"emergency", "emergency_first", "fail", "done", "dead"}

\* Where a run stands when its facts are in the journal, and what it records next.
Truthful ==
  \A h \in Hooks :
    /\ pc[h] = "store" => run[h].found # {}
    /\ Asserted(h) => run[h].found # {} /\ (pc[h] = "finish" \/ Over(h))
    /\ pc[h] = "finish" /\ run[h].found # {} => Asserted(h)
    /\ Recorded(h, {"captured"}) => Asserted(h)
    /\ Recorded(h, {"empty", "skipped"}) => ~Asserted(h) /\ Over(h)

Outcomes == TypeOK /\ OutcomeRecorded /\ Truthful

\* What the lines of a run say, and where it stands when it writes them.
LEMMA HookWrites ==
  ASSUME TypeOK, [Next]_vars
  PROVE  \/ log' = log
         \/ \E e \in Line :
              /\ log' = Append(log, e)
              /\ \A h \in Hooks :
                   /\ e.op = "assert" /\ e.id = h =>
                        /\ pc[h] = "store" /\ pc'[h] = "finish" /\ UNCHANGED run
                   /\ e.op = "auto_capture" /\ e.id = h =>
                        /\ UNCHANGED run
                        /\ e.status = "captured" => pc[h] = "finish" /\ run[h].found # {}
                        /\ e.status = "empty" => pc[h] = "finish" /\ run[h].found = {}
                        /\ e.status = "skipped" => pc[h] \in {"skip", "reserve"}
                        /\ e.status \in {"empty", "skipped"} => Over(h)'
<1> DEFINE Says(e) ==
      \A h \in Hooks :
        /\ e.op = "assert" /\ e.id = h =>
             /\ pc[h] = "store" /\ pc'[h] = "finish" /\ UNCHANGED run
        /\ e.op = "auto_capture" /\ e.id = h =>
             /\ UNCHANGED run
             /\ e.status = "captured" => pc[h] = "finish" /\ run[h].found # {}
             /\ e.status = "empty" => pc[h] = "finish" /\ run[h].found = {}
             /\ e.status = "skipped" => pc[h] \in {"skip", "reserve"}
             /\ e.status \in {"empty", "skipped"} => Over(h)'
    Writes == log' = log \/ \E e \in Line : log' = Append(log, e) /\ Says(e)
<1>0. \A h \in Hooks : h \in DOMAIN pc
  BY DEF TypeOK
<1>1. ASSUME NEW h \in Hooks, NEW status \in Statuses, NEW next, NEW otherwise,
             AppendOr(h, Record(h, status), next, otherwise), UNCHANGED run,
             otherwise \in {"emergency", "emergency_first"},
             next \in {"done", "model"}, status \in {"empty", "skipped"} => next = "done",
             status = "captured" => pc[h] = "finish" /\ run[h].found # {},
             status = "empty" => pc[h] = "finish" /\ run[h].found = {},
             status = "skipped" => pc[h] \in {"skip", "reserve"}
      PROVE  Writes
  <2> DEFINE e == Record(h, status)
  <2>1. e \in Line /\ e.op = "auto_capture" /\ e.id = h /\ e.status = status
    BY RecordTypes DEF Line
  <2> HIDE DEF e
  <2>2. /\ log' \in {log, Append(log, e)}
        /\ pc' \in {[pc EXCEPT ![h] = next], [pc EXCEPT ![h] = otherwise]}
    BY <1>1, <2>1, AppendOrEffect DEF e
  <2>3. status \in {"empty", "skipped"} => Over(h)'
    BY <1>0, <1>1, <2>2 DEF Over
  <2>4. Says(e)
    BY <1>1, <2>1, <2>3
  <2> HIDE DEF Says
  <2> QED BY <2>1, <2>2, <2>4
<1>2. ASSUME NEW h \in Hooks, Hook(h) PROVE Writes
  <2>1. CASE Skip(h) BY <1>1, <2>1 DEF Skip, Statuses
  <2>2. CASE Finish(h) BY <1>1, <2>2 DEF Finish, Statuses
  <2>3. CASE Fail(h) BY <1>1, <2>3 DEF Fail, Statuses
  <2>4. CASE Reserve(h) BY <1>1, <2>4 DEF Reserve, Statuses
  <2>5. CASE Store(h)
    <3>1. CASE Commit(CaptureCall(h)) /\ Goto(h, "finish")
      <4> DEFINE e == EntryOf(CaptureCall(h), kb, log)
      <4>1. e \in Line /\ e.op = "assert" /\ e.id = h /\ log' = Append(log, e)
        BY <3>1, CommitEffect, CaptureCallTypes DEF Line
      <4> HIDE DEF e
      <4>2. Says(e)
        BY <1>0, <2>5, <3>1, <4>1 DEF Store, Goto
      <4> HIDE DEF Says
      <4> QED BY <4>1, <4>2
    <3>2. CASE log' = log BY <3>2
    <3> QED BY <2>5, <3>1, <3>2 DEF Store, store
  <2>6. CASE log' = log BY <2>6
  <2> QED BY <1>2, <2>1, <2>2, <2>3, <2>4, <2>5, <2>6
          DEF Hook, Begin, Extract, Emergency, KilledAppending, store
<1>3. ASSUME NEW req \in Requests, Mutate(req) PROVE Writes
  <2> DEFINE e == EntryOf(req, kb, log)
  <2>1. /\ log' = Append(log, e) /\ e \in Entry
        /\ e.id = IF Explicit(req) THEN req.id ELSE Len(log) + 1
    BY <1>3, CommitEffect, RequestFields DEF Mutate
  <2> HIDE DEF e
  <2>2. e \in Line /\ e.op # "auto_capture" /\ e.id \notin Hooks
    <3>1. Len(log) + 1 \in Nat
      BY DEF TypeOK
    <3> QED BY <2>1, <3>1, Lines, CaptureAssumption, OperationsAssumption DEF Line
  <2>3. Says(e)
    BY <2>2
  <2> HIDE DEF Says
  <2> QED BY <2>1, <2>2, <2>3
<1>4. ASSUME NEW op \in {"retract", "auto_capture_pruned"}, NEW ended \in SUBSET Clauses
      PROVE  PruneRecord(op, ended) \in Line /\ Says(PruneRecord(op, ended))
  BY DEF PruneRecord, PruneEntry, Line, TypeOK, Prune
<1> HIDE DEF Says
<1>5. ASSUME NEW f \in prune.remaining, Retract(f) PROVE Writes
  <2>1. f.clause \in Clauses
    BY CaptureAssumption DEF TypeOK, Prune, CapturedFact
  <2>2. log' = log \/ log' = Append(log, PruneRecord("retract", {f.clause}))
    BY <1>5 DEF Retract, store
  <2> QED BY <1>4, <2>1, <2>2
<1>6. ASSUME NotePruned PROVE Writes
  BY <1>4, <1>6 DEF NotePruned
<1>7. ASSUME PruneInterrupted \/ UNCHANGED vars \/ \E selected \in SUBSET Listed : BeginPrune(selected)
      PROVE  Writes
  BY <1>7 DEF PruneInterrupted, BeginPrune, vars, store
<1>8. Writes
  BY <1>2, <1>3, <1>5, <1>6, <1>7 DEF Next
<1> QED BY <1>8 DEF Says

LEMMA LinesKept ==
  ASSUME TypeOK, [Next]_vars
  PROVE  \A i \in DOMAIN log : i \in DOMAIN log' /\ log'[i] = log[i]
<1>1. \A e \in Line : log' = Append(log, e) =>
        \A i \in DOMAIN log : i \in DOMAIN log' /\ log'[i] = log[i]
  BY Appended
<1> QED BY <1>1, JournalGrows

\* Where a run's step takes it.
LEMMA HookMoves ==
  ASSUME TypeOK, NEW h \in Hooks, Hook(h)
  PROVE  /\ pc'[h] = "store" => run'[h].found # {}
         /\ Over(h) => Over(h)' /\ run'[h].found = run[h].found
         /\ pc[h] = "finish" => Over(h)' /\ run'[h].found = run[h].found
         /\ pc'[h] = "finish" =>
              \/ run'[h].found = {}
              \/ pc[h] = "store" /\ run'[h].found # {} /\ run' = run
                 /\ log' = Append(log, EntryOf(CaptureCall(h), kb, log))
                 /\ EntryOf(CaptureCall(h), kb, log) \in Line
                 /\ EntryOf(CaptureCall(h), kb, log).op = "assert"
                 /\ EntryOf(CaptureCall(h), kb, log).id = h
              \/ pc[h] = "store" /\ run' = run /\ run[h].found = {}
<1>0. h \in DOMAIN pc /\ h \in DOMAIN run
  BY DEF TypeOK
<1>1. CASE \E stop \in Stops : Begin(h, stop)
  BY <1>0, <1>1 DEF Begin, Goto, Over
<1>2. ASSUME NEW status \in Statuses, NEW next \in {"done", "model"},
             NEW otherwise \in {"emergency", "emergency_first"},
             AppendOr(h, Record(h, status), next, otherwise)
      PROVE  pc'[h] \in {next, otherwise}
  <2>1. Record(h, status) \in Line
    BY RecordTypes DEF Line
  <2> QED BY <1>0, <1>2, <2>1, AppendOrEffect
<1>3. CASE Skip(h) \/ Reserve(h) \/ Finish(h) \/ Fail(h)
  <2>1. pc'[h] \notin {"finish", "store"} /\ (pc[h] \in {"finish", "fail"} => Over(h)') /\ run' = run
    BY <1>2, <1>3 DEF Skip, Reserve, Finish, Fail, Statuses, Over
  <2>2. pc[h] \in {"skip", "reserve", "finish", "fail"}
    BY <1>3 DEF Skip, Reserve, Finish, Fail
  <2> QED BY <2>1, <2>2 DEF Over
<1>4. CASE Extract(h)
  <2>1. "found" \in DOMAIN run[h]
    BY DEF TypeOK, Run
  <2> QED BY <1>0, <1>4, <2>1 DEF Extract, Goto, Over
<1>5. CASE Store(h)
  <2>1. CASE Commit(CaptureCall(h))
    <3>1. /\ log' = Append(log, EntryOf(CaptureCall(h), kb, log))
          /\ EntryOf(CaptureCall(h), kb, log) \in Line
          /\ EntryOf(CaptureCall(h), kb, log).op = "assert"
          /\ EntryOf(CaptureCall(h), kb, log).id = h
      BY <2>1, CommitEffect, CaptureCallTypes DEF Line
    <3> QED BY <1>0, <1>5, <3>1 DEF Store, Goto, Over
  <2>2. CASE ~Commit(CaptureCall(h))
    BY <1>0, <1>5, <2>2 DEF Store, Goto, Over
  <2> QED BY <2>1, <2>2
<1>6. CASE Emergency(h) \/ KilledAppending(h)
  BY <1>0, <1>6 DEF Emergency, KilledAppending, Goto, Over
<1> QED BY <1>1, <1>3, <1>4, <1>5, <1>6 DEF Hook

LEMMA StaysTrue == Outcomes /\ [Next]_vars => Outcomes'
<1> SUFFICES ASSUME Outcomes, [Next]_vars PROVE Outcomes'
  OBVIOUS
<1>1. TypeOK /\ OutcomeRecorded /\ Truthful
  BY DEF Outcomes
<1>2. \A i \in DOMAIN log : i \in DOMAIN log' /\ log'[i] = log[i]
  BY <1>1, LinesKept
<1>3. \A h \in Hooks : \A statuses : Recorded(h, statuses) => Recorded(h, statuses)'
  BY <1>2 DEF Recorded
<1>4. OutcomeRecorded'
  <2>1. ASSUME NEW h \in Hooks, Hook(h), pc'[h] = "done", h \notin unheard'
        PROVE  h \in errors' \/ Recorded(h, Statuses \ {"started"})'
    <3>0. h \in DOMAIN pc
      BY <1>1 DEF TypeOK
    <3>1. ASSUME NEW status \in Statuses, NEW next \in {"done", "model"},
                 status = "started" <=> next = "model",
                 NEW otherwise \in {"emergency", "emergency_first"},
                 AppendOr(h, Record(h, status), next, otherwise)
          PROVE  Recorded(h, Statuses \ {"started"})'
      <4> DEFINE e == Record(h, status)
      <4>1. e \in Line /\ e.op = "auto_capture" /\ e.id = h /\ e.status = status
        BY <1>1, RecordTypes DEF Line
      <4> HIDE DEF e
      <4>2. /\ pc' \in {[pc EXCEPT ![h] = next], [pc EXCEPT ![h] = otherwise]}
            /\ pc' = [pc EXCEPT ![h] = otherwise] \/ log' = Append(log, e)
        BY <1>1, <3>1, <4>1, AppendOrEffect DEF e
      <4>3. next = "done" /\ log' = Append(log, e)
        BY <2>1, <3>0, <4>2
      <4>4. Len(log) + 1 \in DOMAIN log' /\ log'[Len(log) + 1] = e
        BY <1>1, <4>1, <4>3, Appended
      <4> QED BY <3>1, <4>1, <4>3, <4>4 DEF Recorded
    <3>2. CASE Skip(h) \/ Reserve(h) \/ Finish(h) \/ Fail(h)
      BY <3>1, <3>2 DEF Skip, Reserve, Finish, Fail, Statuses
    <3>3. CASE Emergency(h)
      BY <2>1, <3>3 DEF Emergency
    <3>4. CASE ~(Skip(h) \/ Reserve(h) \/ Finish(h) \/ Fail(h) \/ Emergency(h))
      BY <2>1, <3>0, <3>4 DEF Hook, Begin, Extract, Store, KilledAppending, Goto
    <3> QED BY <3>2, <3>3, <3>4
  <2>2. ASSUME NEW h \in Hooks, pc'[h] = pc[h], pc[h] = "done", h \notin unheard'
        PROVE  h \in errors' \/ Recorded(h, Statuses \ {"started"})'
    <3>1. errors \subseteq errors' /\ unheard \subseteq unheard'
      BY DEF Next, Hook, vars, Mutate, BeginPrune, Retract, NotePruned, PruneInterrupted, Begin,
             Skip, Reserve, Extract, Store, Finish, Fail, Emergency, KilledAppending, fallback
    <3> QED BY <1>1, <1>3, <2>2, <3>1 DEF OutcomeRecorded
  <2>3. ASSUME NEW h \in Hooks, ~Hook(h) PROVE pc'[h] = pc[h]
    <3>1. CASE \E g \in Hooks : Hook(g)
      BY <1>1, <2>3, <3>1, HookSteps
    <3>2. CASE ~\E g \in Hooks : Hook(g)
      BY <3>2, OthersSteps
    <3> QED BY <3>1, <3>2
  <2> QED BY <2>1, <2>2, <2>3 DEF OutcomeRecorded
<1>5. Truthful'
  <2> SUFFICES ASSUME NEW h \in Hooks
               PROVE  /\ pc'[h] = "store" => run'[h].found # {}
                      /\ Asserted(h)' => run'[h].found # {} /\ (pc'[h] = "finish" \/ Over(h)')
                      /\ pc'[h] = "finish" /\ run'[h].found # {} => Asserted(h)'
                      /\ Recorded(h, {"captured"})' => Asserted(h)'
                      /\ Recorded(h, {"empty", "skipped"})' => ~Asserted(h)' /\ Over(h)'
    BY DEF Truthful
  <2>1. /\ pc[h] = "store" => run[h].found # {}
        /\ Asserted(h) => run[h].found # {} /\ (pc[h] = "finish" \/ Over(h))
        /\ pc[h] = "finish" /\ run[h].found # {} => Asserted(h)
        /\ Recorded(h, {"captured"}) => Asserted(h)
        /\ Recorded(h, {"empty", "skipped"}) => ~Asserted(h) /\ Over(h)
    BY <1>1 DEF Truthful
  \* What becomes of the run by itself.
  <2>2. /\ pc'[h] = "store" => run'[h].found # {}
        /\ Over(h) => Over(h)' /\ run'[h].found = run[h].found
        /\ pc[h] = "finish" => (pc'[h] = "finish" \/ Over(h)') /\ run'[h].found = run[h].found
        /\ pc'[h] = "finish" /\ run'[h].found # {} => pc[h] = "finish" \/ Asserted(h)'
    <3>1. CASE Hook(h)
      <4>1. /\ pc'[h] = "store" => run'[h].found # {}
            /\ Over(h) => Over(h)' /\ run'[h].found = run[h].found
            /\ pc[h] = "finish" => Over(h)' /\ run'[h].found = run[h].found
        BY <1>1, <3>1, HookMoves
      <4>2. pc'[h] = "finish" /\ run'[h].found # {} => Asserted(h)'
        <5> DEFINE e == EntryOf(CaptureCall(h), kb, log)
        <5>1. SUFFICES ASSUME pc'[h] = "finish", run'[h].found # {} PROVE Asserted(h)'
          OBVIOUS
        <5>2. log' = Append(log, e) /\ e \in Line /\ e.op = "assert" /\ e.id = h
          BY <1>1, <3>1, <5>1, HookMoves
        <5> HIDE DEF e
        <5>3. Len(log) + 1 \in DOMAIN log' /\ log'[Len(log) + 1] = e
          BY <1>1, <5>2, Appended
        <5> QED BY <5>2, <5>3 DEF Asserted
      <4> QED BY <4>1, <4>2
    <3>2. CASE ~Hook(h)
      <4>1. pc'[h] = pc[h] /\ run'[h] = run[h]
        <5>1. CASE \E g \in Hooks : Hook(g)
          BY <1>1, <3>2, <5>1, HookSteps
        <5>2. CASE ~\E g \in Hooks : Hook(g)
          BY <5>2, OthersSteps
        <5> QED BY <5>1, <5>2
      <4> QED BY <2>1, <4>1 DEF Over
    <3> QED BY <3>1, <3>2
  <2>3. Asserted(h) => Asserted(h)'
    BY <1>2 DEF Asserted
  <2>4. CASE log' = log
    BY <2>1, <2>2, <2>3, <2>4 DEF Asserted, Recorded
  <2>5. ASSUME NEW e \in Line, log' = Append(log, e),
               e.op = "assert" /\ e.id = h =>
                 /\ pc[h] = "store" /\ pc'[h] = "finish" /\ UNCHANGED run,
               e.op = "auto_capture" /\ e.id = h =>
                 /\ UNCHANGED run
                 /\ e.status = "captured" => pc[h] = "finish" /\ run[h].found # {}
                 /\ e.status = "empty" => pc[h] = "finish" /\ run[h].found = {}
                 /\ e.status = "skipped" => pc[h] \in {"skip", "reserve"}
                 /\ e.status \in {"empty", "skipped"} => Over(h)'
        PROVE  /\ Asserted(h)' => run'[h].found # {} /\ (pc'[h] = "finish" \/ Over(h)')
               /\ pc'[h] = "finish" /\ run'[h].found # {} => Asserted(h)'
               /\ Recorded(h, {"captured"})' => Asserted(h)'
               /\ Recorded(h, {"empty", "skipped"})' => ~Asserted(h)' /\ Over(h)'
    <3>1. /\ \A i \in DOMAIN log' : log'[i] = e \/ (i \in DOMAIN log /\ log'[i] = log[i])
          /\ Len(log) + 1 \in DOMAIN log' /\ log'[Len(log) + 1] = e
      BY <1>1, <2>5, Appended
    <3>2. Asserted(h)' => Asserted(h) \/ (e.op = "assert" /\ e.id = h)
      BY <3>1 DEF Asserted
    <3>3. \A statuses : Recorded(h, statuses)' =>
            Recorded(h, statuses) \/ (e.op = "auto_capture" /\ e.id = h /\ e.status \in statuses)
      BY <3>1 DEF Recorded
    <3>4. CASE e.op = "assert" /\ e.id = h
      <4>1. ~Over(h) /\ pc[h] # "finish" /\ ~Asserted(h)
        BY <2>1, <2>5, <3>4 DEF Over
      <4>2. Asserted(h)'
        BY <3>1, <3>4 DEF Asserted
      <4> QED BY <2>1, <2>5, <3>3, <3>4, <4>1, <4>2
    <3>5. CASE e.op = "auto_capture" /\ e.id = h
      <4>1. Asserted(h)' <=> Asserted(h)
        BY <2>3, <3>2, <3>5
      <4>2. Recorded(h, {"captured"})' => Recorded(h, {"captured"}) \/ e.status = "captured"
        BY <3>3
      <4>3. Recorded(h, {"empty", "skipped"})' =>
              Recorded(h, {"empty", "skipped"}) \/ e.status \in {"empty", "skipped"}
        BY <3>3
      <4> QED BY <2>1, <2>2, <2>5, <3>5, <4>1, <4>2, <4>3 DEF Over
    <3>6. CASE ~(e.id = h /\ e.op \in {"assert", "auto_capture"})
      BY <2>1, <2>2, <2>3, <3>2, <3>3, <3>6
    <3> QED BY <3>4, <3>5, <3>6
  <2> QED BY <1>1, <2>2, <2>4, <2>5, HookWrites
<1> QED BY <1>1, <1>4, <1>5, StepTypes DEF Outcomes

LEMMA SpecOutcomes == Spec => []Outcomes
<1>1. Init => Outcomes
  <2> SUFFICES ASSUME Init PROVE Outcomes
    OBVIOUS
  <2>1. log = <<>> /\ \A h \in Hooks : pc[h] = "idle"
    BY DEF Init
  <2> QED BY <2>1, InitTypes DEF Outcomes, OutcomeRecorded, Truthful, Asserted, Recorded
<1> QED BY <1>1, StaysTrue, PTL DEF Spec

\* A run that ends is accounted for: its outcome is in the journal or in the fallback
\* log, unless the fallback failed too.
THEOREM EveryOutcomeRecorded == Spec => []OutcomeRecorded
BY SpecOutcomes, PTL DEF Outcomes

\* 'captured' is only said of a run whose facts were asserted, 'empty' and 'skipped'
\* only of one that asserted nothing.
THEOREM EveryOutcomeTrue == Spec => []OutcomeTrue
<1>1. Outcomes => OutcomeTrue
  BY DEF Outcomes, Truthful, OutcomeTrue
<1> QED BY <1>1, SpecOutcomes, PTL
-----------------------------------------------------------------------------
(* Pruning.                                                                  *)

\* Clauses leave their namespace by a mutation, which waits for a prune, or by a
\* prune's retraction.
LEMMA PruneStep ==
  ASSUME TypeOK, [Next]_vars,
         NEW n \in Namespaces, NEW c \in kb[n] \ kb'[n], prune.active
  PROVE  \E f \in prune.remaining : f.ns = n /\ f.clause = c /\ Prunable(f)
<1>1. \A h \in Hooks : ~Hook(h)
  <2> SUFFICES ASSUME NEW h \in Hooks, Hook(h) PROVE kb' = kb
    OBVIOUS
  <2> QED BY DEF Hook, Begin, Skip, Reserve, Extract, Store, Finish, Fail, Emergency,
                 KilledAppending, Commit, Idle, store
<1>2. \A req \in Requests : ~Mutate(req)
  BY DEF Mutate, Commit, Idle
<1>3. PICK f \in prune.remaining : Retract(f)
  BY <1>1, <1>2 DEF Next, vars, store, BeginPrune, NotePruned, PruneInterrupted
<1>4. Prunable(f) /\ kb' = [kb EXCEPT ![f.ns] = kb[f.ns] \ {f.clause}]
  BY <1>3 DEF Retract, store
<1>5. f \in CapturedFact /\ f.ns \in Namespaces /\ kb \in Knowledge
  BY DEF TypeOK, Prune, CapturedFact
<1>6. f.ns = n /\ f.clause = c
  BY <1>4, <1>5 DEF Knowledge
<1> QED BY <1>4, <1>6

\* The assert that is the last to add a fact is the last assert that added it.
LEMMA PrunableSource ==
  ASSUME TypeOK, NEW f \in CapturedFact, Prunable(f),
         NEW i \in DOMAIN log, IsLastAdding(i, f.ns, f.clause), log[i].op = "assert"
  PROVE  log[i].id = f.id
<1> DEFINE asserts == {j \in DOMAIN log : /\ log[j].op = "assert" /\ log[j].ns = f.ns
                                          /\ f.clause \in log[j].added}
<1>1. PICK k \in asserts : log[k].id = f.id /\ \A j \in asserts : j <= k
  BY DEF Prunable
<1>2. i \in asserts /\ k \in Adding(f.ns, f.clause)
  BY <1>1 DEF IsLastAdding, Adding
<1>3. i <= k /\ k <= i
  BY <1>1, <1>2 DEF IsLastAdding
<1>4. i \in Int /\ k \in Int
  BY <1>1 DEF TypeOK
<1> QED BY <1>1, <1>3, <1>4

\* Whatever is asserted, retracted, replaced and captured between the listing and
\* the prune, and however often prunes and runs are cut off, a prune takes no fact
\* away that the user asserted after the capture it was selected from.
THEOREM PruneIsTrue == Spec => PruneSparesAsserted
<1>1. ASSUME TypeOK, [Next]_vars, NEW n \in Namespaces, NEW c \in kb[n] \ kb'[n],
             prune.active
      PROVE  \E f \in prune.remaining :
               /\ f.ns = n /\ f.clause = c
               /\ \A i \in DOMAIN log :
                    IsLastAdding(i, n, c) /\ log[i].op = "assert" => log[i].id = f.id
  <2>1. PICK f \in prune.remaining : f.ns = n /\ f.clause = c /\ Prunable(f)
    BY <1>1, PruneStep
  <2>2. f \in CapturedFact
    BY <1>1, <2>1 DEF TypeOK, Prune
  <2> QED BY <1>1, <2>1, <2>2, PrunableSource
<1>2. TypeOK /\ [Next]_vars =>
        [\A n \in Namespaces : \A c \in kb[n] \ kb'[n] :
           prune.active => \E f \in prune.remaining :
                             /\ f.ns = n /\ f.clause = c
                             /\ \A i \in DOMAIN log :
                                  IsLastAdding(i, n, c) /\ log[i].op = "assert"
                                    => log[i].id = f.id]_vars
  BY <1>1
<1> QED BY <1>2, CaptureTypes, PTL DEF Spec, PruneSparesAsserted
=============================================================================
