---------------------------- MODULE AutoCapture ----------------------------
(***************************************************************************)
(* The Claude Stop hook of src/autocapture/capture.ts and what it keeps in *)
(* the memory store (src/store/store.ts): a run of the hook reserves its   *)
(* text in the journal, asks a model, asserts the facts and records how it *)
(* ended; captures are reviewed and chosen facts pruned later.  Runs of    *)
(* several sessions, the user's own mutations and the reviewer interleave  *)
(* between any two calls of the store, and any of them may be killed.      *)
(*                                                                         *)
(* One call of the store is one step, on the assumptions of MutationCommit *)
(* (the lock excludes, no command meets an unresolved mutation).  A run of *)
(* the hook stands for its capture id and for the operation id of its      *)
(* assert, both fresh.  All its entries carry the time it began at.        *)
(***************************************************************************)
EXTENDS StoreOperations, FiniteSets

CONSTANTS
  Hooks,              \* runs of the hook, and their ids
  Texts,              \* user texts of a transcript's tail (fingerprints)
  NoText,             \* an unreadable transcript, or one without user text
  Facts,              \* the facts a model may extract
  DailyCap,           \* reservations per namespace and UTC day
  Days,               \* UTC days
  Stops,              \* the Stop events: namespace, text and day
  MaxJournalEntries,  \* MAX_JOURNAL_ENTRIES
  MaxFailures,        \* bound: failing writes in a behaviour
  MaxPrunes           \* bound: prunes in a behaviour

ASSUME CaptureAssumption ==
  /\ Hooks \subseteq OperationIds
  /\ IsFiniteSet(Hooks)
  /\ \A req \in Requests : req.id \notin Hooks
  /\ NoText \notin Texts /\ Namespaces # {} /\ Days # {}
  /\ Facts \subseteq Clauses
  /\ Stops \subseteq [ns : Namespaces, text : Texts \cup {NoText}, day : Days]
  /\ {DailyCap, MaxJournalEntries, MaxFailures, MaxPrunes} \subseteq Nat
  /\ DailyCap > 0

VARIABLES
  kb,        \* namespace -> its clauses
  log,       \* the journal
  errors,    \* capture-errors.log: the captures recorded there as failed
  torn,      \* a failed append left half a line in capture-errors.log
  pc,        \* run -> its next step
  run,       \* run -> its namespace, text, day, extracted facts
  asked,     \* history: the runs that called the model
  unheard,   \* history: the runs whose last resort, capture-errors.log, failed
  prune,     \* the prune in progress
  failures, prunes

store == <<kb, log>>
fallback == <<errors, torn, unheard>>
capture == <<pc, run, asked>>
curator == <<prune, prunes>>
vars == <<store, fallback, capture, curator, failures>>

Statuses == {"started", "captured", "empty", "failed", "skipped"}

\* An auto_capture entry; its id is the captureId.
CaptureEntry == [op : {"auto_capture"}, ns : Namespaces, id : Hooks,
                 status : Statuses, text : Texts \cup {NoText}, day : Days,
                 ended : {{}}, added : {{}}]

\* The entries of a prune: its retractions and the action it records.
PruneEntry == [op : {"retract", "auto_capture_pruned"}, ns : Namespaces, id : Nat,
               removed : Nat, ended : SUBSET Clauses, added : {{}}]

Run == [ns : Namespaces, text : Texts \cup {NoText}, day : Days,
        found : SUBSET Facts]

\* AutoCaptureFact: what a review lists and a prune is given.
CapturedFact == [id : Hooks, ns : Namespaces, clause : Facts, current : BOOLEAN]

Prune == [active : BOOLEAN, id : Nat, remaining : SUBSET CapturedFact,
          ns : Namespaces, removed : Nat]

NotPruning == [active |-> FALSE, id |-> 0, remaining |-> {},
               ns |-> CHOOSE n \in Namespaces : TRUE, removed |-> 0]

Init ==
  /\ kb = [n \in Namespaces |-> {}]
  /\ log = <<>>
  /\ errors = {}
  /\ torn = FALSE
  /\ pc = [h \in Hooks |-> "idle"]
  /\ run = [h \in Hooks |-> [ns |-> CHOOSE n \in Namespaces : TRUE, text |-> NoText,
                             day |-> CHOOSE d \in Days : TRUE, found |-> {}]]
  /\ asked = {}
  /\ unheard = {}
  /\ prune = NotPruning
  /\ failures = 0
  /\ prunes = 0
-----------------------------------------------------------------------------
Goto(h, step) == pc' = [pc EXCEPT ![h] = step]

Record(h, status) ==
  [op |-> "auto_capture", ns |-> run[h].ns, id |-> h, status |-> status,
   text |-> run[h].text, day |-> run[h].day, ended |-> {}, added |-> {}]

HasRoom == Len(log) < MaxJournalEntries

\* A call that appends to the journal throws: the journal is full, its lock was
\* not to be had, or a system call failed, the last of them after the rename.
AppendFails(entry) ==
  \/ ~HasRoom /\ UNCHANGED <<log, failures>>
  \/ /\ failures < MaxFailures
     /\ failures' = failures + 1
     /\ log' \in {log} \cup (IF HasRoom THEN {Append(log, entry)} ELSE {})

\* The append succeeds and the run goes on to `next`, or throws and it goes on
\* to `otherwise`.
AppendOr(h, entry, next, otherwise) ==
  \/ /\ HasRoom
     /\ log' = Append(log, entry)
     /\ Goto(h, next)
     /\ UNCHANGED failures
  \/ AppendFails(entry) /\ Goto(h, otherwise)

\* The entries of this namespace that hold a reservation.
Reservations(n) ==
  {e \in {log[i] : i \in DOMAIN log} :
     e.op = "auto_capture" /\ e.ns = n /\ e.status = "started"}

\* autoCaptureClaudeStop up to the transcript's tail.  `now` and the captureId
\* are taken before anything is read.
Begin(h, stop) ==
  /\ pc[h] = "idle"
  /\ run' = [run EXCEPT ![h] = [ns |-> stop.ns, text |-> stop.text, day |-> stop.day,
                                found |-> {}]]
  /\ Goto(h, IF stop.text = NoText THEN "skip" ELSE "reserve")
  /\ UNCHANGED <<store, fallback, asked, curator, failures>>

\* recordAutoCaptureSkip, for a bad transcript or one without user text.
Skip(h) ==
  /\ pc[h] = "skip"
  /\ AppendOr(h, Record(h, "skipped"), "done", "emergency")
  /\ UNCHANGED <<kb, fallback, run, asked, curator>>

\* Mutation of Duplicate: only a capture that has ended is a duplicate.
DuplicateOfEnded(h) ==
  \E i \in DOMAIN log :
    /\ log[i].op = "auto_capture" /\ log[i].status = "captured"
    /\ log[i].ns = run[h].ns /\ log[i].text = run[h].text

Duplicate(h) == \E e \in Reservations(run[h].ns) : e.text = run[h].text
\* Mutation of CapReached: captures are counted when they have ended.
EndedCapReached(h) ==
  Cardinality({i \in DOMAIN log :
                 /\ log[i].op = "auto_capture" /\ log[i].status = "captured"
                 /\ log[i].ns = run[h].ns /\ log[i].day = run[h].day}) >= DailyCap

CapReached(h) ==
  Cardinality({i \in DOMAIN log :
                 log[i] \in Reservations(run[h].ns) /\ log[i].day = run[h].day}) >= DailyCap

\* reserveAutoCapture, under the journal lock from the lookup to the append.
Reserve(h) ==
  /\ pc[h] = "reserve"
  /\ IF Duplicate(h) \/ CapReached(h)
     THEN AppendOr(h, Record(h, "skipped"), "done", "emergency")
     ELSE AppendOr(h, Record(h, "started"), "model", "emergency")
  /\ UNCHANGED <<kb, fallback, run, asked, curator>>

\* The model answers, with facts or NOTHING, or the extraction fails.
Extract(h) ==
  /\ pc[h] = "model"
  /\ asked' = asked \cup {h}
  /\ \/ \E found \in SUBSET Facts :
          /\ run' = [run EXCEPT ![h].found = found]
          /\ Goto(h, IF found = {} THEN "finish" ELSE "store")
     \/ Goto(h, "fail") /\ UNCHANGED run
  /\ UNCHANGED <<store, fallback, curator, failures>>

CaptureCall(h) ==
  [op |-> "assert", ns |-> run[h].ns, id |-> h, mode |-> "no_new_violations",
   view |-> Namespaces,
   params |-> [matches |-> {}, adds |-> run[h].found, archive |-> FALSE,
               every |-> FALSE, reviewed |-> [n \in Namespaces |-> {}]]]

Idle == ~prune.active

\* A mutation, whole; it waits for the mutation lock a prune holds.
Commit(req) ==
  /\ Idle
  /\ HasRoom
  /\ \/ Outcome(req, kb, log) = "change" /\ kb' = [kb EXCEPT ![req.ns] = Candidate(req, @)]
     \/ Outcome(req, kb, log) = "record" /\ UNCHANGED kb
  /\ log' = Append(log, EntryOf(req, kb, log))

\* Mutation of Store: the run goes on after the assert has thrown.
StoreIgnoringErrors(h) ==
  /\ pc[h] = "store"
  /\ \/ Commit(CaptureCall(h)) /\ UNCHANGED failures
     \/ /\ \/ ~HasRoom /\ UNCHANGED failures
           \/ Outcome(CaptureCall(h), kb, log) = "refused" /\ UNCHANGED failures
           \/ failures < MaxFailures /\ failures' = failures + 1
        /\ UNCHANGED store
  /\ Goto(h, "finish")
  /\ UNCHANGED <<fallback, run, asked, curator>>

\* store.assert of the extracted facts.  It is refused, fails, or times out.
Store(h) ==
  /\ pc[h] = "store"
  /\ \/ Commit(CaptureCall(h)) /\ Goto(h, "finish") /\ UNCHANGED failures
     \/ /\ \/ ~HasRoom /\ UNCHANGED failures
           \/ Outcome(CaptureCall(h), kb, log) = "refused" /\ UNCHANGED failures
           \/ failures < MaxFailures /\ failures' = failures + 1
        /\ Goto(h, "fail")
        /\ UNCHANGED store
  /\ UNCHANGED <<fallback, run, asked, curator>>

\* finishAutoCapture; when it throws, the outer catch records a failure again.
Finish(h) ==
  /\ pc[h] = "finish"
  /\ AppendOr(h, Record(h, IF run[h].found = {} THEN "empty" ELSE "captured"),
              "done", "emergency_first")
  /\ UNCHANGED <<kb, fallback, run, asked, curator>>

\* finishAutoCapture(..., 'failed') in the outer catch.
Fail(h) ==
  /\ pc[h] = "fail"
  /\ AppendOr(h, Record(h, "failed"), "done", "emergency")
  /\ UNCHANGED <<kb, fallback, run, asked, curator>>

\* Mutation of Emergency: the second log is only tried once the run has failed
\* for good.
NoEmergency(h) ==
  /\ pc[h] \in {"emergency", "emergency_first"}
  /\ Goto(h, IF pc[h] = "emergency" THEN "done" ELSE "fail")
  /\ UNCHANGED <<store, fallback, run, asked, curator, failures>>

\* recordAutoCaptureEmergency.  appendFileSync may fail having written half.
Emergency(h) ==
  /\ pc[h] \in {"emergency", "emergency_first"}
  /\ Goto(h, IF pc[h] = "emergency" THEN "done" ELSE "fail")
  /\ \/ errors' = errors \cup {h} /\ UNCHANGED <<torn, unheard, failures>>
     \/ /\ failures < MaxFailures
        /\ failures' = failures + 1
        /\ torn' \in {torn, TRUE}
        /\ unheard' = unheard \cup {h}
        /\ UNCHANGED errors
  /\ UNCHANGED <<store, run, asked, curator>>

\* A run that is killed takes no further step, wherever it stands, which every
\* step allows; but killed while it appends to capture-errors.log it leaves half
\* a line.
KilledAppending(h) ==
  /\ pc[h] \in {"emergency", "emergency_first"}
  /\ Goto(h, "dead")
  /\ torn' = TRUE
  /\ UNCHANGED <<store, errors, unheard, run, asked, curator, failures>>
-----------------------------------------------------------------------------
\* The user's own mutations.
Mutate(req) ==
  /\ Commit(req)
  /\ UNCHANGED <<fallback, capture, curator, failures>>

\* The lines of the journal that added a clause, and the last of them.
Adding(n, c) == {i \in DOMAIN log : log[i].ns = n /\ c \in log[i].added}

IsLastAdding(i, n, c) == i \in Adding(n, c) /\ \A j \in Adding(n, c) : j <= i

\* sourcesFor (latestJournalSourcesUnlocked): the operation a clause was last added by.
Source(n, c) ==
  IF Adding(n, c) = {} THEN Implicit
  ELSE log[CHOOSE i \in DOMAIN log : IsLastAdding(i, n, c)].id

\* reviewAutoCaptures: the facts of the captures' asserts, and whether each
\* still has its capture for a source.
Listed ==
  {f \in CapturedFact :
     /\ \E i \in DOMAIN log : /\ log[i].op = "assert" /\ log[i].id = f.id
                               /\ log[i].ns = f.ns /\ f.clause \in log[i].added
     /\ f.current = (f.clause \in kb[f.ns] /\ Source(f.ns, f.clause) = f.id)}

\* The command `review --forget`: the facts are listed, which throws on a torn
\* line of capture-errors.log, and the chosen ones given to
\* pruneAutoCaptureFacts, which finds them in the journal, where they stay.
BeginPrune(selected) ==
  /\ Idle
  /\ ~torn
  /\ prunes < MaxPrunes
  /\ \E f \in selected :
       prune' = [active |-> TRUE, id |-> Len(log) + 1, remaining |-> selected,
                 ns |-> f.ns, removed |-> 0]
  /\ prunes' = prunes + 1
  /\ UNCHANGED <<store, fallback, capture, failures>>

\* Mutation of Prunable: whoever added it first.
FirstSourced(f) ==
  /\ f.clause \in kb[f.ns]
  /\ \E i \in DOMAIN log : log[i].op = "assert" /\ log[i].id = f.id
                           /\ log[i].ns = f.ns /\ f.clause \in log[i].added

\* The fact is there and the last assert that added it is the capture's.
Prunable(f) ==
  LET asserts == {i \in DOMAIN log : /\ log[i].op = "assert" /\ log[i].ns = f.ns
                                     /\ f.clause \in log[i].added}
  IN
  /\ f.clause \in kb[f.ns]
  /\ \E i \in asserts : log[i].id = f.id /\ \A j \in asserts : j <= i

PruneRecord(op, ended) ==
  [op |-> op, ns |-> prune.ns, id |-> prune.id, removed |-> prune.removed,
   ended |-> ended, added |-> {}]

\* retractFactIfSourcedBy.
Retract(f) ==
  /\ f \in prune.remaining /\ f.ns = prune.ns
  /\ \/ /\ Prunable(f)
        /\ HasRoom
        /\ kb' = [kb EXCEPT ![f.ns] = @ \ {f.clause}]
        /\ log' = Append(log, PruneRecord("retract", {f.clause}))
        /\ prune' = [prune EXCEPT !.remaining = @ \ {f}, !.removed = @ + 1]
     \/ /\ ~Prunable(f)
        /\ prune' = [prune EXCEPT !.remaining = @ \ {f}]
        /\ UNCHANGED store
  /\ UNCHANGED <<fallback, capture, prunes, failures>>

\* note('auto_capture_pruned') closes a namespace; the next one follows.
NotePruned ==
  /\ ~Idle
  /\ \A f \in prune.remaining : f.ns # prune.ns
  /\ HasRoom
  /\ log' = Append(log, PruneRecord("auto_capture_pruned", {}))
  /\ \/ prune.remaining = {} /\ prune' = NotPruning
     \/ \E f \in prune.remaining :
          prune' = [prune EXCEPT !.ns = f.ns, !.removed = 0]
  /\ UNCHANGED <<kb, fallback, capture, prunes, failures>>

\* The prune is killed, or one of its calls throws: what was removed stays so.
PruneInterrupted ==
  /\ ~Idle
  /\ \/ ~HasRoom /\ UNCHANGED failures
     \/ failures < MaxFailures /\ failures' = failures + 1
  /\ prune' = NotPruning
  /\ UNCHANGED <<store, fallback, capture, prunes>>
-----------------------------------------------------------------------------
Hook(h) ==
  \/ \E stop \in Stops : Begin(h, stop)
  \/ Skip(h) \/ Reserve(h) \/ Extract(h) \/ Store(h) \/ Finish(h) \/ Fail(h)
  \/ Emergency(h) \/ KilledAppending(h)

Next ==
  \/ \E h \in Hooks : Hook(h)
  \/ \E req \in Requests : Mutate(req)
  \/ \E selected \in SUBSET Listed : BeginPrune(selected)
  \/ \E f \in prune.remaining : Retract(f)
  \/ NotePruned \/ PruneInterrupted

Spec == Init /\ [][Next]_vars
-----------------------------------------------------------------------------
TypeOK ==
  /\ kb \in Knowledge
  /\ log \in Seq(Entry \cup CaptureEntry \cup PruneEntry)
  /\ Len(log) <= MaxJournalEntries
  /\ errors \in SUBSET Hooks /\ torn \in BOOLEAN
  /\ pc \in [Hooks -> {"idle", "skip", "reserve", "model", "store", "finish", "fail",
                       "emergency", "emergency_first", "done", "dead"}]
  /\ run \in [Hooks -> Run]
  /\ asked \in SUBSET Hooks /\ unheard \in SUBSET Hooks
  /\ prune \in Prune
  /\ failures \in 0..MaxFailures /\ prunes \in 0..MaxPrunes

Recorded(h, statuses) ==
  \E i \in DOMAIN log :
    log[i].op = "auto_capture" /\ log[i].id = h /\ log[i].status \in statuses

Asserted(h) == \E i \in DOMAIN log : log[i].op = "assert" /\ log[i].id = h

\* Concurrent Stop events with one text ask the model once, whoever of them is
\* killed or fails ("duplicate Stop events and over-limit attempts spend no
\* additional model request", docs/AUTO-CAPTURE.md:79).
OneModelCallPerText ==
  \A g, h \in asked :
    run[g].ns = run[h].ns /\ run[g].text = run[h].text => g = h

\* ... and a day's captures of a namespace never ask it more than dailyCap times.
CapHonoured ==
  \A n \in Namespaces, d \in Days :
    Cardinality({h \in asked : run[h].ns = n /\ run[h].day = d}) <= DailyCap

\* The model is asked only for a text whose reservation is in the journal, so
\* that a killed run stays visible ("interrupted background work remains visibly
\* `started` rather than disappearing", docs/AUTO-CAPTURE.md:81).
AskedReserved == \A h \in asked : Recorded(h, {"started"})

\* A run that ends leaves its outcome in one of the two logs, whichever of its
\* writes failed, unless the fallback log fails as well.
OutcomeRecorded ==
  \A h \in Hooks :
    pc[h] = "done" /\ h \notin unheard =>
      h \in errors \/ Recorded(h, Statuses \ {"started"})

\* What a run says of itself is true of the facts in the journal.
OutcomeTrue ==
  \A h \in Hooks :
    /\ Recorded(h, {"captured"}) => Asserted(h)
    /\ Recorded(h, {"empty", "skipped"}) => ~Asserted(h)

\* A prune never removes what the user asserted since the capture: what it
\* removes was selected, and when an assert added it last, that is the assert of
\* the capture, whatever was removed and asserted again between the review and
\* the prune.
PruneSparesAsserted ==
  [][\A n \in Namespaces : \A c \in kb[n] \ kb'[n] :
       prune.active => \E f \in prune.remaining :
                         /\ f.ns = n /\ f.clause = c
                         /\ \A i \in DOMAIN log :
                              IsLastAdding(i, n, c) /\ log[i].op = "assert"
                                => log[i].id = f.id]_vars

\* A prune removes only what still has the selected capture for its latest
\* source ("a later manual remove/re-add is never pruned through the older
\* capture", docs/AUTO-CAPTURE.md:109).  It does not hold of a fact the user put
\* back by supersede, replace or memory_change.
PruneOnlyCaptured ==
  [][\A n \in Namespaces : \A c \in kb[n] \ kb'[n] :
       prune.active => \E f \in prune.remaining :
                         f.ns = n /\ f.clause = c /\ Source(n, c) = f.id]_vars
=============================================================================
