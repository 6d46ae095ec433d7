# Formal models of Remembero

Remembero keeps an assistant's memory as Datalog clauses in plain files, one
`<namespace>.dl` per namespace, with an append-only `journal.log` beside them.  Several
processes use one store at the same time without a server between them: a long-lived MCP
server, commands typed by a user, capture hooks that run when a chat session ends.  They
may be killed at any time.  What keeps the store correct is a protocol of lock files, a
marker file and a recovery, all in `src/store/store.ts`.  Around the store are others that
have to survive the same conditions: the hook that turns conversations into facts, the
files the conversations themselves are kept in, a second home of the store inside SQLite,
a ledger of reviewed versions; and the Datalog engine that answers questions.  These
modules model them, check them with TLC and prove what matters most with TLAPS.

## Inventory

| Component | State it keeps | Operations | What is hard about it | What makes it correct |
|---|---|---|---|---|
| Memory store, mutations (`src/store/store.ts`) | namespace files, `.pending-mutation.{next,before,json}`, `journal.log`, an in-memory cache per instance | assert, retract, supersede, replace, resolveTentative, applyRuleChange, applyMemoryChange, note, load, knowledgeSnapshot, recovery in the constructor | kills and failing system calls between any two of them, retries, stale reads, rules that join several namespaces | a mutation happens entirely or not at all, once per operation id, decided on the knowledge it replaces |
| Lock files (`withLock`; a copy in `src/sessions/store.ts`) | `.mutation.lock`, `.journal.lock`, `.namespace-*.lock`, `.session-*.lock` | acquire, judge stale, reclaim, time out, release | checks and unlinks are separate system calls on a path that others change | exclusion (which fails, see the findings), bounded waiting, abandoned locks go away |
| Journal rotation (`compactJournal`, `listJournalCheckpoints`) | sealed segments, checkpoint files, the active journal | verify, repair, preview, rotate, list | the rename and the checkpoint are separate; a retry after a crash; limits tested in different places | no entry lost, duplicated or moved; exact checkpoints; truthful answers to retries |
| Auto-capture (`src/autocapture`, and `reserveAutoCapture` ... `pruneAutoCaptureFacts` of the store) | journal entries, a capture error log | reserve, finish, skip, emergency, review, prune | a reservation and its result are separate steps around a model call; lineage of facts | daily cap, no duplicate capture, prune never removes what was re-added later |
| Session store (`src/sessions/store.ts`) | turn logs, an index per namespace, quarantine | appendTurns, read, list, delete | log and index are written separately; hooks hand over overlapping tails | no turn lost or stored twice; the listing agrees with the logs after any crash; the cap |
| SQLite projection (`src/store/sqlite-store.ts`) | tables of files, a revision, a hydrated directory per connection | hydrate, read, withMutation | a counter that can repeat after a rollback | no commit is lost, what is committed keeps the store's promises, no read of what was rolled back (which fails) |
| Semantic ledger (`src/ledger`) | immutable versions, labels, refs, events, decisions | capture, review, promote, initialise a ref | compare-and-set and idempotent operation ids together; a command is several transactions | a ref moves once per operation, only from the version its candidate was reviewed against |
| Datalog engine (`src/engine`) | facts, proofs, the deltas of a round | parse, stratify, evaluate, explain | semi-naive evaluation, stratified negation, closure | the answer of the naive definition |
| Knowledge algorithms (`src/knowledge`) | none | enforcement, conflicts, trust, topology, why-not, repair, bundles, backups | large but sequential | pure functions of a snapshot |
| LLM client, MCP server, CLI, web, native extension, document and support pipelines | connections, caches | I/O | remote failures | bounded retries; everything durable goes through the store |
| evals, training, benchmarks, site | result files | batch jobs | none for the store | not part of the program's core |

Interactions: the CLI, the MCP server and the capture hooks open a `MemoryStore` each and
meet in the file system only.  The SQLite projection and the knowledge algorithms read
snapshots of it.  The session store and the ledger keep files of their own.

## Modules

```
FileLock            one lock file, one step per system call
  MCFileLock
StoreOperations     what one mutation decides and does (operators, no state)
  StoreOperationsProofs
  KnowledgeStore      the atomic store: one step per mutation
  MutationCommit      the store on files: markers, renames, recovery, crashes
    MCMutationCommit
    MutationCommitProofs
  JournalRotation     the journal on files: segments, checkpoints, repair, retries
    MCJournalRotation
    JournalRotationProofs
  AutoCapture         the Stop hook, its outcomes, review and prune
    MCAutoCapture
    AutoCaptureProofs
  SqliteProjection    the store inside SQLite, with a projection per connection
    MCSqliteProjection
    SqliteProjectionProofs
StoreInstance       the values the runs give the constants of StoreOperations
SessionStore        conversations on files
  MCSessionStore
  SessionStoreProofs
SemanticLedger      versions, reviews, promotions, refs
  MCSemanticLedger
  SemanticLedgerProofs
DatalogEngine       closures, strata, semi-naive evaluation, proofs
  DatalogMeaning      what a program means, apart from how it is evaluated
    MCDatalogEngine
KnowledgeProofs     theorems about the atomic store, the lock and the engine
```

The modules meet where the code does. KnowledgeStore is what MutationCommit and
JournalRotation are shown to implement, and whose promises SqliteProjection instantiates on
the committed tables; AutoCapture uses its operators with a call of the store as one step.
MutationCommit and SessionStore take a lock as one step and assume that it excludes;
FileLock shows when the code's lock does not (finding `lock_exclusion`). The specification
of FileLock has names that begin with `Lock` (`LockInit`, `LockNext`, `LockSpec`,
`LockTypeOK`), that of DatalogEngine names that begin with `Engine`, so that one module,
KnowledgeProofs, can hold the theorems about both and about the atomic store.

An operator commented "Mutation of" is a plausible error in the definition after it.  No
specification uses it; it is there to see that a property would notice.

### FileLock

`MemoryStore.withLock` (lines 932-1013).  `lockFile` is the file the lock's path names,
written as the process that created it; `stamped`, `old` and `saw` are the pid inside it,
its age and what a waiter's `lstat` described.  Each `openSync`, `writeFileSync`,
`lstatSync`, `readFileSync`/`kill(pid, 0)`, `unlinkSync` is an action, so the model has
every interleaving of them and a kill between any two.  Every waiter judges and reclaims, as
in the code.  `Retry` is the `continue` statement, which tests the deadline in the session
store's copy and not in the memory store's; `copy` says which of the two runs and is chosen
initially.  The namespace lock needs no model of its own: its only callers hold the mutation
lock while they take it.

### StoreOperations

A clause stands for its canonical key, and a request for the parsed call: the clauses its
pattern or removal list matches and the clauses it adds.  `Outcome` is the order of the
decisions all mutations share: the lookup of an earlier entry with the caller's
operation id (replay or conflict), the refusals, integrity enforcement (`Rejected`, from
`enforceMutation` and `enforceIntegrityCandidate`), and what is left to do: a change, an
entry that only records the id, or nothing.  `Candidate` and `EntryOf` are the new file
body and the journal entry.  An integrity violation is a set of clauses that may not all
be in the checked view; this covers what the engine derives monotonically from it.  A
generated operation id is a value no other entry has; the model uses the position the
entry is created for.

### KnowledgeStore

The abstract specification: `kb` and `log` change together in one step.

### MutationCommit

`dl`, `next`, `backup`, `pending` and `journal` are the files.  `pc` follows one call of
each process through

* the locks (`LockMutation`, `LockJournal`, `LockForNote`, `TimeOut`, `LeaveJournal`,
  `Unlock`; the exclusion FileLock establishes is assumed here),
* `Decide`: lookup, load, enforcement and the journal-only append under both locks,
* `commitMutation`: `Recover`, `Prepare` (write `.next`), `Publish` (the marker),
  `SetAside` and `Install` (the two renames), `AppendJournal` (the commit point), then
  the completion `DropBackup`, `DropNext`, `DropMarker`,
* `rollbackPendingMutationUnlocked`: `DropTarget`, `Restore`, `DropNext`, `DropMarker`,
* `knowledgeSnapshot`: recovery, then `SnapshotLoad` per namespace under the mutation
  lock alone, and `note`, under the journal lock alone.

`Crash` kills a process at any step and leaves its lock files `Abandoned`.  `Fault` lets a
system call of the commit fail; `CleanupCanFail` does so for those of the recovery and
`StatCanFail` for the `lstatSync` after the journal's rename.  `LongLived` processes are
those whose store instance may be older than an abandoned lock is stale, so that they
take it over in a call other than the constructor's.  They load before they recover; whether
what was loaded is what is durable is kept with the draft (`settled`, history).

`Durable` is what a namespace holds once an interrupted mutation is resolved.  It is the
refinement mapping: `Store == INSTANCE KnowledgeStore WITH kb <- DurableKnowledge,
log <- journal`.  The step that appends to the journal is the one that maps to a step of
the atomic store, and every other step, crash and recovery maps to a stutter.  A process that
had loaded while an interrupted mutation was unsettled commits what it decided then
(`TakesEffectUnsettled`), which the atomic store would not: `ImplementsSettled` allows this
one step besides those of the atomic store.

### JournalRotation

`active`, `segments` and `checkpoints` are `journal.log` and the files of
`.journal-segments` and `.journal-checkpoints`.  A segment keeps its name (range and
digest) apart from what the file holds, because the name is computed from the journal that
was read and the rename takes whatever the file holds by then.  `step` follows one
`compactJournal`: `Verify` (`assertCheckpointReplayUnlocked`), `Repair` (one missing
checkpoint at a time; a dry run only remembers them), `Replayed` (a retry, or a conflict
on `at`), `NothingToRotate`, `Prepare` (name, checkpoint and result; a dry run ends here),
`Rotate` (the rename) and `Publish` (the checkpoint).  `Interrupt` ends the call at any of
them, for a kill and for a system call that fails.  The call holds both locks throughout,
so that mutations and notes, one step each, come before or after it.  `StateAt` replays
the namespaces that exist now up to a position, as `checkpointNamespacesAt` does.
`ReadsJournal` says which mutations read the whole journal and so fail once it exceeds the
limit on its total length.  `sealedBy` is a history variable: the id each segment was
rotated under.

`Logical`, the segments in order followed by the active journal, is the refinement
mapping to KnowledgeStore: rotation, interruption and repair are stutters.

### AutoCapture

`autoCaptureClaudeStop` and the capture section of the store.  A run of the hook goes
through `Begin` (transcript tail, `now`, capture id), `Skip` or `Reserve`
(`reserveAutoCapture`: duplicate and cap are looked up and the reservation appended under
one journal lock), `Extract` (the model), `Store` (an ordinary assert), `Finish` or `Fail`,
and `Emergency` when the journal itself cannot be written: `capture-errors.log`, whose append
can be cut off (`torn`).  "emergency_first" is the catch inside the catch: a failing
`finishAutoCapture` writes to the error log and is caught again by the outer `try`.  A
failed append may have reached the file (`AppendFails`).  `Listed`, `BeginPrune`, `Retract`
and `NotePruned` are the review and the prune, which holds the mutation lock from its first
retraction to its last note (`Idle` makes the user's mutations wait; the hook's
journal-only writes go on).  `Prunable` is the lineage test of `retractFactIfSourcedBy`.
`asked` and `unheard` are history variables.

### SessionStore

`SessionStore` of `src/sessions/store.ts`, with its two writers.  A file is its header's
start, its lines and whether the last one ends; a line is the header, a turn, or torn.  A turn
is its position in the parsed transcript, whose turns may stand out of the order of their
times.  (The parser merges consecutive entries of one speaker, so that a transcript is taken
as what it returns.)  `Capture` hands over what `sessionTurnsToWrite` makes of a window, which
reaches from any turn to the last one as long as a user speaks in it, because how far the hook
reads back depends on the noise between the turns: it leaves out the turns below the `Floor`
of the index, which it reads without the lock, keeps the newest that fit the budget
(`WithinBudget`; a turn larger than all of it does not count), sorts them (`InTimeOrder`) and
takes the earliest time of the window for the start.  `Import` hands over a whole transcript.
Under the lock: `Inspect` (reading, quarantine, duplicates), `AppendTurns` (one
`appendFileSync`, which `AppendCut` ends at any byte that matters), `Evict` and `EvictCopies`
per session dropped for the cap, the oldest of `Victims` first, `IndexAppend` (rename).
`ForgetCopies`, `ForgetFile`, `ForgetIndex` and `ClearNamespace` are the deletions.  `Killed`
ends a writer between any two.  `Damage` makes a header unreadable.  `Listing` is what `list`
computes from the index and the files, `Windows` the windows a client pages through.  `stale`
is history: the sessions whose last write did not reach the index.

### SqliteProjection

`createSqliteMemoryStore` and `SqliteMemoryStore`.  `db` is committed; `txn[c]` is what a
transaction of `c` sees, whether the caller's (`outer`) or the savepoint of a mutation.
`Begin` takes the write lock and hydrates, `Operate` runs the operation of StoreOperations on
the projection, stores the files under the next revision and releases, `Refused` and
`PersistFails` roll back and hydrate again.  `ReadRows` and `ReadRevision` are the two
statements of a hydration outside a mutation, `HydrationFails` one that ends half way, and
`RollBackCaller` the caller's rollback, of which the projection is not told.

### SemanticLedger

The commands of the CLI, MCP server and web server over `SemanticLedger`.  A savepoint is
one step: `CreateVersion` (version, knowledge objects, label), `InitialiseRef`, `Review`,
`DecidePromotion`.  A command reads the ref before and writes in a later step (`Capture`,
`Promote`, `EnsureBaseline` record what it read), and `Cut` ends it in between.  A version
is the path of captures that led to it, which is what its digest identifies.  `Reply` is
the order of decisions in `promote`: the operation id first, then the ref, then the
assessment's baseline, then the uniqueness of the decision's digest.

### DatalogEngine

`deriveDatabase` with what it is given by `expandClosures` and `stratifyProgram`.
`Strata` is the relaxation over as many passes as predicates, `SeededClauses` the closure
from a constant.  A step is one rule with one delta position (`Derive`): it adds what follows
from the relations as they are when it starts, and may or may not add what follows from the
facts added while it runs, because it iterates over maps that grow.  `NextPosition`,
`CountRows`, `EndRound`, `NextRound` and `NextStratum` are the loops around it, with the four
limits where the code tests them: facts, iterations, aggregate rows and candidate visits.  How
many candidates a rule visits depends on the order in which it finds them, and on what is
added meanwhile.  `Candidates` are those of one lookup (by the first argument, where it is
known), `Visits` those of a rule with one delta position.  `visits` counts the least and the
most there can have been: least, from the facts there were when the rule began and without
those a negation may spare by ending at a match (`Inevitable`); most, from all there are when
it ends.  `VisitTooMany` stops the evaluation wherever the most would exceed the limit, and no
rule ends once the least does.  `why` is the first proof of each fact.

There are two references.  `Stratifications` are all the ways to rank the predicates so that
no rule negates or counts what is not below it: a program without one must be refused, and
`Strata` must be the least of them.  `Model`, in DatalogMeaning, is the naive least fixpoint
stratum by stratum over `Reachable` closures, which shares no step with the evaluation but
the matching of a body.  `Answers` are the sets of rows a query may return: `maxRows` cuts
them wherever the enumeration happens to be.

## Runs

Nine runs pass.  Three show that the code does not do what a document of the repository says;
those are the findings.  The properties are kept to what could go wrong in several steps.
Type invariants and the simpler promises (`DryRunChangesNothing`, `AskedReserved`,
`AcceptedMoved`, `AppendOnly`) are left to the proofs, every module's types among them.

| Run | Question | Result |
|---|---|---|
| `lock_files` | two processes on either copy of the lock, killed anywhere, holding it as long as they like | in `sessions/store.ts` every wait ends; in `store.ts` a call spins only while others keep taking the lock; an abandoned lock file is removed |
| `lock_exclusion` | three processes, one of them killed | **violated**: two waiters reclaim one abandoned file and two processes are inside |
| `commit_robust` | two servers that take over stale locks, two kills or failures anywhere, inside recoveries too | recovery never asks for manual repair; only journaled commits change the knowledge, each a change of the atomic store but for those decided on an unsettled mutation; ids are unique; locked snapshots are consistent |
| `commit_liveness` | fair scheduling, one kill or failing call, the `lstat` included | calls end and an interrupted mutation is resolved |
| `rotation_history` | mutations of two namespaces, rotations, retries and dry runs, cut off anywhere twice, all limits reached | the journal files implement the atomic store's journal; the chain is readable and replays to the clauses, integrity holds across namespaces, checkpoints are exact and repaired, and every answer names a rotation the history has |
| `capture_prune` | two hooks on equal and different texts, days and namespaces, a user who asserts, retracts and supersedes, a review and a prune, one failing write | one model call per text, the cap, outcomes recorded and true, no prune of what another assert added last |
| `prune_readded` | the same, without failures | **violated**: a fact put back by a supersession is pruned |
| `sessions` | two writers over three sessions: hooks with any window of a transcript out of time order, imports, forgets, kills and cut-off writes, a damaged header, a cap and a budget that are reached | no text lost or doubled, what a cut-off capture leaves out can be captured again, listing and windows exact; an append that finishes keeps the cap, dropping the oldest and no more |
| `ledger` | two processes that capture, review, promote and initialise one ref, dying between transactions, with retries under two ids | refs move only through the gate, along a chain, once per id; retries are answered |
| `projection` | two connections with transactions of their callers, refused and failing mutations, restarts | no commit is lost, the tables keep the store's promises |
| `projection_rollback` | the same, without failures | **violated**: a read answers with facts whose transaction was rolled back |
| `engine` | eleven sets of rules over thirty-three graphs | what is refused has no stratification and the strata are otherwise the least, the answers are those of the naive definition, proofs stay well-founded and true, limits deserved |

### Findings

* `lock_exclusion` (`src/store/store.ts:984-985`; `README.md:446`: "Cross-process writers are
  serialized").  A process is killed while it holds the lock.  Two waiters see its file past
  `LOCK_STALE_MS` and both judge it stale; the first unlinks it and takes the lock; the second
  unlinks what the path names by now, the new lock, and takes it too.  No live process has to
  exceed the age for this.  Every other module assumes that locks exclude, so that what they
  show holds as long as no two waiters meet one abandoned file.
* `prune_readded` (`src/store/store.ts:3037-3039`; `docs/AUTO-CAPTURE.md:107-109`: "a later
  manual remove/re-add is never pruned through the older capture").  `retractFactIfSourcedBy`
  looks for a fact's latest source among asserts only.  Put back by supersede, replace or
  memory_change, it still counts as the capture's.  What does hold is `PruneSparesAsserted`:
  a re-add by assert is never pruned.
* `projection_rollback` (`src/store/sqlite-store.ts:324`; `docs/SQLITE-DATABASE.md:67-68`: "A
  caller-owned transaction therefore commits or rolls back application rows and governed
  memory together").  After the caller's rollback `lastRevision` stays; another connection's
  commit gets the same number, and the projection with the rolled-back facts passes for
  current.

## What the runs exclude

Some properties are stated with a condition, and some runs fix a constant.  Here is what is
behind each, and what else the models show that a reader of the code would want to know.

Locks and commits:

* `WaitEnds` is about the copy in `src/sessions/store.ts`, whose line 968 asks for it.  The
  loop of `store.ts` skips the deadline when the lock vanishes between the failed create and
  the `lstat` (lines 986 and 989), so that a call can poll for ever while others come and go:
  `SpinsOnlyOvertaken` says that it does so only then.
* `ImplementsSettled` has a condition.  A long-lived server that takes over the locks of a
  process killed in mid-commit loads the namespaces (line 1967) before `commitMutation`
  recovers (line 1808), so it decides on a file that the recovery rolls back.
  `docs/INTEGRITY-ENFORCEMENT.md:75` promises that validation and commit observe one stable
  snapshot.  Without `TakesEffectUnsettled` the run fails; the property says that this is the
  only exception.
* `StatCanFail = TRUE` in `CommitRobust.cfg`: when the `lstat` after the journal's rename
  fails, the file is rolled back although the journal has the entry, and
  `OnlyCommitsChange` fails.
* `load` takes no lock (line 1869): between the two renames of a commit (line 1847) the
  namespace file does not exist and reads as empty.  `SnapshotConsistent` is about the
  reader that takes the mutation lock.
* `commit_liveness` has commands only (`LongLived = {}`), so that an abandoned lock is taken
  over when a process starts again.

Rotation:

* A rotation that dies before its checkpoint forgets its id, since the repaired checkpoint has
  one of its own (`store.ts:840`), and the retry seals a second segment.
  `docs/JOURNAL-CHECKPOINTS.md:21` says of a caller-supplied id that it "makes rotation
  retry-safe".  `RotationsAnswered` says what is left of it: a second segment only in that
  case, one checkpoint per id, and no answer that names another's segment.
* The invariant `step = "verify" => ReplayConfirmed` fails in `rotation_history`: the replay
  lists the namespaces of today (lines 1376, 1414), so that a namespace created after a
  rotation makes every earlier checkpoint unconfirmable.
* In `rotation_history` the journal reaches six entries where its readers accept four:
  writers test the active journal only (line 1191) and `compactJournal` the number of
  segments only.  From there on whatever reads the journal throws.

Auto-capture:

* A torn line in `capture-errors.log` makes every later review throw (`BeginPrune` requires
  `~torn`; lines 1601-1636).
* `review` and `review --forget N` list separately: N is a position in a list that another
  capture may have shifted.
* A `finishAutoCapture` that fails is recorded as failed although the facts are stored;
  `OutcomeTrue` therefore says nothing of "failed".
* A run that is killed after its reservation leaves its text a duplicate for ever.

Sessions:

* `StoredOnce` bounds a text's copies from above.  A text repeated within a batch is stored
  twice only if the batch arrives whole: after a write that is cut off, the retry takes the
  repeat for a duplicate.
* `CutsRecoverable` is about the turns of a batch, and of its own append.  Four things lose
  turns that were never in a batch, or file them late, and the model has them all.  Turns
  that lay before a hook's window are below the floor once it has stored the window; a wider
  window brings them again and they are dropped (`capture.ts:118`).  So are those the
  budget left out; the comment at `capture.ts:77-86` accepts this for a first, widened
  window.  A turn with an earlier time than one already indexed, said or first handed over
  later, is taken for an old one.  And two hooks that overtake each other between choosing
  their turns and taking the lock leave the file out of the order of time, which the
  comment at `capture.ts:67-71` wants to keep off it.
* After a quarantine the index still has the session's entry.  It is not listed while there
  is no file, but counts again when an append that is cut off has re-created one: the listing,
  and the floor with it, is then of the file that was moved aside.  `Mark` takes the floor by
  the index alone, so that `CutsRecoverable` does not blame the cut for that.
* A session whose append never reached the index (`stale`) is not listed nor counted to the
  cap until it is written again.
* The cap holds when an append finishes, not always.  An append cut off before it drops
  anything leaves more than the cap, unknown to the index; if a namespace's deletion is then
  cut off after `index.json`, the listing is computed from the files and shows them all.
  The next append drops what is too much.
* `deleteSession` of a session whose file is gone returns without touching the index; the
  entry stays, and is left out of listings.
* A forget during a capture that has chosen its turns is followed by that capture's append.
* `list` reads files one by one and may find one deleted meanwhile.

Projection:

* Besides the finding, two windows leave a projection behind the revision it is taken for
  until the next commit: another connection commits between the two statements of a
  hydration (`sqlite-store.ts:308`, `318`), or a hydration fails half way.  A read in them is
  of older memory, or of part of it.  A mutation hydrates under the write lock, which is why
  `NothingLost` and `CommittedSound` hold all the same.

Ledger:

* `InitialiseRef` does not say which version it expects: of two surfaces that find no ref,
  the second moves it without a review (`RefsGated` allows it as an initialisation).
* A kill of the web server between the baseline's version and its ref, followed by a change
  of the memory, makes every later start meet the label on another version.
* Two operation ids cannot record the same decision: the second is refused.
* A retry with other accepted dimensions is answered with the decision first made
  (`RetriesAnswered` says so).

Engine:

* Seeds are keyed by the printed constant (`closure.ts:151`), so that an atom `'5'` and a
  number 5 share one; the programs of the run have constants that print differently.
* `ProofsGrounded` follows the facts a proof names; rows that an aggregate counted are not
  part of its proof.

### Bounds

* Lock: two processes for the liveness, since a waiter and a dying owner meet in every step of
  a reclaim; three for the exclusion, an owner that dies and two waiters that reclaim.
* `Procs` of the commit: two.  Its critical sections exclude, so that the second process is
  whoever comes after the first.
* `Namespaces`: two, so that a constraint can span namespaces and a snapshot has an order.
* `Clauses`: a fact, its archived form and a rule that the fact's presence forbids.
* `Requests`: for the commit and the projection five calls that write, empty, archive and
  rewrite one namespace, conflict on an id, and write the other namespace under a constraint.
  Two for liveness, three for the rotation, three for the user of auto-capture.
* `MaxJournalEntries`: two to five.  It stands for the limit in the code, which is thus
  reached, and it bounds the behaviours.
* Rotation: two entries per file, two segments and four entries that readers accept, so
  that every limit is met; three calls that write both namespaces, archive, and collide on a
  constraint; a rotation under an id, a dry run of the same id with `at`, and an anonymous
  rotation.
* `MaxFailures`: two kills or failing calls for the commit and the rotation, so that a
  recovery can be interrupted too; one elsewhere.
* Capture: two runs (kills are free: a run may simply stop), two texts, days and namespaces,
  a cap of one, so that the second run meets the duplicate, the cap, the next day or neither;
  one prune, after which the user can act and a second run can re-add.
* Sessions: three turns in the captured session, one larger than the budget and one written
  late, so that order of time and of the transcript differ; one turn in each of the imported
  ones; a cap that all of them exceed and a window that closes for each of its three reasons;
  a failure, a damage and a forget, two of them in a behaviour (`MaxTroubles`).
* Ledger: two journal coordinates, one of which breaks a constraint, three versions (a
  parent, its child and a competitor), two decisions, two operation ids.
* Projection: two connections, four revisions (enough for a rolled-back one to be reused and
  passed), one failure or restart.
* Engine: three constants; linear, mutual and left recursion, negation below negation,
  counting below counting and negation, closures seeded on either side and unseeded.  The
  limits (15 facts, 4 iterations, 3 aggregate rows, 60 visits) are met by the larger graphs
  only.  `MaxRows = 2` cuts the answers of many queries.

Symmetry is used where the processes, connections, runs or ids are interchangeable, in runs
without liveness.  Deadlock checking is off because the bounded systems stop when nothing is
left to do.

### Fairness

`lock_files` assumes that the operating system schedules each process that is not killed
(weak fairness of its next system call), that clocks run (`Expire`, `Age`), and nothing of
how long an operation keeps the lock.  `commit_liveness` adds strong fairness of the two
lock acquisitions: a waiter polls every 10 ms for 2 s, and calls hold the locks for
milliseconds, so a process that keeps calling meets a free lock in the end.  Nothing
makes a process call or die; processes that ended start again (`WF(Start)`), which is what
"the store is opened again" means.  The other specifications state no fairness: a hook, a
command or a reader may always be its last.

## Proofs

Of the thirty-eight properties the passing runs check, thirty-two are proved for every value
of the constants, under the assumptions the modules name and those given here.

`StoreOperationsProofs`: the lemmas the others cite.  What is added and ended are clauses, a
mutation that takes effect has an entry the journal does not hold, one that only records its
id has an entry without effect, and an entry decided upon a journal has an operation id that
is new to it, so that appending it keeps the ids unique.  `Replay` is a recursive function,
and what it returns for every journal needs induction.  The library's induction theorems
take a predicate as a parameter, which no installed prover instantiates; `LeastNumber` and
`Induction` obtain it for a set of numbers from the well-foundedness of the order (`WFMin`).
On it rest `RunExists`, that the recursion defines a function, and what an entry more does
to a replay (`ChangeMatches`, `IneffectiveMatches`).

`KnowledgeProofs`: the atomic store, the lock and the engine.  Of the atomic store `StoreTypes`,
`IntegrityHolds` (a candidate that is not rejected adds no violation to a store that has none)
and `JournalTellsAll` (the journal replays to the clauses, which is inductive together with
the types); JournalRotation's runs and proofs carry them over to the files.  Of the lock its
types only: its exclusion does not hold, and the rest is liveness.

For the engine, any program, limits and order of solutions: `EngineTypes` and six theorems
on the types, which hold of the rules as the closures expanded them.
  * `LimitsAreDeserved`: every iteration but the last of a stratum added a fact, so their number
    is at most that of the facts gained plus the strata begun (`IterationsPaid`).  What is
    visited in a round is at most its work, each rule reading all the facts once for each of its
    goals that may read the delta (`VisitsPaid`: the visits so far are no more than the
    iterations before times that work and what the finished steps of this round read).  The
    work only grows, since with more facts there are more solutions and candidates
    (`VisitsGrow`, `WorkGrows`), so that the last round's pays for all.
  * `ProofsAreGrounded` (`ProofsKept`): what a proof uses came before it, in the sense that
    every set of facts has one whose proof uses none of it; what it found absent is of a
    stratum below, where nothing is added any more; and a rule that derived a fact still does
    so when there are more (`GrowthKeeps`, `GrowthIgnored`).
  * `EvaluationIsComplete` (`SaturationInv`): a rule that reads the delta at one goal, the old
    facts before it and the facts as they grow after it misses nothing.  The invariant says
    what each step of a round has taken (`Taken`), that between rounds only what follows from
    the last delta may be missing (`RoundSaturated`), and that the strata below stay closed
    (`LowerSaturated`).
  * `StrataAreLeast`: if there is a stratification there is a least one (`LeastExists`); the
    relaxation stays below it (`RelaxedBelow`) and grows; where it has not reached it, some
    dependency is tight (`TightDependency`), so that each pass settles one more predicate
    (`FillsUp`) and as many passes as predicates are enough.
  * `EvaluationIsTheModel`: at the end, `db` is a set of facts that is closed under the rules
    with no part of it that is, where negation and counting look at the whole, and no other
    set is.  That no part is closed follows from the well-founded proofs (`NoneLeftOut`), that
    there is one such set stratum by stratum (`ModelsAgreeAt`).

`MutationCommitProofs`: six theorems, for any processes, kills and failing calls.
`CommitTypes` and `RecoveryNeverStuck` come first.  "Not stuck" is not inductive.  `RecoveryInv` adds
  * `TypeInv`: the types, who holds the locks at each step, and what a process prepared,
  * `FreshDraft`: an entry about to be committed has an effect and is not in the journal,
    so that the marker's lookup in the journal tells whether it was committed,
  * `MarkerSound`: a backup exists only under a marker with a previous file; when the
    marker is committed, or the target has not been touched, the namespace file exists,
  * `StepSound`: the files at each step of a commit, a completion and a rollback.

The proof goes action by action.  `OthersIdle` (whoever is in a commit or a recovery holds
the journal lock) reduces each action to its own process.  The others build on it:
  * `CommitsOnce` (`NewDraft`): between the decision and the rename of the journal nobody
    else journals the id, because the mutation lock is held from the one to the other.
  * `OnlyCommitsAreDurable` (`LeavingSound`): the file a rolled-back creation left is gone
    before its marker is removed; each step then leaves what is durable or is the commit.
  * `SnapshotsConsistent` (`SnapSound`): a snapshot starts from nothing, with no mutation
    pending, and keeps the mutation lock until it has loaded every namespace.
  * `CommandsRefineStore` (`Decided`, `Installed`): what was decided on the durable knowledge is
    still what the atomic store would decide when the journal is renamed, recoveries in between
    included, and the body installed is the one prepared.  The rename then is one `Change` of
    the atomic store, or one that `TakesEffectUnsettled` allows when the process had loaded while
    a mutation was unsettled; every other step is a stutter or a `Record`.

`RecoveryNeverStuck`, `OnlyCommitsAreDurable`, `SnapshotsConsistent` and `CommandsRefineStore`
assume `~StatCanFail` (What the runs exclude).  All assume the lock's exclusion, as the module
does, and the named assumptions on the constants.

`JournalRotationProofs`: eight theorems, for any limits, calls, namespaces and interruptions.
`RotationKeepsChain`, `DryRunsAreDry` and `RotationRefinesStore` come first.  `ChainInv`
adds to the chain that every position up to its end is in exactly one segment (`Tiled`),
that the end is at most the number of segments times the length of a file (`Limits`; it
bounds the journal of the atomic store), and that a prepared segment is still what
`journal.log` holds (`DraftSound`).  `Appending` and `SealingInvisible` say what an append
and a rotation do to `Logical`; `SameDecision` that the abstract store decides with the
same operators.  The theorem about the refinement is of this module's steps; that a
mutation's own steps amount to one is `CommandsRefineStore`.  `CheckpointsAreExact` needs that
what a call drafted or recovered is exact before it is published (`AllExact`: an entry that is
appended later leaves the replay up to an earlier position as it is), and where in a call
which segments may lack a checkpoint (`Covering`).  `RotationTypes` adds what a call in progress
holds.  `HistoryIsComplete` and `IntegrityIsKept` are the atomic store's promises of the files:
that the segments and the active journal replay to the clauses is inductive with the chain.
`RetriesAreAnswered` (`RetryInv`) ties every segment to the id it was sealed under, every
checkpoint to its segment and to that id or to a repair, and what a call answers to them,
whatever was interrupted.

`SqliteProjectionProofs`: `ProjectionTypes`, `NothingIsLost` and `CommittedIsSound`, for any
connections, calls, transactions and failures.  `Inv` adds that SQLite has one writer
(`OneWriter`), that a transaction is what is committed or is a later revision whose journal
extends the committed one (`Ahead`), and that a mutation works on the files of its transaction
(`Working`), however stale the projection was before.  `CommittedIsSound` holds the
files of every open transaction to the promises of the atomic store too (`AllSound`), since
any of them may be committed, and uses the lemmas on replays, ids and violations.

`SemanticLedgerProofs`: the types, `EveryMoveGated`, `EveryAcceptanceMoved`,
`OperationsOnce`, `EveryRetryAnswered`, `LedgerAppendOnly` and `HistoryAccounts`, for any
processes, refs, labels and operation ids.  `Inv` adds what a command in progress holds (`Commands`: its parent,
version or assessment is stored) and that a review compares a stored version with its parent
(`Compared`).  The heart is `DecidePromotion`: a new decision has a new id, so that its move
is not taken for a repeated one, and expects the baseline of its assessment, which is the
candidate's parent.  `HistoryAccounts` (`RefsChained`) says of each event that its `from` is
where the last event of its ref before it went (`LeftAt`); an event is appended only by
`Moves`, from the ref as it is.

`AutoCaptureProofs`: the types and six properties, for any hooks, texts, days, cap and
failures, in three invariants.  `Reserving` (no two reservations of one text in a namespace,
no more reservations on a day than the cap, and whoever asks the model or has asked it holds
a reservation with the terms of its run) gives `TextsAskedOnce`, `AskedAfterReserving` and
`CapAlwaysHonoured`; the last needs that distinct runs have distinct reservations, hence an
injection into them and the cardinalities of the library.  `Outcomes` (where a run stands
when its facts are in the journal) gives `EveryOutcomeRecorded` and `EveryOutcomeTrue`.
`PruneIsTrue` needs no
invariant but the types: while a prune is active only its retractions remove clauses
(`PruneStep`), and what `Prunable` takes for the latest assert is the latest when an assert was
the last to add the fact (`PrunableSource`).

`SessionStoreProofs`: the types and seven properties, for any transcripts, processes, limits,
kills, cut-off writes, damages and deletions.  `Shape` makes functions of the variables;
`Writing` adds what every step of an append relies on:
  * a log holds no turn twice, and none that was not said (`SoundLines`),
  * a batch has no turn twice, and none that was not said (`Batch`); once the file has been
    inspected, none of its texts is stored and the file begins with a header or gets one
    (`Prepared`), because the lock is held from the one to the other,
  * after the write the whole batch is stored, and its session is not about to be dropped
    for the cap (`Written`).

`TurnsOfConcat` and `PickedMembers`, proved by `Induction`, say what is read from a log to which
lines were appended; torn lines and a file that does not end in a newline are the cases of
`Appended`.
  * `TurnsAnswered` is `Written`; `StoredAtMostOnce` an injection of the stored turns of a text
    into those that were said.
  * `CutsAreRecoverable` (`Handing`): what a hook hands over is in the order of time and not
    before its start, so that any prefix of it that is written raises the floor over nothing
    that is missing, whether the index is written, kept or rebuilt.
  * `IndexIsExact` (`Indexed`): every session that is not `stale` is shown as it is, or
    somebody has written it and not yet the index, and then the entries that will be written
    show it (`GatheredAll`).
  * `TurnsAreKept` and `WindowsAreStable` are of single steps: `QuarantineKeeps`, that a
    damaged log is added to the copies; `WindowsExtend`, by `Induction` on the number of
    appended turns.
  * `CapIsHonoured` (`Capping`): while an append drops sessions, what it has dropped has neither
    a file nor a copy, and what it is to keep has a file (`Dropping`).  `Total`, the
    bytes of the sessions together, is a number of pairs, so that fewer sessions fit where more
    do (`FitsLess`) follows from the library's cardinalities.  `RestFits` and `DropsOldest` say
    of the choice that what is left fits and what goes is oldest and no more than needed.

Only model-checked are, first, `ModelReached`: that the closures which are synthesized, and
the seeded ones a query with a constant gets instead, answer as the transitive closures of the
rules as they were written.  Its reference, `LeastModel`, is recursive, which keeps
DatalogMeaning out of the provers' reach; what `EvaluationIsTheModel` shows begins with the rules
after that expansion.  Second, everything under fairness: `WaitEnds`, `AbandonedLockFreed`,
`PendingResolved` and `CallsEnd`.

## Not modelled

* The namespace cache and its `mtime:size` stamp: whether two writes get the same stamp
  depends on the clock of the file system.
* Byte limits besides the number of entries; symbolic-link refusals; parse errors of
  files edited by hand.
* Power failure: the code does not call `fsync`, and a killed process loses nothing the
  system calls have done.
* Reuse of a dead owner's pid, which keeps a lock file alive until the new process ends.
* Check gates (`check-enforcement.ts`), which refuse a candidate like integrity does.
* Auto-capture: installing the hook in the settings of the client, parsing transcripts, the
  session brief.
* Sessions: turns without a time stamp, which get the time of the hook.
* Ledger: evidence, contracts and the diffs of versions, which are data of a review.
* Projection: the migration from files, `dispose`, SQLite itself.
* Engine: the parser, comparisons and arithmetic, aggregates other than count, alternative
  proofs, the visits of the query itself.
* The components PROJECT.json lists as `not_modelled`, for the reasons given there: pure
  functions of a snapshot, remote calls and transport, numeric kernels, batch pipelines, and
  evaluations, which with the site and the tests are most of the repository's lines.

## Plan

What is left, in order of what it would add:

1. A proof that expanding closures keeps the answers: that the rules of `SeededClauses` derive
   the pairs of `Reachable` that begin with their constant, from `EvaluationIsTheModel` and a
   reference for the closure that is a function and not recursive.
2. The namespace cache as a variable of MutationCommit, with a clock that may stand still
   between two writes.
3. A module of the pure algorithms of `src/knowledge` that decide what is kept: repair plans
   and bundles against the definitions of what they promise.
