--------------------------- MODULE MutationCommit ---------------------------
(***************************************************************************)
(* How src/store/store.ts carries out a mutation: under the mutation lock  *)
(* and the journal lock it reads, decides, publishes a marker, swaps the   *)
(* namespace file through .next and .before, appends to the journal, and   *)
(* removes the marker; a constructor, a snapshot or a later mutation that  *)
(* finds the marker completes or rolls back what was interrupted.  One     *)
(* step per system call that changes a file another process may read.      *)
(*                                                                         *)
(* A file holds a set of clauses, or NoFile.  Files written under a random *)
(* name and renamed (the journal, the marker) change in one step.  That    *)
(* the locks exclude is assumed here; FileLock says when they do not.  The *)
(* lock of a killed process is Abandoned until a process that may wait out *)
(* its staleness takes it over.                                            *)
(***************************************************************************)
EXTENDS StoreOperations

CONSTANTS
  Procs,              \* processes that open the store
  LongLived,          \* those whose instance may outlive a stale lock
                      \* (a server; a command that waits for a model's answer)
  MaxJournalEntries,  \* MAX_JOURNAL_ENTRIES
  MaxFailures,        \* bound: kills and failing system calls in a behaviour
  CleanupCanFail,     \* whether a system call of the recovery itself may fail
  StatCanFail,        \* whether the lstat after the journal's rename may fail
  NoFile, Torn, Free, Abandoned, Construct, Snapshot

\* A marker, and what a mutation prepares; `settled` is history: whether it was
\* decided on what is durable.
Marker == [ns : Namespaces, hadPrevious : BOOLEAN, entry : Entry]
Draft == [entry : Entry, body : SUBSET Clauses, settled : BOOLEAN]

ASSUME MutationCommitAssumption ==
  /\ LongLived \subseteq Procs
  /\ MaxJournalEntries \in Nat
  /\ MaxFailures \in Nat
  /\ CleanupCanFail \in BOOLEAN
  /\ StatCanFail \in BOOLEAN
  /\ \A content \in SUBSET Clauses : content \notin {NoFile, Torn}
  /\ Torn # NoFile
  /\ NoFile \notin Marker
  /\ {Free, Abandoned} \cap Procs = {}
  /\ Free # Abandoned
  /\ {Construct, Snapshot} \cap (Requests \cup Namespaces) = {}
  /\ Construct # Snapshot

VARIABLES
  dl,            \* namespace -> content of <namespace>.dl
  next,          \* content of .pending-mutation.next, Torn when half written
  backup,        \* content of .pending-mutation.before
  pending,       \* content of .pending-mutation.json
  journal,       \* content of journal.log
  mutationLock,  \* the process that holds it, or Free or Abandoned
  journalLock,
  failures,      \* kills and failed system calls so far
  pc,            \* process -> what it does next
  task,          \* process -> the call in progress: a request, a namespace
                 \* (note), Construct or Snapshot
  draft,         \* process -> the journal entry and the file body it prepares
  onward,        \* process -> the step after a recovery
  snap           \* process -> the part of a knowledgeSnapshot loaded so far

files == <<dl, next, backup, pending, journal>>
locks == <<mutationLock, journalLock>>
locals == <<task, draft, onward, snap>>
vars == <<files, locks, failures, pc, locals>>

\* The steps of commitMutation, and of the recovery routines it calls.
Commit == {"prepare", "publish", "setAside", "install", "append"}
Recovery == {"recover", "dropBackup", "dropTarget", "restore", "dropNext", "dropMarker"}
Endings == {"done", "failed", "stuck", "leaveJournal"}
Steps == Commit \cup Recovery \cup Endings
         \cup {"off", "ready", "lockMutation", "lockJournal", "lockForNote", "note",
               "decide", "load", "unlock", "unlockFailed"}

Tasks == Requests \cup Namespaces \cup {Construct, Snapshot}

\* The namespaces a snapshot has loaded so far.
PartialKnowledge == UNION {[D -> SUBSET Clauses] : D \in SUBSET Namespaces}
NothingLoaded == [n \in {} |-> {}]

Goto(p, step) == pc' = [pc EXCEPT ![p] = step]

\* readFileSync of a namespace; every read error counts as an empty namespace.
Load(n) == IF dl[n] = NoFile THEN {} ELSE dl[n]
Loaded == [n \in Namespaces |-> Load(n)]

\* A snapshot with one more namespace loaded.
LoadMore(loaded, n) ==
  [m \in DOMAIN loaded \cup {n} |-> IF m = n THEN Load(n) ELSE loaded[m]]

Committed == pending # NoFile /\ pending.entry \in {journal[i] : i \in DOMAIN journal}

\* The clauses a namespace has once an interrupted mutation is resolved: the
\* old ones until the journal has the entry, the new ones from then on.
Durable(n) ==
  IF pending # NoFile /\ pending.ns = n /\ ~Committed
  THEN IF backup # NoFile THEN backup
       ELSE IF pending.hadPrevious THEN Load(n) ELSE {}
  ELSE Load(n)

DurableKnowledge == [n \in Namespaces |-> Durable(n)]

Init ==
  /\ dl = [n \in Namespaces |-> NoFile]
  /\ next = NoFile
  /\ backup = NoFile
  /\ pending = NoFile
  /\ journal = <<>>
  /\ mutationLock = Free
  /\ journalLock = Free
  /\ failures = 0
  /\ pc = [p \in Procs |-> "off"]
  /\ task = [p \in Procs |-> Construct]
  /\ draft = [p \in Procs |-> NoFile]
  /\ onward = [p \in Procs |-> "done"]
  /\ snap = [p \in Procs |-> NothingLoaded]
-----------------------------------------------------------------------------
(* Calls and locks                                                         *)

\* A process starts and opens the store.
Start(p) ==
  /\ pc[p] = "off"
  /\ Goto(p, "lockMutation")
  /\ UNCHANGED <<files, locks, failures, locals>>

\* A process that opened the store calls a mutation or knowledgeSnapshot, ...
Call(p) ==
  /\ pc[p] = "ready"
  /\ \E t \in Requests \cup {Snapshot} : task' = [task EXCEPT ![p] = t]
  /\ Goto(p, "lockMutation")
  /\ UNCHANGED <<files, locks, failures, draft, onward, snap>>

\* ... or note, which takes the journal lock only ...
CallNote(p) ==
  /\ pc[p] = "ready"
  /\ \E n \in Namespaces : task' = [task EXCEPT ![p] = n]
  /\ Goto(p, "lockForNote")
  /\ UNCHANGED <<files, locks, failures, draft, onward, snap>>

\* ... or ends.
Exit(p) ==
  /\ pc[p] = "ready"
  /\ Goto(p, "off")
  /\ UNCHANGED <<files, locks, failures, locals>>

\* The process is ready for another call.  A command whose call failed, and a
\* process whose constructor threw, exit instead.
Return(p, failed) ==
  /\ Goto(p, IF failed /\ (task[p] = Construct \/ p \notin LongLived)
             THEN "off" ELSE "ready")
  /\ task' = [task EXCEPT ![p] = Construct]
  /\ draft' = [draft EXCEPT ![p] = NoFile]
  /\ onward' = [onward EXCEPT ![p] = "done"]
  /\ snap' = [snap EXCEPT ![p] = NothingLoaded]

\* withLock succeeds on a free lock.  An abandoned one is taken over by the
\* constructor of a process that starts after it went stale, or by a process
\* whose instance has been alive since before.
MayTake(p, lock) ==
  \/ lock = Free
  \/ lock = Abandoned /\ (task[p] = Construct \/ p \in LongLived)

LockMutation(p) ==
  /\ pc[p] = "lockMutation"
  /\ MayTake(p, mutationLock)
  /\ mutationLock' = p
  /\ Goto(p, "lockJournal")
  /\ UNCHANGED <<files, journalLock, failures, locals>>

\* Mutation of LockJournal: the constructor does not recover.
LockJournalWithoutRecovery(p) ==
  /\ pc[p] = "lockJournal"
  /\ MayTake(p, journalLock)
  /\ journalLock' = p
  /\ Goto(p, IF task[p] \in Requests THEN "decide"
             ELSE IF task[p] = Snapshot THEN "leaveJournal" ELSE "done")
  /\ onward' = [onward EXCEPT ![p] =
                  IF task[p] = Snapshot THEN "leaveJournal" ELSE "done"]
  /\ UNCHANGED <<files, mutationLock, failures, task, draft, snap>>

LockJournal(p) ==
  /\ pc[p] = "lockJournal"
  /\ MayTake(p, journalLock)
  /\ journalLock' = p
  /\ Goto(p, IF task[p] \in Requests THEN "decide" ELSE "recover")
  /\ onward' = [onward EXCEPT ![p] =
                  IF task[p] = Snapshot THEN "leaveJournal" ELSE "done"]
  /\ UNCHANGED <<files, mutationLock, failures, task, draft, snap>>

LockForNote(p) ==
  /\ pc[p] = "lockForNote"
  /\ MayTake(p, journalLock)
  /\ journalLock' = p
  /\ Goto(p, "note")
  /\ UNCHANGED <<files, mutationLock, failures, locals>>

\* Mutation of TimeOut: a process that has the mutation lock waits on.
TimeOutOfFirstLock(p) ==
  /\ \/ pc[p] = "lockMutation" /\ mutationLock # Free
     \/ pc[p] = "lockForNote" /\ journalLock # Free
  /\ Return(p, TRUE)
  /\ UNCHANGED <<files, locks, failures>>

\* withLock throws at its deadline.
TimeOut(p) ==
  /\ \/ /\ pc[p] = "lockMutation" /\ mutationLock # Free
        /\ Return(p, TRUE)
     \/ /\ pc[p] = "lockForNote" /\ journalLock # Free
        /\ Return(p, TRUE)
     \/ /\ pc[p] = "lockJournal" /\ journalLock # Free
        /\ Goto(p, "unlockFailed")
        /\ UNCHANGED locals
  /\ UNCHANGED <<files, locks, failures>>

\* The journal lock is released: the call returned or threw, or a snapshot has
\* made sure that no mutation is pending ...
LeaveJournal(p) ==
  /\ pc[p] \in Endings
  /\ journalLock' = Free
  /\ Goto(p, CASE pc[p] = "done" -> "unlock"
               [] pc[p] = "leaveJournal" -> "load"
               [] OTHER -> "unlockFailed")
  /\ UNCHANGED <<files, mutationLock, failures, locals>>

\* ... and then the mutation lock.
Unlock(p) ==
  /\ pc[p] \in {"unlock", "unlockFailed"}
  /\ mutationLock' = Free
  /\ Return(p, pc[p] = "unlockFailed")
  /\ UNCHANGED <<files, journalLock, failures>>

\* The process is killed.  Its files and lock files stay as they are.
Crash(p) ==
  /\ pc[p] # "off"
  /\ failures < MaxFailures
  /\ failures' = failures + 1
  /\ Goto(p, "off")
  /\ mutationLock' = IF mutationLock = p THEN Abandoned ELSE mutationLock
  /\ journalLock' = IF journalLock = p THEN Abandoned ELSE journalLock
  /\ task' = [task EXCEPT ![p] = Construct]
  /\ draft' = [draft EXCEPT ![p] = NoFile]
  /\ onward' = [onward EXCEPT ![p] = "done"]
  /\ snap' = [snap EXCEPT ![p] = NothingLoaded]
  /\ UNCHANGED files
-----------------------------------------------------------------------------
(* Deciding, and the calls that do not write a namespace                   *)

\* The retry lookup, the load, the enforcement, and the journal-only append of
\* a call that changes nothing: all under both locks.
Decide(p) ==
  LET req == task[p]
      outcome == Outcome(req, Loaded, journal)
      entry == EntryOf(req, Loaded, journal)
      full == Len(journal) >= MaxJournalEntries
  IN
  /\ pc[p] = "decide"
  /\ \/ /\ outcome \in {"conflict", "refused"} \/ (outcome = "record" /\ full)
        /\ Goto(p, "failed")
        /\ UNCHANGED <<journal, draft, onward>>
     \/ /\ outcome \in {"replay", "nothing"}
        /\ Goto(p, "done")
        /\ UNCHANGED <<journal, draft, onward>>
     \/ /\ outcome = "record" /\ ~full
        /\ journal' = Append(journal, entry)
        /\ Goto(p, "done")
        /\ UNCHANGED <<draft, onward>>
     \/ /\ outcome = "change"
        /\ draft' = [draft EXCEPT ![p] =
                        [entry |-> entry, body |-> Candidate(req, Load(req.ns)),
                         settled |-> Loaded = DurableKnowledge]]
        /\ onward' = [onward EXCEPT ![p] = "prepare"]
        /\ Goto(p, "recover")
        /\ UNCHANGED journal
  /\ UNCHANGED <<dl, next, backup, pending, locks, failures, task, snap>>

\* note appends, or throws when the journal is full, and releases its lock.
Note(p) ==
  /\ pc[p] = "note"
  /\ \/ /\ Len(journal) < MaxJournalEntries
        /\ journal' = Append(journal, NoteEntry(task[p], journal))
        /\ Return(p, FALSE)
     \/ /\ Len(journal) >= MaxJournalEntries
        /\ Return(p, TRUE)
        /\ UNCHANGED journal
  /\ journalLock' = Free
  /\ UNCHANGED <<dl, next, backup, pending, mutationLock, failures>>

\* knowledgeSnapshot loads the namespaces one after the other; the journal
\* lock is free again, the mutation lock is not.
SnapshotLoad(p) ==
  /\ pc[p] = "load"
  /\ \E n \in Namespaces \ DOMAIN snap[p] :
       snap' = [snap EXCEPT ![p] = LoadMore(@, n)]
  /\ UNCHANGED <<files, locks, failures, pc, task, draft, onward>>

SnapshotReturn(p) ==
  /\ pc[p] = "load"
  /\ DOMAIN snap[p] = Namespaces
  /\ Goto(p, "unlock")
  /\ UNCHANGED <<files, locks, failures, locals>>
-----------------------------------------------------------------------------
(* commitMutation                                                          *)

\* A system call fails: the code it stands in throws.
Fault == failures < MaxFailures /\ failures' = failures + 1
\* Mutation of RollBack: a new file without predecessor is left in place.
RollBackToPredecessor(p) ==
  Goto(p, IF backup # NoFile THEN "dropTarget" ELSE "dropNext")

\* rollbackPendingMutationUnlocked begins: the previous file is in .before, or
\* there was none, or the target has not been touched.
RollBack(p) ==
  Goto(p, IF backup # NoFile \/ ~pending.hadPrevious THEN "dropTarget"
          ELSE IF dl[pending.ns] = NoFile THEN "stuck" ELSE "dropNext")

\* The catch block of commitMutation before the journal has the entry.
RollBackAndThrow(p) == RollBack(p) /\ onward' = [onward EXCEPT ![p] = "failed"]

\* writeFileSync(.next), outside any try block: a write that fails leaves a
\* torn file behind, which the next recovery discards.
Prepare(p) ==
  /\ pc[p] = "prepare"
  /\ \/ /\ next # NoFile \/ backup # NoFile \/ pending # NoFile
        /\ Goto(p, "failed")
        /\ UNCHANGED <<next, failures>>
     \/ /\ next = NoFile /\ backup = NoFile /\ pending = NoFile
        /\ \/ next' = draft[p].body /\ Goto(p, "publish") /\ UNCHANGED failures
           \/ next' = Torn /\ Goto(p, "failed") /\ Fault
  /\ UNCHANGED <<dl, backup, pending, journal, locks, locals>>

\* The marker is written under a temporary name and renamed.
Publish(p) ==
  LET n == draft[p].entry.ns IN
  /\ pc[p] = "publish"
  /\ \/ /\ pending' = [ns |-> n, hadPrevious |-> dl[n] # NoFile,
                       entry |-> draft[p].entry]
        /\ Goto(p, IF dl[n] # NoFile THEN "setAside" ELSE "install")
        /\ UNCHANGED <<next, failures>>
     \/ next' = NoFile /\ Goto(p, "failed") /\ Fault /\ UNCHANGED pending
  /\ UNCHANGED <<dl, backup, journal, locks, locals>>

\* renameSync(target, backup).
SetAside(p) ==
  LET n == draft[p].entry.ns IN
  /\ pc[p] = "setAside"
  /\ \/ /\ backup' = dl[n]
        /\ dl' = [dl EXCEPT ![n] = NoFile]
        /\ Goto(p, "install")
        /\ UNCHANGED <<onward, failures>>
     \/ RollBackAndThrow(p) /\ Fault /\ UNCHANGED <<dl, backup>>
  /\ UNCHANGED <<next, pending, journal, locks, task, draft, snap>>

\* renameSync(next, target).
Install(p) ==
  LET n == draft[p].entry.ns IN
  /\ pc[p] = "install"
  /\ \/ /\ dl' = [dl EXCEPT ![n] = next]
        /\ next' = NoFile
        /\ Goto(p, "append")
        /\ UNCHANGED <<onward, failures>>
     \/ RollBackAndThrow(p) /\ Fault /\ UNCHANGED <<dl, next>>
  /\ UNCHANGED <<backup, pending, journal, locks, task, draft, snap>>

\* Mutation of AppendJournal: the backup is not removed after the commit.
AppendJournalKeepingBackup(p) ==
  /\ pc[p] = "append"
  /\ Len(journal) < MaxJournalEntries
  /\ journal' = Append(journal, draft[p].entry)
  /\ Goto(p, "dropNext")
  /\ onward' = [onward EXCEPT ![p] = "done"]
  /\ UNCHANGED <<dl, next, backup, pending, locks, failures, task, draft, snap>>

\* appendJournalUnlocked: its rename is the commit.  An error of the lstat
\* that follows the rename is handled like an error before it.
AppendJournal(p) ==
  /\ pc[p] = "append"
  /\ \/ /\ Len(journal) < MaxJournalEntries
        /\ journal' = Append(journal, draft[p].entry)
        /\ \/ /\ Goto(p, "dropBackup")
              /\ onward' = [onward EXCEPT ![p] = "done"]
              /\ UNCHANGED failures
           \/ StatCanFail /\ RollBackAndThrow(p) /\ Fault
     \/ /\ Len(journal) >= MaxJournalEntries
        /\ RollBackAndThrow(p)
        /\ UNCHANGED <<journal, failures>>
     \/ RollBackAndThrow(p) /\ Fault /\ UNCHANGED journal
  /\ UNCHANGED <<dl, next, backup, pending, locks, task, draft, snap>>
-----------------------------------------------------------------------------
(* recoverPendingMutationUnlocked, and the routines it and commitMutation  *)
(* share                                                                   *)

\* The marker is read and, if there is one, looked up in the journal.
Recover(p) ==
  /\ pc[p] = "recover"
  /\ \/ /\ pending = NoFile /\ backup # NoFile
        /\ Goto(p, "stuck")
        /\ UNCHANGED next
     \/ /\ pending = NoFile /\ backup = NoFile
        /\ next' = NoFile
        /\ Goto(p, onward[p])
     \/ /\ pending # NoFile /\ Committed
        /\ Goto(p, IF dl[pending.ns] = NoFile THEN "stuck" ELSE "dropBackup")
        /\ UNCHANGED next
     \/ /\ pending # NoFile /\ ~Committed
        /\ RollBack(p)
        /\ UNCHANGED next
  /\ UNCHANGED <<dl, backup, pending, journal, locks, failures, locals>>

\* A system call of these routines fails.  When the call's own mutation has
\* just been journaled, the catch block recovers and then throws; otherwise
\* the error is thrown and the marker stays for a later recovery.
CleanupFails(p) ==
  /\ pc[p] \in Recovery \ {"recover"}
  /\ Fault
  /\ \/ /\ task[p] \in Requests /\ onward[p] = "done"
        /\ Goto(p, "recover")
        /\ onward' = [onward EXCEPT ![p] = "failed"]
     \/ /\ CleanupCanFail
        /\ ~(task[p] \in Requests /\ onward[p] = "done")
        /\ Goto(p, "failed")
        /\ UNCHANGED onward
  /\ UNCHANGED <<files, locks, task, draft, snap>>

\* complete...: unlink(backup) first.
DropBackup(p) ==
  /\ pc[p] = "dropBackup"
  /\ backup' = NoFile
  /\ Goto(p, "dropNext")
  /\ UNCHANGED <<dl, next, pending, journal, locks, failures, locals>>

\* rollback...: unlink(target), to be replaced by the backup if there is one.
DropTarget(p) ==
  /\ pc[p] = "dropTarget"
  /\ dl' = [dl EXCEPT ![pending.ns] = NoFile]
  /\ Goto(p, IF backup # NoFile THEN "restore" ELSE "dropNext")
  /\ UNCHANGED <<next, backup, pending, journal, locks, failures, locals>>

\* Mutation of Restore: the interrupted file wins over its backup.
RestoreNothing(p) ==
  /\ pc[p] = "restore"
  /\ backup' = NoFile
  /\ Goto(p, "dropNext")
  /\ UNCHANGED <<dl, next, pending, journal, locks, failures, locals>>

\* renameSync(backup, target).
Restore(p) ==
  /\ pc[p] = "restore"
  /\ dl' = [dl EXCEPT ![pending.ns] = backup]
  /\ backup' = NoFile
  /\ Goto(p, "dropNext")
  /\ UNCHANGED <<next, pending, journal, locks, failures, locals>>

\* Both end with unlink(next) and, last, unlink(marker).
DropNext(p) ==
  /\ pc[p] = "dropNext"
  /\ next' = NoFile
  /\ Goto(p, "dropMarker")
  /\ UNCHANGED <<dl, backup, pending, journal, locks, failures, locals>>

DropMarker(p) ==
  /\ pc[p] = "dropMarker"
  /\ pending' = NoFile
  /\ Goto(p, onward[p])
  /\ UNCHANGED <<dl, next, backup, journal, locks, failures, locals>>
-----------------------------------------------------------------------------
\* The steps the code itself takes once it was called.
Work(p) ==
  \/ LockMutation(p) \/ LockJournal(p) \/ LockForNote(p) \/ TimeOut(p)
  \/ LeaveJournal(p) \/ Unlock(p)
  \/ Decide(p) \/ Note(p) \/ SnapshotLoad(p) \/ SnapshotReturn(p)
  \/ Prepare(p) \/ Publish(p) \/ SetAside(p) \/ Install(p) \/ AppendJournal(p)
  \/ Recover(p) \/ CleanupFails(p) \/ DropBackup(p) \/ DropTarget(p)
  \/ Restore(p) \/ DropNext(p) \/ DropMarker(p)

Next ==
  \E p \in Procs :
    Start(p) \/ Call(p) \/ CallNote(p) \/ Exit(p) \/ Crash(p) \/ Work(p)

Spec == Init /\ [][Next]_vars

\* Every process is scheduled and the store is opened again after a crash.  A
\* process that polls a lock for LOCK_WAIT_MS again and again gets it in the end:
\* an abandoned lock goes stale, and holders keep it for a few milliseconds.
Fairness ==
  \A p \in Procs :
    /\ WF_vars(Work(p)) /\ WF_vars(Start(p))
    /\ SF_vars(LockMutation(p)) /\ SF_vars(LockJournal(p))

FairSpec == Spec /\ Fairness
-----------------------------------------------------------------------------
VariableTypes ==
  /\ dl \in [Namespaces -> {NoFile} \cup SUBSET Clauses]
  /\ next \in {NoFile, Torn} \cup SUBSET Clauses
  /\ backup \in {NoFile} \cup SUBSET Clauses
  /\ pending \in {NoFile} \cup Marker
  /\ journal \in Seq(Entry)
  /\ mutationLock \in Procs \cup {Free, Abandoned}
  /\ journalLock \in Procs \cup {Free, Abandoned}
  /\ failures \in 0..MaxFailures
  /\ pc \in [Procs -> Steps]
  /\ task \in [Procs -> Tasks]
  /\ draft \in [Procs -> {NoFile} \cup Draft]
  /\ onward \in [Procs -> {"prepare", "leaveJournal", "done", "failed"}]
  /\ snap \in [Procs -> PartialKnowledge]

\* In particular, a torn file is never installed as a namespace.
TypeOK ==
  /\ \A n \in Namespaces : dl[n] # Torn
  /\ VariableTypes

\* No interruption, whatever it interrupts, ever leaves files that the
\* recovery refuses: none of the three errors that ask for manual repair is
\* thrown, and a mutation never finds the files of an unresolved one.
RecoverySucceeds ==
  \A p \in Procs :
    /\ pc[p] # "stuck"
    /\ pc[p] = "prepare" => next = NoFile /\ backup = NoFile /\ pending = NoFile

\* A knowledgeSnapshot is the durable knowledge of one moment, although it
\* loads its namespaces one by one and other processes come and go.
SnapshotConsistent ==
  \A p \in Procs : pc[p] = "load" =>
    \A n \in DOMAIN snap[p] : snap[p][n] = Durable(n)

\* Nothing but a journaled mutation changes what is durable: no crash, error,
\* rollback or recovery adds, loses or resurrects a clause.
OnlyCommitsChange ==
  [][DurableKnowledge' # DurableKnowledge => Len(journal') = Len(journal) + 1]_vars

\* Retrying a caller-supplied operation id never journals it twice, even when
\* the first attempt died at any of its steps or its answer was lost.
OncePerOperation ==
  \A i, j \in DOMAIN journal :
    /\ journal[i].id \in OperationIds
    /\ journal[i].op = journal[j].op
    /\ journal[i].ns = journal[j].ns
    /\ journal[i].id = journal[j].id
    => i = j

Store == INSTANCE KnowledgeStore WITH kb <- DurableKnowledge, log <- journal

\* A mutation loads before it recovers.  Decided on the files of a mutation that was
\* still unresolved, it takes effect whole all the same: the namespace is what was
\* decided, and the entry is what was decided.
TakesEffectUnsettled(p) ==
  \/ /\ pc[p] = "append" /\ ~draft[p].settled
     /\ DurableKnowledge' = [DurableKnowledge EXCEPT ![draft[p].entry.ns] = draft[p].body]
     /\ journal' = Append(journal, draft[p].entry)
  \/ /\ pc[p] = "decide" /\ Loaded # DurableKnowledge
     /\ journal' = Append(journal, EntryOf(task[p], Loaded, journal))
     /\ UNCHANGED DurableKnowledge

\* The files, the marker and the recovery implement the atomic store, whoever dies,
\* outlives a dead one's lock or fails to recover: every step that is seen is one call
\* as the atomic store would decide it, or one decided on an unresolved mutation,
\* and nothing else is ever seen (withMutationLock, commitMutation).
ImplementsSettled ==
  /\ Store!Init
  /\ [][Store!Next \/ \E p \in Procs : TakesEffectUnsettled(p)]_(Store!vars)

\* An interrupted mutation does not stay unresolved as long as the store is
\* opened again.
PendingResolved == pending # NoFile ~> pending = NoFile

\* Every call ends: processes that wait for each other's locks, dead owners
\* and failing recoveries included.
CallsEnd == \A p \in Procs : pc[p] \in {"lockMutation", "lockForNote"} ~> pc[p] \in {"ready", "off"}
=============================================================================
