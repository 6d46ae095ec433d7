------------------------ MODULE MutationCommitProofs ------------------------
(***************************************************************************)
(* For every number of processes, namespaces, clauses and calls, killed at *)
(* any step and with system calls failing: the variables keep their types, *)
(* so that a torn file is never installed; the recovery never meets files  *)
(* it refuses; a caller's operation id is journaled once; only a journaled *)
(* mutation changes what is durable; snapshots are consistent; and the     *)
(* files implement the atomic store, but for the calls decided on the      *)
(* files of an unresolved mutation, which take effect whole.               *)
(***************************************************************************)
EXTENDS MutationCommit, StoreOperationsProofs, TLAPS

\* The steps at which a process owns each lock.
MutexSteps == Commit \cup Recovery \cup Endings
              \cup {"lockJournal", "decide", "load", "unlock", "unlockFailed"}
JournalSteps == Commit \cup Recovery \cup Endings \cup {"decide", "note"}

Owners == \A p \in Procs :
  /\ pc[p] \in MutexSteps => mutationLock = p
  /\ pc[p] \in JournalSteps => journalLock = p

\* What a process prepared before the step it is at.
Prepared == \A p \in Procs :
  /\ pc[p] = "decide" => task[p] \in Requests
  /\ pc[p] \in {"lockForNote", "note"} => task[p] \in Namespaces
  /\ pc[p] \in Commit => onward[p] = "prepare"
  /\ pc[p] \in Commit \cup Recovery /\ onward[p] = "prepare" => draft[p] \in Draft
  /\ pc[p] \in {"publish", "setAside", "install"} => next \in SUBSET Clauses

TypeInv == VariableTypes /\ Owners /\ Prepared

\* An entry about to be committed is new to the journal.
FreshDraftOf(p) ==
  pc[p] \in Commit \cup Recovery /\ onward[p] = "prepare" =>
    /\ Effective(draft[p].entry)
    /\ ~InLog(draft[p].entry, journal)
    /\ draft[p].entry.id \in Nat => draft[p].entry.id = Len(journal) + 1
FreshDraft == \A p \in Procs : FreshDraftOf(p)

\* What the marker guarantees of the other files.
MarkerSound ==
  /\ backup # NoFile => pending # NoFile /\ pending.hadPrevious
  /\ pending # NoFile =>
       /\ Effective(pending.entry)
       /\ Committed \/ (pending.hadPrevious /\ backup = NoFile) =>
            dl[pending.ns] # NoFile

\* The files at each step of a commit and of a recovery.
OwnMarker(p) ==
  pending # NoFile /\ pending.ns = draft[p].entry.ns /\ pending.entry = draft[p].entry

StepSoundAt(p) ==
  /\ pc[p] # "stuck"
  /\ pc[p] = "prepare" => next = NoFile
  /\ pc[p] \in {"prepare", "publish"} => backup = NoFile /\ pending = NoFile
  /\ pc[p] \in {"setAside", "install", "append"} => OwnMarker(p) /\ ~Committed
  /\ pc[p] = "setAside" => pending.hadPrevious /\ backup = NoFile
  /\ pc[p] = "install" => (pending.hadPrevious => backup # NoFile)
  /\ pc[p] = "append" => dl[pending.ns] # NoFile
  /\ pc[p] = "dropBackup" => pending # NoFile /\ Committed
  /\ pc[p] = "dropTarget" =>
       pending # NoFile /\ ~Committed /\ (backup # NoFile \/ ~pending.hadPrevious)
  /\ pc[p] = "restore" => pending # NoFile /\ ~Committed /\ backup # NoFile
  /\ pc[p] \in {"dropNext", "dropMarker"} => pending # NoFile /\ backup = NoFile
  /\ pc[p] = "dropMarker" => next = NoFile
StepSound == \A p \in Procs : StepSoundAt(p)

FilesSound == IdsBelow(journal) /\ FreshDraft /\ MarkerSound /\ StepSound

RecoveryInv == TypeInv /\ FilesSound
-----------------------------------------------------------------------------
(* Types                                                                   *)

LEMMA NothingLoadedType == NothingLoaded \in PartialKnowledge
<1>1. NothingLoaded \in [{} -> SUBSET Clauses]
  BY DEF NothingLoaded
<1> QED BY <1>1 DEF PartialKnowledge

\* Loading one more namespace extends what was loaded.
LEMMA LoadMoreType ==
  ASSUME NEW loaded \in PartialKnowledge, NEW n \in Namespaces, Load(n) \in SUBSET Clauses
  PROVE  LoadMore(loaded, n) \in PartialKnowledge
<1>1. PICK D \in SUBSET Namespaces : loaded \in [D -> SUBSET Clauses]
  BY DEF PartialKnowledge
<1>2. LoadMore(loaded, n) \in [D \cup {n} -> SUBSET Clauses]
  BY <1>1 DEF LoadMore
<1> QED BY <1>2 DEF PartialKnowledge

LEMMA MarkerType ==
  ASSUME NEW n \in Namespaces, NEW e \in Entry, NEW hadPrevious \in BOOLEAN
  PROVE  [ns |-> n, hadPrevious |-> hadPrevious, entry |-> e] \in Marker
BY DEF Marker

LEMMA InitTypeInv == Init => TypeInv
BY MutationCommitAssumption, NothingLoadedType
DEF Init, TypeInv, VariableTypes, Owners, Prepared, MutexSteps, JournalSteps, Steps,
    Commit, Recovery, Endings, Tasks

LEMMA LoadTypes ==
  ASSUME VariableTypes
  PROVE  /\ Loaded \in Knowledge
         /\ \A n \in Namespaces : Load(n) \in SUBSET Clauses /\ Loaded[n] = Load(n)
BY DEF VariableTypes, Loaded, Load, Knowledge

LEMMA TypeStep == TypeInv /\ [Next]_vars => TypeInv'
<1> SUFFICES ASSUME TypeInv, [Next]_vars PROVE TypeInv'
  OBVIOUS
<1> USE MutationCommitAssumption
    DEF TypeInv, VariableTypes, Owners, Prepared, MutexSteps, JournalSteps, Steps,
        Commit, Recovery, Endings, Tasks, Goto, files, locks, locals
<1>1. ASSUME NEW p \in Procs, Start(p) PROVE TypeInv'
  BY <1>1 DEF Start
<1>2. ASSUME NEW p \in Procs, Call(p) PROVE TypeInv'
  BY <1>2 DEF Call
<1>3. ASSUME NEW p \in Procs, CallNote(p) PROVE TypeInv'
  BY <1>3 DEF CallNote
<1>4. ASSUME NEW p \in Procs, Exit(p) PROVE TypeInv'
  BY <1>4 DEF Exit
<1>5. ASSUME NEW p \in Procs, Crash(p) PROVE TypeInv'
  BY <1>5, NothingLoadedType DEF Crash
<1>6. ASSUME NEW p \in Procs, LockMutation(p) PROVE TypeInv'
  BY <1>6 DEF LockMutation, MayTake
<1>7. ASSUME NEW p \in Procs, LockJournal(p) PROVE TypeInv'
  BY <1>7 DEF LockJournal, MayTake
<1>8. ASSUME NEW p \in Procs, LockForNote(p) PROVE TypeInv'
  BY <1>8 DEF LockForNote, MayTake
<1>9. ASSUME NEW p \in Procs, TimeOut(p) PROVE TypeInv'
  BY <1>9, NothingLoadedType DEF TimeOut, Return
<1>10. ASSUME NEW p \in Procs, LeaveJournal(p) PROVE TypeInv'
  BY <1>10 DEF LeaveJournal
<1>11. ASSUME NEW p \in Procs, Unlock(p) PROVE TypeInv'
  BY <1>11, NothingLoadedType DEF Unlock, Return
<1>12. ASSUME NEW p \in Procs, Decide(p) PROVE TypeInv'
  <2> DEFINE req == task[p]
             entry == EntryOf(req, Loaded, journal)
             outcome == Outcome(req, Loaded, journal)
  <2>1. req \in Requests
    BY <1>12 DEF Decide
  <2>2. entry \in Entry /\ Candidate(req, Load(req.ns)) \in SUBSET Clauses
    BY <2>1, LoadTypes, EntryTypes, EffectTypes, RequestFields
  <2>3. \/ UNCHANGED <<journal, draft, onward>>
        \/ journal' = Append(journal, entry) /\ UNCHANGED <<draft, onward>>
        \/ /\ draft' = [draft EXCEPT ![p] = [entry |-> entry,
                                             body |-> Candidate(req, Load(req.ns)),
                                             settled |-> Loaded = DurableKnowledge]]
           /\ onward' = [onward EXCEPT ![p] = "prepare"]
           /\ UNCHANGED journal
    BY <1>12 DEF Decide
  <2>4. journal' \in Seq(Entry) /\ draft' \in [Procs -> {NoFile} \cup Draft]
    <3>1. [entry |-> entry, body |-> Candidate(req, Load(req.ns)),
           settled |-> Loaded = DurableKnowledge] \in Draft
      BY <2>2 DEF Draft
    <3>2. draft' \in [Procs -> {NoFile} \cup Draft]
      BY <2>3, <3>1
    <3>3. journal' \in Seq(Entry)
      <4>1. journal' = journal \/ journal' = Append(journal, entry)
        BY <2>3
      <4> HIDE DEF entry
      <4> QED BY <2>2, <4>1
    <3> QED BY <3>2, <3>3
  <2>5. /\ pc' \in [Procs -> Steps]
        /\ \A q \in Procs : q # p => pc'[q] = pc[q]
        /\ pc'[p] \in {"failed", "done", "recover"}
    BY <1>12 DEF Decide
  <2>6. \A q \in Procs : q # p => draft'[q] = draft[q] /\ onward'[q] = onward[q]
    BY <2>3
  <2>7. pc[p] = "decide" /\ UNCHANGED <<dl, next, backup, pending, locks, failures, task, snap>>
    BY <1>12 DEF Decide
  <2>8. onward' \in [Procs -> {"prepare", "leaveJournal", "done", "failed"}]
    BY <2>3
  <2>9. VariableTypes'
    BY <2>4, <2>5, <2>7, <2>8
  <2>10. Owners'
    BY <2>5, <2>7
  <2>11. pc'[p] \in Commit \cup Recovery /\ onward'[p] = "prepare" => draft'[p] \in Draft
    <3>1. CASE outcome = "change"
      <4>1. draft'[p] = [entry |-> entry, body |-> Candidate(req, Load(req.ns)),
                         settled |-> Loaded = DurableKnowledge]
        BY <1>12, <3>1 DEF Decide
      <4> QED BY <2>2, <4>1 DEF Draft
    <3>2. CASE outcome # "change"
      BY <1>12, <3>2 DEF Decide
    <3> QED BY <3>1, <3>2
  <2>12. Prepared'
    BY <2>5, <2>6, <2>7, <2>11
  <2> QED BY <2>9, <2>10, <2>12
<1>13. ASSUME NEW p \in Procs, Note(p) PROVE TypeInv'
  <2>1. NoteEntry(task[p], journal) \in Entry
    BY <1>13, NoteTypes DEF Note
  <2>2. journal' \in Seq(Entry)
    <3>1. journal' = Append(journal, NoteEntry(task[p], journal)) \/ journal' = journal
      BY <1>13 DEF Note
    <3> HIDE DEF Goto
    <3> QED BY <2>1, <3>1
  <2>3. /\ pc' \in [Procs -> Steps] /\ pc'[p] \in {"off", "ready"}
        /\ \A q \in Procs : q # p => pc'[q] = pc[q]
    BY <1>13 DEF Note, Return
  <2>4. /\ task' = [task EXCEPT ![p] = Construct]
        /\ draft' = [draft EXCEPT ![p] = NoFile]
        /\ onward' = [onward EXCEPT ![p] = "done"]
        /\ snap' = [snap EXCEPT ![p] = NothingLoaded]
    BY <1>13 DEF Note, Return
  <2>5. pc[p] = "note" /\ journalLock' = Free
        /\ UNCHANGED <<dl, next, backup, pending, mutationLock, failures>>
    BY <1>13 DEF Note
  <2> QED BY <2>2, <2>3, <2>4, <2>5, NothingLoadedType
<1>14. ASSUME NEW p \in Procs, SnapshotLoad(p) PROVE TypeInv'
  <2>1. PICK n \in Namespaces \ DOMAIN snap[p] :
          snap' = [snap EXCEPT ![p] = LoadMore(@, n)]
    BY <1>14 DEF SnapshotLoad
  <2>2. snap' \in [Procs -> PartialKnowledge]
    <3>1. Load(n) \in SUBSET Clauses /\ snap[p] \in PartialKnowledge
      BY <1>14, LoadTypes
    <3>2. LoadMore(snap[p], n) \in PartialKnowledge
      BY <3>1, LoadMoreType
    <3> QED BY <2>1, <3>2
  <2> QED BY <1>14, <2>2 DEF SnapshotLoad
<1>15. ASSUME NEW p \in Procs, SnapshotReturn(p) PROVE TypeInv'
  BY <1>15 DEF SnapshotReturn
<1>16. ASSUME NEW p \in Procs, Prepare(p) PROVE TypeInv'
  BY <1>16 DEF Prepare, Fault, Draft
<1>17. ASSUME NEW p \in Procs, Publish(p) PROVE TypeInv'
  <2>1. draft[p].entry \in Entry /\ draft[p].entry.ns \in Namespaces
    BY <1>17 DEF Publish, Draft, Entry
  <2>2. pending' \in {NoFile} \cup Marker
    <3>1. [ns |-> draft[p].entry.ns, hadPrevious |-> dl[draft[p].entry.ns] # NoFile,
           entry |-> draft[p].entry] \in Marker
      BY <2>1, MarkerType
    <3>2. \/ pending' = [ns |-> draft[p].entry.ns,
                        hadPrevious |-> dl[draft[p].entry.ns] # NoFile,
                        entry |-> draft[p].entry]
          \/ pending' = pending
      BY <1>17 DEF Publish
    <3> QED BY <3>1, <3>2
  <2> QED BY <1>17, <2>2 DEF Publish, Fault
<1>18. ASSUME NEW p \in Procs, SetAside(p) PROVE TypeInv'
  <2>1. draft[p].entry.ns \in Namespaces
    BY <1>18 DEF SetAside, Draft, Entry
  <2>2. /\ dl' \in [Namespaces -> {NoFile} \cup SUBSET Clauses]
        /\ backup' \in {NoFile} \cup SUBSET Clauses
    BY <1>18, <2>1 DEF SetAside
  <2>3. /\ pc' \in [Procs -> Steps] /\ failures' \in 0..MaxFailures
        /\ pc'[p] \in {"install", "dropTarget", "stuck", "dropNext"}
        /\ \A q \in Procs : q # p => pc'[q] = pc[q]
    BY <1>18 DEF SetAside, Fault, RollBackAndThrow, RollBack
  <2>4. /\ onward' \in [Procs -> {"prepare", "leaveJournal", "done", "failed"}]
        /\ \A q \in Procs : q # p => onward'[q] = onward[q]
        /\ \/ pc'[p] = "install" /\ onward' = onward
           \/ pc'[p] # "install" /\ onward'[p] = "failed"
    BY <1>18 DEF SetAside, RollBackAndThrow, RollBack
  <2>5. pc[p] = "setAside" /\ UNCHANGED <<next, pending, journal, locks, task, draft, snap>>
    BY <1>18 DEF SetAside
  <2> QED BY <2>2, <2>3, <2>4, <2>5
<1>19. ASSUME NEW p \in Procs, Install(p) PROVE TypeInv'
  <2>1. draft[p].entry.ns \in Namespaces /\ next \in SUBSET Clauses
    BY <1>19 DEF Install, Draft, Entry
  <2>2. dl' \in [Namespaces -> {NoFile} \cup SUBSET Clauses]
    BY <1>19, <2>1 DEF Install
  <2> QED BY <1>19, <2>2 DEF Install, Fault, RollBackAndThrow, RollBack
<1>20. ASSUME NEW p \in Procs, AppendJournal(p) PROVE TypeInv'
  <2>1. draft[p].entry \in Entry
    BY <1>20 DEF AppendJournal, Draft
  <2>2. journal' \in Seq(Entry)
    BY <1>20, <2>1 DEF AppendJournal
  <2>3. /\ pc' \in [Procs -> Steps] /\ failures' \in 0..MaxFailures
        /\ pc'[p] \in {"dropBackup", "dropTarget", "stuck", "dropNext"}
        /\ \A q \in Procs : q # p => pc'[q] = pc[q]
    BY <1>20 DEF AppendJournal, Fault, RollBackAndThrow, RollBack
  <2>4. /\ onward' \in [Procs -> {"prepare", "leaveJournal", "done", "failed"}]
        /\ onward'[p] # "prepare" /\ \A q \in Procs : q # p => onward'[q] = onward[q]
    BY <1>20 DEF AppendJournal, RollBackAndThrow
  <2>5. pc[p] = "append" /\ UNCHANGED <<dl, next, backup, pending, locks, task, draft, snap>>
    BY <1>20 DEF AppendJournal
  <2> QED BY <2>2, <2>3, <2>4, <2>5
<1>21. ASSUME NEW p \in Procs, Recover(p) PROVE TypeInv'
  BY <1>21 DEF Recover, RollBack
<1>22. ASSUME NEW p \in Procs, CleanupFails(p) PROVE TypeInv'
  BY <1>22 DEF CleanupFails, Fault
<1>23. ASSUME NEW p \in Procs, DropBackup(p) PROVE TypeInv'
  BY <1>23 DEF DropBackup
<1>24. ASSUME NEW p \in Procs, DropTarget(p) PROVE TypeInv'
  BY <1>24 DEF DropTarget
<1>25. ASSUME NEW p \in Procs, Restore(p) PROVE TypeInv'
  BY <1>25 DEF Restore
<1>26. ASSUME NEW p \in Procs, DropNext(p) PROVE TypeInv'
  BY <1>26 DEF DropNext
<1>27. ASSUME NEW p \in Procs, DropMarker(p) PROVE TypeInv'
  BY <1>27 DEF DropMarker
<1>28. CASE UNCHANGED vars BY <1>28 DEF vars
<1> QED BY <1>1, <1>2, <1>3, <1>4, <1>5, <1>6, <1>7, <1>8, <1>9, <1>10, <1>11, <1>12,
        <1>13, <1>14, <1>15, <1>16, <1>17, <1>18, <1>19, <1>20, <1>21, <1>22,
        <1>23, <1>24, <1>25, <1>26, <1>27, <1>28 DEF Next, Work

\* The files, the locks and the locals keep their types: a torn file, whatever
\* fails or dies, is never installed as a namespace.
THEOREM CommitTypes == Spec => []TypeOK
<1>1. TypeInv => TypeOK
  BY MutationCommitAssumption DEF TypeInv, TypeOK, VariableTypes
<1> QED BY <1>1, InitTypeInv, TypeStep, PTL DEF Spec
-----------------------------------------------------------------------------
(* The recovery                                                            *)

\* The holder of the journal lock is alone between taking and releasing it.
LEMMA OthersIdle ==
  ASSUME Owners, NEW p \in Procs, pc[p] \in JournalSteps
  PROVE  \A q \in Procs : q # p => pc[q] \notin JournalSteps
BY DEF Owners

\* An entry without effect that is appended commits no marker.
LEMMA CommittedStays ==
  ASSUME MarkerSound, journal \in Seq(Entry), NEW e \in Entry, ~Effective(e),
         journal' = Append(journal, e), pending' = pending
  PROVE  Committed' <=> Committed
<1>1. CASE pending = NoFile
  BY <1>1 DEF Committed
<1>2. CASE pending # NoFile
  <2>1. pending.entry # e
    BY <1>2 DEF MarkerSound
  <2>2. InLog(pending.entry, Append(journal, e)) <=> InLog(pending.entry, journal)
    BY <2>1, AppendMembers
  <2> QED BY <1>2, <2>2 DEF Committed, InLog
<1> QED BY <1>1, <1>2

LEMMA InitRecoveryInv == Init => RecoveryInv
<1> SUFFICES ASSUME Init PROVE FilesSound
  BY InitTypeInv DEF RecoveryInv
<1>1. IdsBelow(journal)
  BY DEF Init, IdsBelow
<1>2. FreshDraft /\ MarkerSound /\ StepSound
  BY DEF Init, FreshDraft, FreshDraftOf, MarkerSound, StepSound, StepSoundAt, Commit, Recovery
<1> QED BY <1>1, <1>2 DEF FilesSound

\* A step of p that changes no file and takes it to no step of a commit.
LEMMA IdleStep ==
  ASSUME RecoveryInv, UNCHANGED files, NEW p \in Procs,
         \A q \in Procs : q # p =>
           pc'[q] = pc[q] /\ draft'[q] = draft[q] /\ onward'[q] = onward[q],
         \/ pc'[p] \in Steps \ (Commit \cup Recovery \cup {"stuck"})
         \/ pc'[p] = "recover" /\ onward'[p] # "prepare"
  PROVE  FilesSound'
<1>1. Committed' <=> Committed
  BY DEF files, Committed
<1>2. IdsBelow(journal)' /\ MarkerSound'
  BY <1>1 DEF RecoveryInv, FilesSound, files, MarkerSound
<1>3. FreshDraft'
  BY DEF RecoveryInv, FilesSound, files, FreshDraft, FreshDraftOf, Commit, Recovery, Steps
<1>4. StepSound'
  <2>1. ASSUME NEW q \in Procs, q # p, OwnMarker(q) PROVE OwnMarker(q)'
    BY <2>1 DEF OwnMarker, files
  <2> QED BY <1>1, <2>1 DEF RecoveryInv, FilesSound, files, StepSound, StepSoundAt, Commit, Recovery,
             Steps, Endings
<1> QED BY <1>2, <1>3, <1>4 DEF FilesSound

\* A step of the process that holds the journal lock concerns nobody else's
\* step or draft.
LEMMA AloneStep ==
  ASSUME RecoveryInv, NEW p \in Procs, pc[p] \in JournalSteps,
         \A q \in Procs : q # p => pc'[q] = pc[q],
         IdsBelow(journal)', MarkerSound', FreshDraftOf(p)', StepSoundAt(p)'
  PROVE  FilesSound'
<1>1. \A q \in Procs : q # p => pc'[q] \notin JournalSteps
  BY OthersIdle DEF RecoveryInv, TypeInv
<1>2. FreshDraft'
  BY <1>1 DEF FreshDraft, FreshDraftOf, JournalSteps
<1>3. StepSound'
  BY <1>1 DEF StepSound, StepSoundAt, JournalSteps, Commit, Recovery, Endings
<1> QED BY <1>2, <1>3 DEF FilesSound

LEMMA RecoveryStep ==
  ASSUME ~StatCanFail
  PROVE  RecoveryInv /\ [Next]_vars => RecoveryInv'
<1> SUFFICES ASSUME RecoveryInv, [Next]_vars
             PROVE  FilesSound'
  BY TypeStep DEF RecoveryInv
<1> USE MutationCommitAssumption DEF Goto, Steps, Commit, Recovery, Endings
<1>a. VariableTypes /\ Owners /\ Prepared /\ FilesSound
  BY DEF RecoveryInv, TypeInv
<1>b. /\ pc \in [Procs -> Steps] /\ draft \in [Procs -> {NoFile} \cup Draft]
      /\ onward \in [Procs -> {"prepare", "leaveJournal", "done", "failed"}]
      /\ journal \in Seq(Entry)
  BY <1>a DEF VariableTypes
<1>1. ASSUME NEW p \in Procs,
             Start(p) \/ Call(p) \/ CallNote(p) \/ Exit(p) \/ Crash(p)
      PROVE  FilesSound'
  BY <1>1, <1>b, IdleStep DEF Start, Call, CallNote, Exit, Crash, locals
<1>2. ASSUME NEW p \in Procs,
             LockMutation(p) \/ LockJournal(p) \/ LockForNote(p) \/ TimeOut(p)
      PROVE  FilesSound'
  BY <1>2, <1>b, IdleStep DEF LockMutation, LockJournal, LockForNote, TimeOut, Return, locals
<1>3. ASSUME NEW p \in Procs,
             LeaveJournal(p) \/ Unlock(p) \/ SnapshotLoad(p) \/ SnapshotReturn(p)
      PROVE  FilesSound'
  BY <1>3, <1>b, IdleStep DEF LeaveJournal, Unlock, SnapshotLoad, SnapshotReturn, Return, locals
<1>4. CASE UNCHANGED vars
  <2>1. Committed' <=> Committed
    BY <1>4 DEF vars, files, Committed
  <2>2. ASSUME NEW q \in Procs, OwnMarker(q) PROVE OwnMarker(q)'
    BY <2>2, <1>4 DEF vars, files, locals, OwnMarker
  <2> QED BY <1>4, <1>a, <2>1, <2>2 DEF vars, files, locals, FilesSound, FreshDraft,
             FreshDraftOf, MarkerSound, StepSound, StepSoundAt
<1>5. ASSUME NEW p \in Procs, Decide(p) PROVE FilesSound'
  <2> DEFINE req == task[p]
             entry == EntryOf(req, Loaded, journal)
             outcome == Outcome(req, Loaded, journal)
  <2>1. pc[p] = "decide" /\ req \in Requests /\ Loaded \in Knowledge
    BY <1>5, <1>a, LoadTypes DEF Decide, Prepared
  <2>2. CASE outcome = "change"
    <3>1. /\ UNCHANGED files /\ pc' = [pc EXCEPT ![p] = "recover"]
          /\ draft' = [draft EXCEPT ![p] = [entry |-> entry,
                                            body |-> Candidate(req, Load(req.ns)),
                                            settled |-> Loaded = DurableKnowledge]]
      BY <1>5, <2>2 DEF Decide, files
    <3>2. draft'[p].entry = entry
      BY <3>1, <1>b
    <3>3. FreshDraftOf(p)'
      BY <3>1, <3>2, <2>1, <2>2, <1>a, <1>b, ChangeIsNew
      DEF FreshDraftOf, FilesSound, files
    <3>4. IdsBelow(journal)' /\ MarkerSound'
      BY <3>1, <1>a DEF files, FilesSound, MarkerSound, Committed
    <3>5. StepSoundAt(p)'
      BY <3>1, <1>b DEF StepSoundAt
    <3> QED BY <2>1, <3>1, <3>3, <3>4, <3>5, <1>b, AloneStep DEF JournalSteps
  <2>3. CASE outcome = "record" /\ journal' # journal
    <3>1. /\ journal' = Append(journal, entry) /\ pc' = [pc EXCEPT ![p] = "done"]
          /\ UNCHANGED <<dl, next, backup, pending, draft, onward>>
      BY <1>5, <2>3 DEF Decide
    <3>2. entry \in Entry /\ ~Effective(entry) /\ entry.id \notin Nat
      BY <2>1, <2>3, <1>b, EntryTypes, RecordIsIneffective, OperationsAssumption
    <3>3. Committed' <=> Committed
      BY <3>1, <3>2, <1>a, <1>b, CommittedStays DEF FilesSound
    <3>4. IdsBelow(journal)' /\ MarkerSound'
      BY <3>1, <3>2, <3>3, <1>a, <1>b, AppendIds DEF FilesSound, MarkerSound
    <3>5. FreshDraftOf(p)' /\ StepSoundAt(p)'
      BY <3>1, <1>b DEF FreshDraftOf, StepSoundAt
    <3> QED BY <2>1, <3>1, <3>4, <3>5, <1>b, AloneStep DEF JournalSteps
  <2>4. CASE outcome # "change" /\ journal' = journal
    <3>1. UNCHANGED <<files, draft, onward>>
          /\ \E step \in {"failed", "done"} : pc' = [pc EXCEPT ![p] = step]
      BY <1>5, <2>4 DEF Decide, files
    <3> QED BY <3>1, <1>b, IdleStep
  <2> QED BY <1>5, <2>2, <2>3, <2>4 DEF Decide
<1>6. ASSUME NEW p \in Procs, Note(p) PROVE FilesSound'
  <2> DEFINE entry == NoteEntry(task[p], journal)
  <2>1. /\ pc[p] = "note" /\ task[p] \in Namespaces
        /\ pc'[p] \in {"off", "ready"} /\ \A q \in Procs : q # p => pc'[q] = pc[q]
        /\ UNCHANGED <<dl, next, backup, pending>>
    BY <1>6, <1>a, <1>b DEF Note, Return, Prepared
  <2>2. FreshDraftOf(p)' /\ StepSoundAt(p)'
    BY <2>1 DEF FreshDraftOf, StepSoundAt
  <2>3. CASE journal' = Append(journal, entry)
    <3>1. entry \in Entry /\ ~Effective(entry) /\ entry.id = Len(journal) + 1
      BY <2>1, <1>b, NoteTypes
    <3>2. Committed' <=> Committed
      BY <2>1, <2>3, <3>1, <1>a, <1>b, CommittedStays DEF FilesSound
    <3>3. IdsBelow(journal)' /\ MarkerSound'
      BY <2>1, <2>3, <3>1, <3>2, <1>a, <1>b, AppendIds DEF FilesSound, MarkerSound
    <3> QED BY <2>1, <2>2, <3>3, AloneStep DEF JournalSteps
  <2>4. CASE journal' = journal
    <3>1. IdsBelow(journal)' /\ MarkerSound'
      BY <2>1, <2>4, <1>a DEF FilesSound, MarkerSound, Committed
    <3> QED BY <2>1, <2>2, <3>1, AloneStep DEF JournalSteps
  <2> QED BY <1>6, <2>3, <2>4 DEF Note

\* In a commit or a recovery, p is alone, its steps are its own, and the ids
\* of an unchanged journal stay as they are.
<1>c. ASSUME NEW p \in Procs, pc[p] \in Commit \cup Recovery,
             \A q \in Procs : q # p => pc'[q] = pc[q], UNCHANGED <<journal, draft>>,
             onward'[p] = "prepare" => onward[p] = "prepare",
             MarkerSound', StepSoundAt(p)'
      PROVE  FilesSound'
  <2>1. IdsBelow(journal)' /\ FreshDraftOf(p)'
    BY <1>c, <1>a DEF FilesSound, FreshDraft, FreshDraftOf
  <2> QED BY <1>c, <2>1, AloneStep DEF JournalSteps

\* What the invariant says of p at a step of a commit.
<1>d. ASSUME NEW p \in Procs, pc[p] \in Commit
      PROVE  /\ FreshDraftOf(p) /\ StepSoundAt(p) /\ MarkerSound
             /\ draft[p].entry \in Entry /\ draft[p].entry.ns \in Namespaces
  BY <1>d, <1>a DEF Prepared, FilesSound, FreshDraft, StepSound, Draft, Entry
<1>e. ASSUME NEW p \in Procs, pc[p] \in Commit PROVE onward[p] = "prepare"
  BY <1>e, <1>a DEF Prepared
<1>7. ASSUME NEW p \in Procs, Prepare(p) PROVE FilesSound'
  <2>1. /\ pc[p] = "prepare" /\ next = NoFile /\ backup = NoFile /\ pending = NoFile
        /\ pc'[p] \in {"publish", "failed"} /\ \A q \in Procs : q # p => pc'[q] = pc[q]
        /\ UNCHANGED <<dl, backup, pending, journal, draft, onward>>
    BY <1>7, <1>b, <1>d DEF Prepare, StepSoundAt, locals
  <2>2. MarkerSound' /\ StepSoundAt(p)'
    BY <2>1, <1>d DEF MarkerSound, StepSoundAt
  <2> QED BY <2>1, <2>2, <1>c
<1>8. ASSUME NEW p \in Procs, Publish(p) PROVE FilesSound'
  <2> DEFINE n == draft[p].entry.ns
  <2>1. /\ pc[p] = "publish" /\ backup = NoFile /\ pending = NoFile
        /\ \A q \in Procs : q # p => pc'[q] = pc[q]
        /\ UNCHANGED <<dl, backup, journal, draft, onward>>
    BY <1>8, <1>b, <1>d DEF Publish, StepSoundAt, locals
  <2>2. CASE pending' = pending /\ pc'[p] = "failed"
    <3>1. MarkerSound' /\ StepSoundAt(p)'
      BY <2>1, <2>2, <1>d DEF MarkerSound, StepSoundAt
    <3> QED BY <2>1, <3>1, <1>c
  <2>3. CASE /\ pending' = [ns |-> n, hadPrevious |-> dl[n] # NoFile,
                            entry |-> draft[p].entry]
             /\ pc'[p] = IF dl[n] # NoFile THEN "setAside" ELSE "install"
    <3>1. /\ pending'.ns = n /\ pending'.entry = draft[p].entry
          /\ pending'.hadPrevious <=> dl[n] # NoFile
      BY <2>3
    <3>2. pending' \in Marker
      BY <2>1, <2>3, <1>d, MarkerType
    <3>3. pending' # NoFile
      BY <3>2
    <3>4. Effective(draft[p].entry) /\ ~InLog(draft[p].entry, journal)
      BY <2>1, <1>d, <1>e DEF FreshDraftOf
    <3>5. ~Committed'
      BY <2>1, <3>1, <3>4 DEF Committed, InLog
    <3>6. MarkerSound'
      BY <2>1, <3>1, <3>3, <3>4, <3>5 DEF MarkerSound
    <3>7. StepSoundAt(p)'
      BY <2>1, <2>3, <3>1, <3>3, <3>5 DEF StepSoundAt, OwnMarker
    <3> QED BY <2>1, <3>6, <3>7, <1>c
  <2> QED BY <1>8, <1>b, <2>2, <2>3 DEF Publish

\* A rollback begins in a state its steps can handle.
<1>f. ASSUME NEW p \in Procs, pc[p] \in Commit \cup Recovery, RollBack(p),
             UNCHANGED files, pending # NoFile, ~Committed, MarkerSound
      PROVE  /\ StepSoundAt(p)' /\ MarkerSound'
             /\ pc'[p] \in Recovery /\ \A q \in Procs : q # p => pc'[q] = pc[q]
  <2>1. Committed' <=> Committed
    BY <1>f DEF files, Committed
  <2>2. pc'[p] \in {"dropTarget", "dropNext"} /\ \A q \in Procs : q # p => pc'[q] = pc[q]
    BY <1>f, <1>b DEF RollBack, MarkerSound
  <2> QED BY <1>f, <1>b, <2>1, <2>2 DEF RollBack, MarkerSound, StepSoundAt, files
<1>g. ASSUME NEW p \in Procs, pc[p] \in {"setAside", "install", "append"},
             RollBackAndThrow(p), UNCHANGED <<files, draft>>
      PROVE  FilesSound'
  <2>1. pending # NoFile /\ ~Committed /\ MarkerSound
    BY <1>d, <1>g DEF StepSoundAt, OwnMarker
  <2>2. RollBack(p) /\ onward'[p] = "failed"
    BY <1>b, <1>g DEF RollBackAndThrow
  <2>3. /\ StepSoundAt(p)' /\ MarkerSound'
        /\ pc'[p] \in Recovery /\ \A q \in Procs : q # p => pc'[q] = pc[q]
    BY <1>g, <2>1, <2>2, <1>f
  <2> QED BY <1>c, <1>g, <2>2, <2>3 DEF files
<1>9. ASSUME NEW p \in Procs, SetAside(p) PROVE FilesSound'
  <2> DEFINE n == draft[p].entry.ns
  <2>1. CASE RollBackAndThrow(p) /\ UNCHANGED <<dl, backup>>
    BY <1>9, <2>1, <1>g DEF SetAside, files
  <2>2. CASE /\ backup' = dl[n] /\ dl' = [dl EXCEPT ![n] = NoFile]
             /\ pc' = [pc EXCEPT ![p] = "install"] /\ UNCHANGED onward
    <3>1. /\ pc[p] = "setAside" /\ UNCHANGED <<next, pending, journal, draft>>
      BY <1>9 DEF SetAside
    <3>2. OwnMarker(p) /\ ~Committed /\ pending.hadPrevious /\ backup = NoFile /\ MarkerSound
      BY <3>1, <1>d DEF StepSoundAt
    <3>3. backup' # NoFile
      BY <2>2, <3>2 DEF MarkerSound, OwnMarker
    <3>4. Committed' <=> Committed
      BY <3>1 DEF Committed
    <3>5. MarkerSound' /\ StepSoundAt(p)'
      BY <2>2, <3>1, <3>2, <3>3, <3>4, <1>b DEF MarkerSound, StepSoundAt, OwnMarker
    <3> QED BY <1>b, <1>c, <2>2, <3>1, <3>5
  <2> QED BY <1>9, <2>1, <2>2 DEF SetAside
<1>10. ASSUME NEW p \in Procs, Install(p) PROVE FilesSound'
  <2> DEFINE n == draft[p].entry.ns
  <2>1. CASE RollBackAndThrow(p) /\ UNCHANGED <<dl, next>>
    BY <1>10, <2>1, <1>g DEF Install, files
  <2>2. CASE /\ dl' = [dl EXCEPT ![n] = next]
             /\ pc' = [pc EXCEPT ![p] = "append"] /\ UNCHANGED onward
    <3>1. /\ pc[p] = "install" /\ UNCHANGED <<backup, pending, journal, draft>>
      BY <1>10 DEF Install
    <3>2. OwnMarker(p) /\ ~Committed /\ MarkerSound
      BY <3>1, <1>d DEF StepSoundAt
    <3>3. next # NoFile /\ n \in Namespaces /\ dl \in [Namespaces -> {NoFile} \cup SUBSET Clauses]
      BY <3>1, <1>a, <1>d DEF Prepared, VariableTypes
    <3>4. Committed' <=> Committed
      BY <3>1 DEF Committed
    <3>5. dl'[n] # NoFile /\ pending.ns = n
      BY <2>2, <3>2, <3>3 DEF OwnMarker
    <3>6. MarkerSound' /\ StepSoundAt(p)'
      BY <2>2, <3>1, <3>2, <3>4, <3>5, <1>b DEF MarkerSound, StepSoundAt, OwnMarker
    <3> QED BY <1>b, <1>c, <2>2, <3>1, <3>6
  <2> QED BY <1>10, <2>1, <2>2 DEF Install
<1>11. ASSUME NEW p \in Procs, AppendJournal(p) PROVE FilesSound'
  <2>1. CASE RollBackAndThrow(p) /\ UNCHANGED journal
    BY <1>11, <2>1, <1>g DEF AppendJournal, files
  <2>2. CASE /\ journal' = Append(journal, draft[p].entry)
             /\ pc' = [pc EXCEPT ![p] = "dropBackup"]
             /\ onward' = [onward EXCEPT ![p] = "done"]
    <3>1. /\ pc[p] = "append" /\ UNCHANGED <<dl, next, backup, pending, draft>>
      BY <1>11 DEF AppendJournal
    <3>2. /\ OwnMarker(p) /\ ~Committed /\ dl[pending.ns] # NoFile
          /\ MarkerSound /\ FreshDraftOf(p) /\ draft[p].entry \in Entry
      BY <3>1, <1>d DEF StepSoundAt
    <3>3. InLog(draft[p].entry, journal')
      BY <2>2, <3>2, <1>b, AppendMembers
    <3>4. Committed'
      BY <3>1, <3>2, <3>3 DEF Committed, InLog, OwnMarker
    <3>5. MarkerSound' /\ StepSoundAt(p)'
      BY <2>2, <3>1, <3>2, <3>4, <1>b DEF MarkerSound, StepSoundAt, OwnMarker
    <3>6. FreshDraftOf(p)'
      BY <2>2, <1>b DEF FreshDraftOf
    <3>7. IdsBelow(journal)'
      BY <2>2, <3>1, <3>2, <1>a, <1>b, <1>e, AppendIds DEF FilesSound, FreshDraftOf
    <3> QED BY <1>b, <2>2, <3>1, <3>5, <3>6, <3>7, AloneStep DEF JournalSteps
  <2> QED BY <1>11, <2>1, <2>2 DEF AppendJournal
<1>12. ASSUME NEW p \in Procs, pc[p] \in Recovery, pc[p] # "recover"
       PROVE  StepSoundAt(p) /\ MarkerSound /\ pending # NoFile
  BY <1>12, <1>a DEF FilesSound, StepSound, StepSoundAt
<1>13. ASSUME NEW p \in Procs, Recover(p) PROVE FilesSound'
  <2>1. /\ pc[p] = "recover" /\ MarkerSound /\ \A q \in Procs : q # p => pc'[q] = pc[q]
        /\ UNCHANGED <<dl, backup, pending, journal, draft, onward>>
    BY <1>13, <1>a, <1>b DEF Recover, RollBack, FilesSound, locals
  <2>2. (Committed' <=> Committed) /\ MarkerSound'
    BY <2>1 DEF Committed, MarkerSound
  <2>3. StepSoundAt(p)'
    <3>1. CASE pending = NoFile
      <4>1. backup = NoFile /\ next' = NoFile /\ pc'[p] = onward[p]
        BY <1>13, <1>b, <2>1, <3>1 DEF Recover, MarkerSound
      <4> QED BY <1>b, <2>1, <3>1, <4>1 DEF StepSoundAt
    <3>2. CASE pending # NoFile /\ Committed
      <4>1. pc'[p] = "dropBackup"
        BY <1>13, <1>b, <2>1, <3>2 DEF Recover, MarkerSound
      <4> QED BY <2>1, <2>2, <3>2, <4>1 DEF StepSoundAt
    <3>3. CASE pending # NoFile /\ ~Committed
      BY <1>13, <2>1, <3>3, <1>f DEF Recover, files
    <3> QED BY <3>1, <3>2, <3>3
  <2> QED BY <2>1, <2>2, <2>3, <1>c
<1>14. ASSUME NEW p \in Procs, CleanupFails(p) PROVE FilesSound'
  <2>1. /\ UNCHANGED files /\ pc'[p] \in {"recover", "failed"}
        /\ pc'[p] = "recover" => onward'[p] # "prepare"
        /\ \A q \in Procs : q # p =>
             pc'[q] = pc[q] /\ draft'[q] = draft[q] /\ onward'[q] = onward[q]
    BY <1>14, <1>b DEF CleanupFails
  <2> QED BY <2>1, IdleStep
<1>15. ASSUME NEW p \in Procs, DropBackup(p) PROVE FilesSound'
  <2>1. /\ pc[p] = "dropBackup" /\ pc'[p] = "dropNext" /\ backup' = NoFile
        /\ \A q \in Procs : q # p => pc'[q] = pc[q]
        /\ UNCHANGED <<dl, next, pending, journal, draft, onward>>
    BY <1>15, <1>b DEF DropBackup, locals
  <2>2. Committed /\ Committed' /\ MarkerSound /\ pending # NoFile
    BY <2>1, <1>12 DEF StepSoundAt, Committed
  <2>3. MarkerSound' /\ StepSoundAt(p)'
    BY <2>1, <2>2 DEF MarkerSound, StepSoundAt
  <2> QED BY <2>1, <2>3, <1>c
<1>16. ASSUME NEW p \in Procs, DropTarget(p) PROVE FilesSound'
  <2>1. /\ pc[p] = "dropTarget" /\ dl' = [dl EXCEPT ![pending.ns] = NoFile]
        /\ pc'[p] = IF backup # NoFile THEN "restore" ELSE "dropNext"
        /\ \A q \in Procs : q # p => pc'[q] = pc[q]
        /\ UNCHANGED <<next, backup, pending, journal, draft, onward>>
    BY <1>16, <1>b DEF DropTarget, locals
  <2>2. /\ ~Committed /\ ~Committed' /\ MarkerSound /\ pending # NoFile
        /\ backup # NoFile \/ ~pending.hadPrevious
    BY <2>1, <1>12 DEF StepSoundAt, Committed
  <2>3. MarkerSound' /\ StepSoundAt(p)'
    BY <2>1, <2>2 DEF MarkerSound, StepSoundAt
  <2> QED BY <2>1, <2>3, <1>c
<1>17. ASSUME NEW p \in Procs, Restore(p) PROVE FilesSound'
  <2>1. /\ pc[p] = "restore" /\ pc'[p] = "dropNext"
        /\ dl' = [dl EXCEPT ![pending.ns] = backup] /\ backup' = NoFile
        /\ \A q \in Procs : q # p => pc'[q] = pc[q]
        /\ UNCHANGED <<next, pending, journal, draft, onward>>
    BY <1>17, <1>b DEF Restore, locals
  <2>2. MarkerSound /\ pending # NoFile /\ backup # NoFile
    BY <2>1, <1>12 DEF StepSoundAt
  <2>3. dl'[pending.ns] # NoFile
    <3>1. dl \in [Namespaces -> {NoFile} \cup SUBSET Clauses] /\ pending \in Marker
      BY <1>a, <2>2 DEF VariableTypes
    <3>2. pending.ns \in Namespaces
      BY <3>1 DEF Marker
    <3> QED BY <2>1, <2>2, <3>1, <3>2
  <2>4. MarkerSound' /\ StepSoundAt(p)'
    BY <2>1, <2>2, <2>3 DEF MarkerSound, StepSoundAt
  <2> QED BY <2>1, <2>4, <1>c
<1>18. ASSUME NEW p \in Procs, DropNext(p) PROVE FilesSound'
  <2>1. /\ pc[p] = "dropNext" /\ pc'[p] = "dropMarker" /\ next' = NoFile
        /\ \A q \in Procs : q # p => pc'[q] = pc[q]
        /\ UNCHANGED <<dl, backup, pending, journal, draft, onward>>
    BY <1>18, <1>b DEF DropNext, locals
  <2>2. pending # NoFile /\ backup = NoFile /\ MarkerSound /\ (Committed' <=> Committed)
    BY <2>1, <1>12 DEF StepSoundAt, Committed
  <2>3. MarkerSound' /\ StepSoundAt(p)'
    BY <2>1, <2>2 DEF MarkerSound, StepSoundAt
  <2> QED BY <2>1, <2>3, <1>c
<1>19. ASSUME NEW p \in Procs, DropMarker(p) PROVE FilesSound'
  <2>1. /\ pc[p] = "dropMarker" /\ pc'[p] = onward[p] /\ pending' = NoFile
        /\ \A q \in Procs : q # p => pc'[q] = pc[q]
        /\ UNCHANGED <<dl, next, backup, journal, draft, onward>>
    BY <1>19, <1>b DEF DropMarker, locals
  <2>2. next = NoFile /\ backup = NoFile
    BY <2>1, <1>12 DEF StepSoundAt
  <2>3. MarkerSound' /\ StepSoundAt(p)'
    BY <1>b, <2>1, <2>2 DEF MarkerSound, StepSoundAt, Committed
  <2> QED BY <2>1, <2>3, <1>c
<1> QED BY <1>1, <1>2, <1>3, <1>4, <1>5, <1>6, <1>7, <1>8, <1>9, <1>10, <1>11, <1>13,
        <1>14, <1>15, <1>16, <1>17, <1>18, <1>19 DEF Next, Work

\* Unless an lstat fails after the journal's rename, no crash, failing system
\* call or interleaving leaves files that a recovery refuses, and no mutation
\* finds the files of an unresolved one.
THEOREM RecoveryNeverStuck ==
  ASSUME ~StatCanFail
  PROVE  Spec => []RecoverySucceeds
<1>1. RecoveryInv => RecoverySucceeds
  BY DEF RecoveryInv, FilesSound, StepSound, StepSoundAt, RecoverySucceeds
<1>2. RecoveryInv /\ [Next]_vars => RecoveryInv'
  BY RecoveryStep
<1> QED BY <1>1, <1>2, InitRecoveryInv, PTL DEF Spec
-----------------------------------------------------------------------------
(* Operation ids                                                           *)

\* Between its decision and its commit, an operation id is still unused:
\* nobody else writes the journal meanwhile.
NewDraftOf(p) ==
  pc[p] \in Commit \cup Recovery /\ onward[p] = "prepare" =>
    NewOperation(draft[p].entry, journal)
NewDraft == \A p \in Procs : NewDraftOf(p)

OnceInv == TypeInv /\ OncePerOperation /\ NewDraft

\* A step that leaves the journal alone and prepares nothing new.
LEMMA QuietStep ==
  ASSUME OnceInv, journal' = journal,
         \A p \in Procs :
           pc'[p] \in Commit \cup Recovery /\ onward'[p] = "prepare" =>
             /\ pc[p] \in Commit \cup Recovery /\ onward[p] = "prepare"
             /\ draft'[p] = draft[p]
  PROVE  OncePerOperation' /\ NewDraft'
BY DEF OnceInv, OncePerOperation, NewDraft, NewDraftOf

\* The holder of the journal lock appends an entry that is new.
LEMMA LoneAppend ==
  ASSUME OnceInv, NEW p \in Procs, pc[p] \in JournalSteps,
         \A q \in Procs : q # p => pc'[q] = pc[q],
         pc'[p] \in Commit \cup Recovery => onward'[p] # "prepare",
         NEW e \in Entry, NewOperation(e, journal), journal' = Append(journal, e)
  PROVE  OncePerOperation' /\ NewDraft'
<1>1. UniqueOperations(Append(journal, e))
  BY AppendKeepsUnique
  DEF OnceInv, TypeInv, VariableTypes, OncePerOperation, UniqueOperations
<1>2. \A q \in Procs : q # p => pc'[q] \notin JournalSteps
  BY OthersIdle DEF OnceInv, TypeInv
<1> QED BY <1>1, <1>2 DEF OncePerOperation, UniqueOperations, NewDraft, NewDraftOf, JournalSteps

LEMMA OnceStep == OnceInv /\ [Next]_vars => OnceInv'
<1> SUFFICES ASSUME OnceInv, [Next]_vars PROVE OncePerOperation' /\ NewDraft'
  BY TypeStep DEF OnceInv
<1> USE DEF Goto, Steps, Commit, Recovery, Endings
<1>a. VariableTypes /\ Owners /\ Prepared
  BY DEF OnceInv, TypeInv
<1>b. /\ pc \in [Procs -> Steps] /\ draft \in [Procs -> {NoFile} \cup Draft]
      /\ onward \in [Procs -> {"prepare", "leaveJournal", "done", "failed"}]
      /\ journal \in Seq(Entry)
  BY <1>a DEF VariableTypes
<1>1. ASSUME NEW p \in Procs,
             Start(p) \/ Call(p) \/ CallNote(p) \/ Exit(p) \/ Crash(p)
      PROVE  OncePerOperation' /\ NewDraft'
  BY <1>1, <1>b, QuietStep DEF Start, Call, CallNote, Exit, Crash, files, locals
<1>2. ASSUME NEW p \in Procs,
             LockMutation(p) \/ LockJournal(p) \/ LockForNote(p) \/ TimeOut(p)
             \/ LeaveJournal(p) \/ Unlock(p) \/ SnapshotLoad(p) \/ SnapshotReturn(p)
      PROVE  OncePerOperation' /\ NewDraft'
  BY <1>2, <1>b, QuietStep
  DEF LockMutation, LockJournal, LockForNote, TimeOut, LeaveJournal, Unlock, SnapshotLoad,
      SnapshotReturn, Return, files, locals
<1>3. ASSUME NEW p \in Procs, Decide(p) PROVE OncePerOperation' /\ NewDraft'
  <2> DEFINE req == task[p]
             entry == EntryOf(req, Loaded, journal)
             outcome == Outcome(req, Loaded, journal)
  <2>1. pc[p] = "decide" /\ req \in Requests /\ Loaded \in Knowledge
    BY <1>3, <1>a, LoadTypes DEF Decide, Prepared
  <2>2. CASE outcome = "change"
    <3>1. /\ journal' = journal /\ pc' = [pc EXCEPT ![p] = "recover"]
          /\ draft'[p].entry = entry
          /\ \A q \in Procs : q # p =>
               pc'[q] = pc[q] /\ draft'[q] = draft[q] /\ onward'[q] = onward[q]
      BY <1>3, <1>b, <2>2 DEF Decide
    <3>2. NewOperation(entry, journal)
      BY <1>b, <2>1, <2>2, DecidedIsNew
    <3>3. NewDraft'
      BY <3>1, <3>2 DEF OnceInv, NewDraft, NewDraftOf
    <3> QED BY <3>1, <3>3 DEF OnceInv, OncePerOperation
  <2>3. CASE outcome = "record" /\ journal' # journal
    <3>1. /\ journal' = Append(journal, entry) /\ pc' = [pc EXCEPT ![p] = "done"]
      BY <1>3, <2>3 DEF Decide
    <3>2. entry \in Entry /\ NewOperation(entry, journal)
      BY <1>b, <2>1, <2>3, EntryTypes, DecidedIsNew
    <3> QED BY <1>b, <2>1, <3>1, <3>2, LoneAppend DEF JournalSteps
  <2>4. CASE outcome # "change" /\ journal' = journal
    <3>1. /\ UNCHANGED <<journal, draft, onward>> /\ pc'[p] \in {"failed", "done"}
          /\ \A q \in Procs : q # p => pc'[q] = pc[q]
      BY <1>3, <1>b, <2>4 DEF Decide
    <3> QED BY <3>1, QuietStep
  <2> QED BY <1>3, <2>2, <2>3, <2>4 DEF Decide
<1>4. ASSUME NEW p \in Procs, Note(p) PROVE OncePerOperation' /\ NewDraft'
  <2> DEFINE entry == NoteEntry(task[p], journal)
  <2>1. /\ pc[p] = "note" /\ task[p] \in Namespaces
        /\ pc'[p] \in {"off", "ready"}
        /\ \A q \in Procs : q # p =>
             pc'[q] = pc[q] /\ draft'[q] = draft[q] /\ onward'[q] = onward[q]
    BY <1>4, <1>a, <1>b DEF Note, Return, Prepared
  <2>2. entry \in Entry /\ NewOperation(entry, journal)
    <3>1. entry \in Entry /\ entry.id = Len(journal) + 1 /\ Len(journal) \in Nat
      BY <1>b, <2>1, NoteTypes
    <3>2. entry.id \notin OperationIds
      BY <3>1, OperationsAssumption
    <3> QED BY <3>1, <3>2 DEF NewOperation
  <2>3. CASE journal' = Append(journal, entry)
    BY <2>1, <2>2, <2>3, LoneAppend DEF JournalSteps
  <2>4. CASE journal' = journal
    BY <2>1, <2>4, QuietStep
  <2> QED BY <1>4, <2>3, <2>4 DEF Note
<1>5. ASSUME NEW p \in Procs, AppendJournal(p) PROVE OncePerOperation' /\ NewDraft'
  <2>1. /\ pc[p] = "append" /\ onward'[p] # "prepare" /\ draft' = draft
        /\ \A q \in Procs : q # p => pc'[q] = pc[q] /\ onward'[q] = onward[q]
    BY <1>5, <1>b DEF AppendJournal, RollBackAndThrow, RollBack
  <2>2. draft[p].entry \in Entry /\ NewOperation(draft[p].entry, journal)
    BY <2>1, <1>a DEF Prepared, Draft, OnceInv, NewDraft, NewDraftOf
  <2>3. CASE journal' = Append(journal, draft[p].entry)
    BY <2>1, <2>2, <2>3, LoneAppend DEF JournalSteps
  <2>4. CASE journal' = journal
    BY <2>1, <2>4, QuietStep
  <2> QED BY <1>5, <2>3, <2>4 DEF AppendJournal
<1>6. ASSUME NEW p \in Procs,
             Prepare(p) \/ Publish(p) \/ SetAside(p) \/ Install(p) \/ Recover(p)
             \/ DropBackup(p) \/ DropTarget(p) \/ Restore(p) \/ DropNext(p)
             \/ DropMarker(p) \/ CleanupFails(p)
      PROVE  OncePerOperation' /\ NewDraft'
  BY <1>6, <1>b, QuietStep
  DEF Prepare, Publish, SetAside, Install, Recover, DropBackup, DropTarget, Restore, DropNext,
      DropMarker, CleanupFails, RollBackAndThrow, RollBack, files, locals
<1>7. CASE UNCHANGED vars
  BY <1>7, QuietStep DEF vars, files, locals
<1> QED BY <1>1, <1>2, <1>3, <1>4, <1>5, <1>6, <1>7 DEF Next, Work

\* However often a call is killed, fails, times out or is retried, and whoever
\* retries it: an operation id a caller supplied is journaled at most once.
THEOREM CommitsOnce == Spec => []OncePerOperation
<1>1. Init => OnceInv
  BY InitTypeInv
  DEF Init, OnceInv, OncePerOperation, NewDraft, NewDraftOf, Commit, Recovery
<1>2. OnceInv => OncePerOperation
  BY DEF OnceInv
<1> QED BY <1>1, <1>2, OnceStep, PTL DEF Spec
-----------------------------------------------------------------------------
(* What is durable                                                         *)

\* When a rolled back creation is about to lose its marker, its file is gone.
LeavingSoundAt(p) ==
  pc[p] \in {"dropNext", "dropMarker"} /\ ~Committed /\ ~pending.hadPrevious =>
    dl[pending.ns] = NoFile
LeavingSound == \A p \in Procs : LeavingSoundAt(p)

DurableInv == RecoveryInv /\ LeavingSound

DurableSame == \A n \in Namespaces : Durable(n)' = Durable(n)

\* The step that commits a mutation.
CommitStep(p) == pc[p] = "append" /\ journal' = Append(journal, draft[p].entry)

\* A step that touches no file but .next.
LEMMA FilesKept ==
  ASSUME UNCHANGED <<dl, backup, pending, journal>>
  PROVE  DurableSame /\ (Committed' <=> Committed)
BY DEF DurableSame, Durable, Committed, Load

LEMMA FilesKeptStep ==
  ASSUME LeavingSound, UNCHANGED <<dl, backup, pending, journal>>,
         \A q \in Procs :
           pc'[q] \in {"dropNext", "dropMarker"} => pc[q] \in {"dropNext", "dropMarker"}
  PROVE  LeavingSound' /\ DurableSame
<1>1. DurableSame /\ (Committed' <=> Committed)
  BY FilesKept
<1> QED BY <1>1 DEF LeavingSound, LeavingSoundAt

\* A step of the process that holds the journal lock.
LEMMA LoneLeaving ==
  ASSUME RecoveryInv, NEW p \in Procs, pc[p] \in JournalSteps,
         \A q \in Procs : q # p => pc'[q] = pc[q], LeavingSoundAt(p)'
  PROVE  LeavingSound'
<1>1. \A q \in Procs : q # p => pc'[q] \notin JournalSteps
  BY OthersIdle DEF RecoveryInv, TypeInv
<1> QED BY <1>1 DEF LeavingSound, LeavingSoundAt, JournalSteps, Recovery

\* Every step but the appends leaves what is durable as it is: what it takes
\* from one file, the marker makes the recovery find in another.
LEMMA DurableStep ==
  ASSUME ~StatCanFail, DurableInv, [Next]_vars
  PROVE  LeavingSound' /\ (DurableSame \/ \E p \in Procs : CommitStep(p))
<1> USE MutationCommitAssumption DEF Goto, Steps, Commit, Recovery, Endings
<1>a. VariableTypes /\ Owners /\ Prepared /\ FilesSound /\ LeavingSound /\ RecoveryInv
  BY DEF DurableInv, RecoveryInv, TypeInv
<1>b. /\ pc \in [Procs -> Steps] /\ draft \in [Procs -> {NoFile} \cup Draft]
      /\ onward \in [Procs -> {"prepare", "leaveJournal", "done", "failed"}]
      /\ journal \in Seq(Entry) /\ dl \in [Namespaces -> {NoFile} \cup SUBSET Clauses]
  BY <1>a DEF VariableTypes
<1>c. \A q \in Procs : StepSoundAt(q) /\ LeavingSoundAt(q)
  BY <1>a DEF FilesSound, StepSound, LeavingSound
<1>d. MarkerSound
  BY <1>a DEF FilesSound
<1>e. pending # NoFile => pending.ns \in Namespaces
  BY <1>a DEF VariableTypes, Marker
<1>f. ASSUME NEW p \in Procs, pc[p] \in Commit PROVE draft[p].entry.ns \in Namespaces
  BY <1>f, <1>a DEF Prepared, Draft, Entry
<1>1. ASSUME NEW p \in Procs,
             \/ Start(p) \/ Call(p) \/ CallNote(p) \/ Exit(p) \/ Crash(p)
             \/ LockMutation(p) \/ LockJournal(p) \/ LockForNote(p) \/ TimeOut(p)
             \/ LeaveJournal(p) \/ Unlock(p) \/ SnapshotLoad(p) \/ SnapshotReturn(p)
             \/ Prepare(p) \/ CleanupFails(p) \/ DropNext(p)
      PROVE  LeavingSound' /\ DurableSame
  BY <1>1, <1>a, <1>b, FilesKeptStep
  DEF Start, Call, CallNote, Exit, Crash, LockMutation, LockJournal, LockForNote, TimeOut,
      LeaveJournal, Unlock, SnapshotLoad, SnapshotReturn, Return, Prepare, CleanupFails,
      DropNext, files, locals
<1>2. CASE UNCHANGED vars
  BY <1>2, <1>a, FilesKeptStep DEF vars, files, locals
<1>3. ASSUME NEW p \in Procs, Decide(p) \/ Note(p) PROVE LeavingSound' /\ DurableSame
  <2>1. /\ pc[p] \in {"decide", "note"} /\ UNCHANGED <<dl, backup, pending>>
        /\ pc'[p] \in {"failed", "done", "recover", "off", "ready"}
        /\ \A q \in Procs : q # p => pc'[q] = pc[q]
    BY <1>3, <1>b DEF Decide, Note, Return
  <2>2. LeavingSound'
    BY <1>a, <2>1, LoneLeaving DEF LeavingSoundAt, JournalSteps
  <2>3. CASE journal' = journal
    BY <2>1, <2>2, <2>3, FilesKept
  <2>4. CASE journal' # journal
    <3>1. PICK e \in Entry : ~Effective(e) /\ journal' = Append(journal, e)
      <4>1. CASE Decide(p)
        <5> DEFINE entry == EntryOf(task[p], Loaded, journal)
        <5>1. /\ task[p] \in Requests /\ Outcome(task[p], Loaded, journal) = "record"
              /\ journal' = Append(journal, entry)
          BY <1>a, <2>4, <4>1 DEF Decide, Prepared
        <5>2. entry \in Entry /\ ~Effective(entry)
          BY <1>a, <1>b, <5>1, LoadTypes, EntryTypes, RecordIsIneffective
        <5> QED BY <5>1, <5>2
      <4>2. CASE Note(p)
        <5>1. /\ task[p] \in Namespaces /\ journal' = Append(journal, NoteEntry(task[p], journal))
          BY <1>a, <2>4, <4>2 DEF Note, Prepared
        <5> QED BY <1>b, <5>1, NoteTypes
      <4> QED BY <1>3, <4>1, <4>2
    <3>2. Committed' <=> Committed
      BY <1>b, <1>d, <2>1, <3>1, CommittedStays
    <3>3. DurableSame
      BY <2>1, <3>2 DEF DurableSame, Durable, Load
    <3> QED BY <2>2, <3>3
  <2> QED BY <2>3, <2>4
\* A rollback begins when the target is untouched or needs no restoring.
<1>g. ASSUME NEW p \in Procs, pc[p] \in Commit \cup Recovery, RollBack(p),
             UNCHANGED <<dl, backup, pending, journal>>, pending # NoFile
      PROVE  LeavingSound' /\ DurableSame
  <2>1. pc'[p] # "dropMarker" /\ (pc'[p] = "dropNext" => pending.hadPrevious)
    BY <1>g, <1>b DEF RollBack
  <2>2. \A q \in Procs : q # p => pc'[q] = pc[q]
    BY <1>g, <1>b DEF RollBack
  <2>3. LeavingSoundAt(p)'
    BY <1>g, <2>1 DEF LeavingSoundAt
  <2> QED BY <1>a, <1>g, <2>2, <2>3, FilesKept, LoneLeaving DEF JournalSteps
<1>4. ASSUME NEW p \in Procs, Publish(p) PROVE LeavingSound' /\ DurableSame
  <2> DEFINE n == draft[p].entry.ns
  <2>1. /\ pc[p] = "publish" /\ backup = NoFile /\ pending = NoFile
        /\ UNCHANGED <<dl, backup, journal>>
        /\ pc'[p] \in {"setAside", "install", "failed"}
        /\ \A q \in Procs : q # p => pc'[q] = pc[q]
    BY <1>4, <1>b, <1>c DEF Publish, StepSoundAt
  <2>2. LeavingSound'
    BY <1>a, <2>1, LoneLeaving DEF LeavingSoundAt, JournalSteps
  <2>3. CASE pending' = pending
    BY <2>1, <2>2, <2>3, FilesKept
  <2>4. CASE pending' = [ns |-> n, hadPrevious |-> dl[n] # NoFile, entry |-> draft[p].entry]
    BY <2>1, <2>2, <2>4 DEF DurableSame, Durable, Load
  <2> QED BY <1>4, <2>3, <2>4 DEF Publish
<1>5. ASSUME NEW p \in Procs, SetAside(p) PROVE LeavingSound' /\ DurableSame
  <2> DEFINE n == draft[p].entry.ns
  <2>1. /\ pc[p] = "setAside" /\ UNCHANGED <<pending, journal>>
        /\ OwnMarker(p) /\ ~Committed /\ pending.hadPrevious /\ backup = NoFile
    BY <1>5, <1>c DEF SetAside, StepSoundAt
  <2>2. CASE RollBackAndThrow(p) /\ UNCHANGED <<dl, backup>>
    BY <2>1, <2>2, <1>g DEF RollBackAndThrow, OwnMarker
  <2>3. CASE /\ backup' = dl[n] /\ dl' = [dl EXCEPT ![n] = NoFile]
             /\ pc' = [pc EXCEPT ![p] = "install"]
    <3>1. LeavingSound'
      BY <1>a, <1>b, <2>1, <2>3, LoneLeaving DEF LeavingSoundAt, JournalSteps
    <3>2. dl[n] # NoFile /\ pending.ns = n /\ pending # NoFile
      BY <1>d, <2>1 DEF MarkerSound, OwnMarker
    <3>3. ~Committed'
      BY <2>1 DEF Committed
    <3>4. DurableSame
      BY <1>b, <2>1, <2>3, <3>2, <3>3 DEF DurableSame, Durable, Load
    <3> QED BY <3>1, <3>4
  <2> QED BY <1>5, <2>2, <2>3 DEF SetAside
<1>6. ASSUME NEW p \in Procs, Install(p) PROVE LeavingSound' /\ DurableSame
  <2> DEFINE n == draft[p].entry.ns
  <2>1. /\ pc[p] = "install" /\ UNCHANGED <<backup, pending, journal>>
        /\ OwnMarker(p) /\ ~Committed /\ (pending.hadPrevious => backup # NoFile)
    BY <1>6, <1>c DEF Install, StepSoundAt
  <2>2. CASE RollBackAndThrow(p) /\ UNCHANGED <<dl, next>>
    BY <2>1, <2>2, <1>g DEF RollBackAndThrow, OwnMarker
  <2>3. CASE dl' = [dl EXCEPT ![n] = next] /\ pc' = [pc EXCEPT ![p] = "append"]
    <3>1. LeavingSound'
      BY <1>a, <1>b, <2>1, <2>3, LoneLeaving DEF LeavingSoundAt, JournalSteps
    <3>2. pending.ns = n /\ pending # NoFile
      BY <2>1 DEF OwnMarker
    <3>3. ~Committed'
      BY <2>1 DEF Committed
    <3>4. DurableSame
      BY <1>b, <2>1, <2>3, <3>2, <3>3 DEF DurableSame, Durable, Load
    <3> QED BY <3>1, <3>4
  <2> QED BY <1>6, <2>2, <2>3 DEF Install
<1>7. ASSUME NEW p \in Procs, AppendJournal(p)
      PROVE  LeavingSound' /\ (DurableSame \/ CommitStep(p))
  <2>1. /\ pc[p] = "append" /\ UNCHANGED <<dl, backup, pending>> /\ OwnMarker(p)
    BY <1>7, <1>c DEF AppendJournal, StepSoundAt
  <2>2. CASE RollBackAndThrow(p) /\ UNCHANGED journal
    BY <2>1, <2>2, <1>g DEF RollBackAndThrow, OwnMarker
  <2>3. CASE journal' = Append(journal, draft[p].entry) /\ pc' = [pc EXCEPT ![p] = "dropBackup"]
    <3>1. LeavingSound'
      BY <1>a, <1>b, <2>1, <2>3, LoneLeaving DEF LeavingSoundAt, JournalSteps
    <3> QED BY <2>1, <2>3, <3>1 DEF CommitStep
  <2> QED BY <1>7, <2>2, <2>3 DEF AppendJournal
<1>8. ASSUME NEW p \in Procs, Recover(p) PROVE LeavingSound' /\ DurableSame
  <2>1. pc[p] = "recover" /\ UNCHANGED <<dl, backup, pending, journal>>
    BY <1>8 DEF Recover
  <2>2. CASE RollBack(p) /\ pending # NoFile
    BY <2>1, <2>2, <1>g
  <2>3. CASE \E step \in {"stuck", "dropBackup", onward[p]} : pc' = [pc EXCEPT ![p] = step]
    BY <1>a, <1>b, <2>1, <2>3, FilesKeptStep
  <2> QED BY <1>8, <2>2, <2>3 DEF Recover
<1>9. ASSUME NEW p \in Procs, DropBackup(p) PROVE LeavingSound' /\ DurableSame
  <2>1. /\ pc[p] = "dropBackup" /\ UNCHANGED <<dl, pending, journal>>
        /\ \A q \in Procs : q # p => pc'[q] = pc[q]
        /\ Committed
    BY <1>9, <1>b, <1>c DEF DropBackup, StepSoundAt
  <2>2. Committed'
    BY <2>1 DEF Committed
  <2>3. LeavingSound'
    BY <1>a, <2>1, <2>2, LoneLeaving DEF LeavingSoundAt, JournalSteps
  <2>4. DurableSame
    BY <2>1, <2>2 DEF DurableSame, Durable, Load
  <2> QED BY <2>3, <2>4
<1>10. ASSUME NEW p \in Procs, DropTarget(p) PROVE LeavingSound' /\ DurableSame
  <2>1. /\ pc[p] = "dropTarget" /\ UNCHANGED <<backup, pending, journal>>
        /\ dl' = [dl EXCEPT ![pending.ns] = NoFile]
        /\ \A q \in Procs : q # p => pc'[q] = pc[q]
        /\ pending # NoFile /\ ~Committed /\ (backup # NoFile \/ ~pending.hadPrevious)
    BY <1>10, <1>b, <1>c DEF DropTarget, StepSoundAt
  <2>2. ~Committed' /\ dl'[pending.ns] = NoFile
    BY <1>b, <1>e, <2>1 DEF Committed
  <2>3. LeavingSound'
    BY <1>a, <2>1, <2>2, LoneLeaving DEF LeavingSoundAt, JournalSteps
  <2>4. DurableSame
    BY <1>b, <2>1, <2>2 DEF DurableSame, Durable, Load
  <2> QED BY <2>3, <2>4
<1>11. ASSUME NEW p \in Procs, Restore(p) PROVE LeavingSound' /\ DurableSame
  <2>1. /\ pc[p] = "restore" /\ UNCHANGED <<pending, journal>>
        /\ dl' = [dl EXCEPT ![pending.ns] = backup] /\ backup' = NoFile
        /\ \A q \in Procs : q # p => pc'[q] = pc[q]
        /\ pending # NoFile /\ ~Committed /\ backup # NoFile
    BY <1>11, <1>b, <1>c DEF Restore, StepSoundAt
  <2>2. ~Committed' /\ dl'[pending.ns] = backup /\ pending.hadPrevious
    BY <1>b, <1>d, <1>e, <2>1 DEF Committed, MarkerSound
  <2>3. LeavingSound'
    BY <1>a, <2>1, <2>2, LoneLeaving DEF LeavingSoundAt, JournalSteps
  <2>4. DurableSame
    BY <1>b, <2>1, <2>2 DEF DurableSame, Durable, Load
  <2> QED BY <2>3, <2>4
<1>12. ASSUME NEW p \in Procs, DropMarker(p) PROVE LeavingSound' /\ DurableSame
  <2>1. /\ pc[p] = "dropMarker" /\ UNCHANGED <<dl, backup, journal>> /\ pending' = NoFile
        /\ pc'[p] \in {"prepare", "leaveJournal", "done", "failed"}
        /\ \A q \in Procs : q # p => pc'[q] = pc[q]
        /\ pending # NoFile /\ backup = NoFile
    BY <1>12, <1>b, <1>c DEF DropMarker, StepSoundAt
  <2>2. LeavingSound'
    BY <1>a, <2>1, LoneLeaving DEF LeavingSoundAt, JournalSteps
  <2>3. DurableSame
    BY <1>c, <2>1 DEF LeavingSoundAt, DurableSame, Durable, Load
  <2> QED BY <2>2, <2>3
<1> QED BY <1>1, <1>2, <1>3, <1>4, <1>5, <1>6, <1>7, <1>8, <1>9, <1>10, <1>11, <1>12
        DEF Next, Work

LEMMA DurableAlways ==
  ASSUME ~StatCanFail
  PROVE  Spec => []DurableInv
<1>1. Init => DurableInv
  BY InitRecoveryInv DEF DurableInv, LeavingSound, LeavingSoundAt, Init
<1>2. DurableInv /\ [Next]_vars => DurableInv'
  BY RecoveryStep, DurableStep DEF DurableInv
<1> QED BY <1>1, <1>2, PTL DEF Spec

\* Unless an lstat fails after the journal's rename, what is durable changes
\* only with the journal: no kill, failing call, rollback or takeover of a
\* dead process's lock adds, loses or resurrects a clause.
THEOREM OnlyCommitsAreDurable ==
  ASSUME ~StatCanFail
  PROVE  Spec => OnlyCommitsChange
<1>1. DurableInv /\ [Next]_vars =>
        [DurableKnowledge' # DurableKnowledge => Len(journal') = Len(journal) + 1]_vars
  <2> SUFFICES ASSUME DurableInv, [Next]_vars, DurableKnowledge' # DurableKnowledge
               PROVE  Len(journal') = Len(journal) + 1
    OBVIOUS
  <2>1. ~DurableSame
    BY DEF DurableSame, DurableKnowledge
  <2>2. \E p \in Procs : CommitStep(p)
    BY <2>1, DurableStep
  <2>3. journal \in Seq(Entry)
    BY DEF DurableInv, RecoveryInv, TypeInv, VariableTypes
  <2> QED BY <2>2, <2>3 DEF CommitStep
<1> QED BY <1>1, DurableAlways, PTL DEF Spec, OnlyCommitsChange
-----------------------------------------------------------------------------
(* Snapshots                                                               *)

\* A snapshot starts from nothing and with no mutation pending.
SnapSoundAt(p) ==
  /\ pc[p] \in {"leaveJournal", "load"} => pending = NoFile
  /\ pc[p] \notin {"load", "unlock"} => snap[p] = NothingLoaded
  /\ pc[p] = "load" => \A n \in DOMAIN snap[p] : n \in Namespaces /\ snap[p][n] = Durable(n)
SnapSound == \A p \in Procs : SnapSoundAt(p)

SnapInv == DurableInv /\ SnapSound

\* The steps of the other processes change nothing under a snapshot, which
\* keeps the mutation lock.
LEMMA OthersKeepSnapshot ==
  ASSUME ~StatCanFail, SnapInv, [Next]_vars,
         NEW q \in Procs, pc'[q] = pc[q], snap'[q] = snap[q],
         pc[q] \in {"leaveJournal", "load"} =>
           pending' \in {pending, NoFile} \/ \E p \in Procs : p # q /\ pc[p] = "publish"
  PROVE  SnapSoundAt(q)'
<1>1. CASE pc[q] \notin {"leaveJournal", "load"}
  BY <1>1 DEF SnapInv, SnapSound, SnapSoundAt
<1>2. CASE pc[q] \in {"leaveJournal", "load"}
  <2>1. mutationLock = q /\ pending = NoFile
    BY <1>2 DEF SnapInv, SnapSound, SnapSoundAt, DurableInv, RecoveryInv, TypeInv, Owners,
                MutexSteps, Endings
  <2>2. \A p \in Procs : p # q => pc[p] \notin {"publish", "append"}
    BY <2>1 DEF SnapInv, DurableInv, RecoveryInv, TypeInv, Owners, MutexSteps, Commit
  <2>3. pending' = NoFile
    BY <1>2, <2>1, <2>2
  <2>4. DurableSame
    BY <1>2, <2>2, DurableStep DEF SnapInv, CommitStep
  <2> QED BY <1>2, <2>3, <2>4 DEF SnapInv, SnapSound, SnapSoundAt, DurableSame
<1> QED BY <1>1, <1>2

\* A step that keeps the marker and takes no process to a load.
LEMMA SameMarker ==
  ASSUME ~StatCanFail, SnapInv, [Next]_vars, UNCHANGED pending, NEW p \in Procs,
         pc'[p] \notin {"load", "unlock", "leaveJournal"} => snap'[p] = NothingLoaded,
         pc'[p] = "leaveJournal" => pending = NoFile /\ snap'[p] = NothingLoaded,
         pc'[p] # "load",
         \A q \in Procs : q # p => pc'[q] = pc[q] /\ snap'[q] = snap[q]
  PROVE  SnapSound'
<1>1. SnapSoundAt(p)'
  BY DEF SnapSoundAt
<1>2. ASSUME NEW q \in Procs, q # p PROVE SnapSoundAt(q)'
  BY <1>2, OthersKeepSnapshot
<1> QED BY <1>1, <1>2 DEF SnapSound

LEMMA SnapStep ==
  ASSUME ~StatCanFail, SnapInv, [Next]_vars
  PROVE  SnapSound'
<1> USE DEF Goto, Steps, Commit, Recovery, Endings
<1>a. VariableTypes /\ DurableInv /\ SnapSound /\ MarkerSound /\ Prepared
  BY DEF SnapInv, DurableInv, RecoveryInv, TypeInv, FilesSound
<1>b. /\ pc \in [Procs -> Steps] /\ snap \in [Procs -> PartialKnowledge]
      /\ onward \in [Procs -> {"prepare", "leaveJournal", "done", "failed"}]
  BY <1>a DEF VariableTypes
<1>c. \A q \in Procs : pc[q] \notin {"load", "unlock"} => snap[q] = NothingLoaded
  BY <1>a DEF SnapSound, SnapSoundAt
<1>1. ASSUME NEW p \in Procs,
             \/ Start(p) \/ Call(p) \/ CallNote(p) \/ Exit(p) \/ Crash(p)
             \/ LockMutation(p) \/ LockJournal(p) \/ LockForNote(p) \/ TimeOut(p) \/ Unlock(p)
      PROVE  SnapSound'
  BY <1>1, <1>b, <1>c, SameMarker
  DEF Start, Call, CallNote, Exit, Crash, LockMutation, LockJournal, LockForNote, TimeOut,
      Unlock, Return, files, locals
<1>2. ASSUME NEW p \in Procs, Decide(p) \/ Note(p) \/ SnapshotReturn(p) PROVE SnapSound'
  BY <1>2, <1>b, <1>c, SameMarker DEF Decide, Note, SnapshotReturn, Return, files, locals
<1>3. ASSUME NEW p \in Procs,
             \/ Prepare(p) \/ SetAside(p) \/ Install(p) \/ AppendJournal(p) \/ CleanupFails(p)
             \/ DropBackup(p) \/ DropTarget(p) \/ Restore(p) \/ DropNext(p)
      PROVE  SnapSound'
  BY <1>3, <1>b, <1>c, SameMarker
  DEF Prepare, SetAside, Install, AppendJournal, CleanupFails, DropBackup, DropTarget, Restore,
      DropNext, RollBackAndThrow, RollBack, files, locals
<1>4. ASSUME NEW p \in Procs, Recover(p) PROVE SnapSound'
  <2>1. /\ pc[p] = "recover" /\ UNCHANGED <<pending, snap>>
        /\ pc'[p] = "leaveJournal" => pending = NoFile
        /\ pc'[p] \notin {"load", "unlock"}
        /\ \A q \in Procs : q # p => pc'[q] = pc[q]
    BY <1>4, <1>b DEF Recover, RollBack, locals
  <2> QED BY <1>c, <2>1, SameMarker
<1>5. ASSUME NEW p \in Procs, Publish(p) PROVE SnapSound'
  <2>1. /\ pc[p] = "publish" /\ pc'[p] \in {"setAside", "install", "failed"} /\ snap' = snap
        /\ \A q \in Procs : q # p => pc'[q] = pc[q]
    BY <1>5, <1>b DEF Publish, locals
  <2>2. SnapSoundAt(p)'
    BY <1>c, <2>1 DEF SnapSoundAt
  <2>3. ASSUME NEW q \in Procs, q # p PROVE SnapSoundAt(q)'
    BY <2>1, <2>3, OthersKeepSnapshot
  <2> QED BY <2>2, <2>3 DEF SnapSound
<1>6. ASSUME NEW p \in Procs, DropMarker(p) PROVE SnapSound'
  <2>1. /\ pc[p] = "dropMarker" /\ pc'[p] \in {"prepare", "leaveJournal", "done", "failed"}
        /\ pending' = NoFile /\ snap' = snap
        /\ \A q \in Procs : q # p => pc'[q] = pc[q]
    BY <1>6, <1>b DEF DropMarker, locals
  <2>2. SnapSoundAt(p)'
    BY <1>c, <2>1 DEF SnapSoundAt
  <2>3. ASSUME NEW q \in Procs, q # p PROVE SnapSoundAt(q)'
    BY <2>1, <2>3, OthersKeepSnapshot
  <2> QED BY <2>2, <2>3 DEF SnapSound
<1>7. ASSUME NEW p \in Procs, LeaveJournal(p) PROVE SnapSound'
  <2>1. /\ pc[p] \in Endings /\ pc'[p] \in {"unlock", "load", "unlockFailed"}
        /\ pc'[p] = "load" => pc[p] = "leaveJournal"
        /\ pending' = pending /\ snap' = snap
        /\ \A q \in Procs : q # p => pc'[q] = pc[q]
    BY <1>7, <1>b DEF LeaveJournal, files, locals
  <2>2. snap'[p] = NothingLoaded
    BY <1>c, <2>1
  <2>3. DOMAIN snap'[p] = {}
    BY <2>2 DEF NothingLoaded
  <2>4. SnapSoundAt(p)'
    BY <1>a, <2>1, <2>2, <2>3 DEF SnapSound, SnapSoundAt
  <2>5. ASSUME NEW q \in Procs, q # p PROVE SnapSoundAt(q)'
    BY <2>1, <2>5, OthersKeepSnapshot
  <2> QED BY <2>4, <2>5 DEF SnapSound
<1>8. ASSUME NEW p \in Procs, SnapshotLoad(p) PROVE SnapSound'
  <2>1. /\ pc[p] = "load" /\ UNCHANGED <<dl, backup, pending, journal, pc>>
        /\ \A q \in Procs : q # p => snap'[q] = snap[q]
    BY <1>8, <1>b DEF SnapshotLoad, files
  <2>2. PICK n \in Namespaces \ DOMAIN snap[p] : snap'[p] = LoadMore(snap[p], n)
    BY <1>8, <1>b DEF SnapshotLoad
  <2>3. /\ pending = NoFile
        /\ \A m \in DOMAIN snap[p] : m \in Namespaces /\ snap[p][m] = Durable(m)
    BY <1>a, <2>1 DEF SnapSound, SnapSoundAt
  <2>4. \A m \in DOMAIN snap'[p] : m \in Namespaces /\ snap'[p][m] = Durable(m)
    <3>1. Load(n) = Durable(n)
      BY <2>3 DEF Durable
    <3> QED BY <2>2, <2>3, <3>1 DEF LoadMore
  <2>5. DurableSame
    BY <2>1, FilesKept
  <2>6. SnapSoundAt(p)'
    BY <2>1, <2>3, <2>4, <2>5 DEF SnapSoundAt, DurableSame
  <2>7. ASSUME NEW q \in Procs, q # p PROVE SnapSoundAt(q)'
    BY <2>1, <2>7, OthersKeepSnapshot
  <2> QED BY <2>6, <2>7 DEF SnapSound
<1>9. CASE UNCHANGED vars
  BY <1>9, OthersKeepSnapshot DEF SnapSound, vars, files, locals
<1> QED BY <1>1, <1>2, <1>3, <1>4, <1>5, <1>6, <1>7, <1>8, <1>9 DEF Next, Work

\* Unless an lstat fails after the journal's rename, what knowledgeSnapshot
\* has loaded so far is the durable knowledge, at every moment until it returns.
THEOREM SnapshotsConsistent ==
  ASSUME ~StatCanFail
  PROVE  Spec => []SnapshotConsistent
<1>1. Init => SnapSound
  BY DEF Init, SnapSound, SnapSoundAt
<1>2. SnapSound /\ DurableInv /\ DurableInv' /\ [Next]_vars => SnapSound'
  BY SnapStep DEF SnapInv
<1>3. SnapSound => SnapshotConsistent
  BY DEF SnapSound, SnapSoundAt, SnapshotConsistent
<1> QED BY <1>1, <1>2, <1>3, DurableAlways, PTL DEF Spec
-----------------------------------------------------------------------------
(* The atomic store                                                        *)

\* What was decided on the durable knowledge before the recovery holds until the commit.
Decided == \A p \in Procs :
  pc[p] \in Commit \cup Recovery /\ onward[p] = "prepare" =>
    /\ task[p] \in Requests
    /\ draft[p].settled =>
         /\ Outcome(task[p], DurableKnowledge, journal) = "change"
         /\ draft[p].entry = EntryOf(task[p], DurableKnowledge, journal)
         /\ draft[p].body = Candidate(task[p], DurableKnowledge[task[p].ns])

\* The body prepared is the one installed.
InstalledAt(p) ==
  /\ pc[p] \in {"publish", "setAside", "install"} => next = draft[p].body
  /\ pc[p] = "append" => dl[draft[p].entry.ns] = draft[p].body
Installed == \A p \in Procs : InstalledAt(p)

StoreInv == DurableInv /\ Decided /\ Installed

\* The process at one of these steps is the only one there.
LEMMA Alone ==
  ASSUME DurableInv, NEW p \in Procs, pc[p] \in JournalSteps
  PROVE  journalLock = p /\ \A q \in Procs : q # p => pc[q] \notin JournalSteps
BY OthersIdle DEF DurableInv, RecoveryInv, TypeInv, Owners

\* Steps that prepare nothing new.
LEMMA DecidedKept ==
  ASSUME Decided, DurableSame, UNCHANGED journal,
         \A q \in Procs : pc'[q] \in Commit \cup Recovery /\ onward'[q] = "prepare" =>
           /\ pc[q] \in Commit \cup Recovery /\ onward[q] = "prepare"
           /\ draft'[q] = draft[q] /\ task'[q] = task[q]
  PROVE  Decided'
<1>1. DurableKnowledge' = DurableKnowledge
  BY DEF DurableSame, DurableKnowledge
<1> QED BY <1>1 DEF Decided

\* Steps that take no process to, or along, the steps of a commit.
LEMMA InstalledIdle ==
  ASSUME Installed,
         \A q \in Procs : pc'[q] \in Commit \ {"prepare"} =>
           pc'[q] = pc[q] /\ UNCHANGED <<dl, next>> /\ draft'[q] = draft[q]
  PROVE  Installed'
BY DEF Installed, InstalledAt, Commit

LEMMA InstalledAlone ==
  ASSUME StoreInv, NEW p \in Procs, pc[p] \in JournalSteps,
         \A q \in Procs : q # p => pc'[q] = pc[q], InstalledAt(p)'
  PROVE  Installed'
<1>1. \A q \in Procs : q # p => pc'[q] \notin JournalSteps
  BY Alone DEF StoreInv
<1> QED BY <1>1 DEF Installed, InstalledAt, JournalSteps, Commit

LEMMA StoreInvStep ==
  ASSUME ~StatCanFail, StoreInv, [Next]_vars
  PROVE  Decided' /\ Installed'
<1> USE MutationCommitAssumption DEF Goto, Steps, Commit, Recovery, Endings
<1>a. /\ VariableTypes /\ Owners /\ Prepared /\ RecoveryInv /\ StepSound
      /\ DurableInv /\ Decided /\ Installed
  BY DEF StoreInv, DurableInv, RecoveryInv, TypeInv, FilesSound
<1>b. /\ pc \in [Procs -> Steps] /\ draft \in [Procs -> {NoFile} \cup Draft]
      /\ onward \in [Procs -> {"prepare", "leaveJournal", "done", "failed"}]
      /\ task \in [Procs -> Tasks] /\ journal \in Seq(Entry)
      /\ dl \in [Namespaces -> {NoFile} \cup SUBSET Clauses]
  BY <1>a DEF VariableTypes
<1>c. DurableSame \/ \E p \in Procs : CommitStep(p)
  BY <1>a, DurableStep
<1>1. ASSUME NEW p \in Procs,
             \/ Start(p) \/ Call(p) \/ CallNote(p) \/ Exit(p) \/ Crash(p)
             \/ LockMutation(p) \/ LockJournal(p) \/ LockForNote(p) \/ TimeOut(p)
             \/ LeaveJournal(p) \/ Unlock(p) \/ SnapshotLoad(p) \/ SnapshotReturn(p)
      PROVE  Decided' /\ Installed'
  <2>1. UNCHANGED files
    BY <1>1 DEF Start, Call, CallNote, Exit, Crash, LockMutation, LockJournal, LockForNote,
                TimeOut, LeaveJournal, Unlock, SnapshotLoad, SnapshotReturn, Return
  <2>2. DurableSame
    BY <2>1, FilesKept DEF files
  <2>3. Decided'
    BY <1>1, <1>a, <1>b, <2>1, <2>2, DecidedKept
    DEF Start, Call, CallNote, Exit, Crash, LockMutation, LockJournal, LockForNote, TimeOut,
        LeaveJournal, Unlock, SnapshotLoad, SnapshotReturn, Return, files, locals
  <2>4. Installed'
    BY <1>1, <1>a, <1>b, <2>1, InstalledIdle
    DEF Start, Call, CallNote, Exit, Crash, LockMutation, LockJournal, LockForNote, TimeOut,
        LeaveJournal, Unlock, SnapshotLoad, SnapshotReturn, Return, files, locals
  <2> QED BY <2>3, <2>4
<1>2. ASSUME NEW p \in Procs, Decide(p) PROVE Decided' /\ Installed'
  <2> DEFINE req == task[p]
             outcome == Outcome(req, Loaded, journal)
             entry == EntryOf(req, Loaded, journal)
             body == Candidate(req, Load(req.ns))
  <2>1. /\ pc[p] = "decide" /\ req \in Requests /\ req.ns \in Namespaces
        /\ UNCHANGED <<dl, next, backup, pending, journalLock, task>>
        /\ pc'[p] \in {"failed", "done", "recover"}
        /\ \A q \in Procs : q # p =>
             pc'[q] = pc[q] /\ draft'[q] = draft[q] /\ onward'[q] = onward[q]
    BY <1>2, <1>a, <1>b, RequestFields DEF Decide, Prepared, locks
  <2>2. Installed'
    BY <1>a, <2>1, InstalledIdle
  <2>3. \A q \in Procs : q # p => pc'[q] \notin Commit \cup Recovery
    BY <1>a, <2>1, Alone DEF JournalSteps
  <2>4. Decided'
    <3>1. CASE outcome = "change"
      <4>1. /\ onward'[p] = "prepare" /\ UNCHANGED journal
            /\ draft'[p] = [entry |-> entry, body |-> body,
                            settled |-> Loaded = DurableKnowledge]
        BY <1>2, <1>b, <3>1 DEF Decide
      <4>2. DurableKnowledge' = DurableKnowledge
        BY <2>1, <4>1, FilesKept DEF DurableSame, DurableKnowledge
      <4>3. Load(req.ns) = Loaded[req.ns]
        BY <2>1 DEF Loaded
      <4>4. ASSUME draft'[p].settled PROVE Loaded = DurableKnowledge
        BY <4>1, <4>4
      <4> QED BY <2>1, <2>3, <3>1, <4>1, <4>2, <4>3, <4>4 DEF Decided
    <3>2. CASE outcome # "change"
      <4>1. pc'[p] \in {"failed", "done"}
        BY <1>2, <1>b, <3>2 DEF Decide
      <4> QED BY <2>3, <4>1 DEF Decided
    <3> QED BY <3>1, <3>2
  <2> QED BY <2>2, <2>4
<1>3. ASSUME NEW p \in Procs, Note(p) PROVE Decided' /\ Installed'
  <2>1. /\ pc[p] = "note" /\ pc'[p] \in {"off", "ready"}
        /\ \A q \in Procs : q # p =>
             pc'[q] = pc[q] /\ draft'[q] = draft[q] /\ onward'[q] = onward[q]
    BY <1>3, <1>a, <1>b DEF Note, Return
  <2>2. \A q \in Procs : q # p => pc'[q] \notin JournalSteps
    BY <1>a, <2>1, Alone DEF JournalSteps
  <2> QED BY <2>1, <2>2 DEF Decided, Installed, InstalledAt, JournalSteps
\* A rollback within a commit.
<1>d. ASSUME NEW p \in Procs, pc[p] \in Commit, RollBackAndThrow(p),
             UNCHANGED <<files, draft, task, journalLock>>
      PROVE  Decided' /\ Installed'
  <2>1. /\ pc'[p] \in {"dropTarget", "stuck", "dropNext"} /\ onward'[p] = "failed"
        /\ \A q \in Procs : q # p => pc'[q] = pc[q] /\ onward'[q] = onward[q]
    BY <1>d, <1>b DEF RollBackAndThrow, RollBack
  <2>2. DurableSame
    BY <1>d, FilesKept DEF files
  <2>3. Decided'
    BY <1>a, <1>d, <2>1, <2>2, DecidedKept DEF files
  <2>4. Installed'
    BY <1>a, <1>d, <2>1, InstalledIdle DEF files
  <2> QED BY <2>3, <2>4
\* The steps of a commit and a recovery keep what was decided.
<1>e. ASSUME NEW p \in Procs, pc[p] \in Commit \cup Recovery,
             \A q \in Procs : q # p => pc'[q] = pc[q] /\ onward'[q] = onward[q],
             UNCHANGED <<journal, draft, task, journalLock>>,
             onward'[p] = "prepare" => onward[p] = "prepare",
             pc[p] # "append", InstalledAt(p)'
      PROVE  Decided' /\ Installed'
  <2>1. \A q \in Procs : pc[q] # "append"
    BY <1>a, <1>e, Alone DEF JournalSteps
  <2>2. DurableSame
    BY <1>c, <2>1 DEF CommitStep
  <2>3. Decided'
    <3>1. \A q \in Procs : pc'[q] \in Commit \cup Recovery /\ onward'[q] = "prepare" =>
            pc[q] \in Commit \cup Recovery /\ onward[q] = "prepare"
      BY <1>e
    <3> QED BY <1>a, <1>e, <2>2, <3>1, DecidedKept
  <2>4. Installed'
    BY <1>e, InstalledAlone DEF JournalSteps
  <2> QED BY <2>3, <2>4
<1>4. ASSUME NEW p \in Procs, Prepare(p) PROVE Decided' /\ Installed'
  <2>1. /\ pc[p] = "prepare"
        /\ \/ pc'[p] = "publish" /\ next' = draft[p].body
           \/ pc'[p] = "failed"
        /\ \A q \in Procs : q # p => pc'[q] = pc[q]
        /\ UNCHANGED <<pending, journal, draft, task, journalLock, onward>>
    BY <1>4, <1>a, <1>b DEF Prepare, locks, locals
  <2>2. InstalledAt(p)'
    BY <2>1 DEF InstalledAt
  <2> QED BY <2>1, <2>2, <1>e
<1>5. ASSUME NEW p \in Procs, Publish(p) PROVE Decided' /\ Installed'
  <2>1. /\ pc[p] = "publish"
        /\ \/ pc'[p] \in {"setAside", "install"} /\ next' = next
           \/ pc'[p] = "failed"
        /\ \A q \in Procs : q # p => pc'[q] = pc[q]
        /\ UNCHANGED <<journal, draft, task, journalLock, onward>>
    BY <1>5, <1>a, <1>b DEF Publish, locks, locals
  <2>2. InstalledAt(p)'
    BY <1>a, <2>1 DEF Installed, InstalledAt
  <2> QED BY <2>1, <2>2, <1>e
<1>6. ASSUME NEW p \in Procs, SetAside(p) PROVE Decided' /\ Installed'
  <2>1. CASE RollBackAndThrow(p) /\ UNCHANGED <<dl, backup>>
    BY <1>6, <2>1, <1>d DEF SetAside, files, locks
  <2>2. CASE pc' = [pc EXCEPT ![p] = "install"] /\ UNCHANGED onward
    <3>1. /\ pc[p] = "setAside" /\ pc'[p] = "install"
          /\ \A q \in Procs : q # p => pc'[q] = pc[q]
          /\ UNCHANGED <<next, journal, draft, task, journalLock, onward>>
      BY <1>6, <1>b, <2>2 DEF SetAside, locks
    <3>2. InstalledAt(p)'
      BY <1>a, <3>1 DEF Installed, InstalledAt
    <3> QED BY <3>1, <3>2, <1>e
  <2> QED BY <1>6, <2>1, <2>2 DEF SetAside
<1>7. ASSUME NEW p \in Procs, Install(p) PROVE Decided' /\ Installed'
  <2>1. CASE RollBackAndThrow(p) /\ UNCHANGED <<dl, next>>
    BY <1>7, <2>1, <1>d DEF Install, files, locks
  <2>2. CASE /\ dl' = [dl EXCEPT ![draft[p].entry.ns] = next]
             /\ pc' = [pc EXCEPT ![p] = "append"] /\ UNCHANGED onward
    <3>1. /\ pc[p] = "install" /\ pc'[p] = "append"
          /\ \A q \in Procs : q # p => pc'[q] = pc[q]
          /\ UNCHANGED <<journal, draft, task, journalLock, onward>>
      BY <1>7, <1>b, <2>2 DEF Install, locks
    <3>2. draft[p].entry.ns \in Namespaces
      BY <1>a, <3>1 DEF Prepared, Draft, Entry
    <3>3. InstalledAt(p)'
      BY <1>a, <1>b, <2>2, <3>1, <3>2 DEF Installed, InstalledAt
    <3> QED BY <3>1, <3>3, <1>e
  <2> QED BY <1>7, <2>1, <2>2 DEF Install
<1>8. ASSUME NEW p \in Procs, AppendJournal(p) PROVE Decided' /\ Installed'
  <2>1. CASE RollBackAndThrow(p) /\ UNCHANGED journal
    BY <1>8, <2>1, <1>d DEF AppendJournal, files, locks
  <2>2. CASE pc' = [pc EXCEPT ![p] = "dropBackup"] /\ onward' = [onward EXCEPT ![p] = "done"]
    <3>1. /\ pc[p] = "append" /\ pc'[p] = "dropBackup" /\ onward'[p] = "done"
          /\ \A q \in Procs : q # p => pc'[q] = pc[q]
          /\ UNCHANGED journalLock
      BY <1>8, <1>b, <2>2 DEF AppendJournal, locks
    <3>2. \A q \in Procs : q # p => pc'[q] \notin JournalSteps
      BY <1>a, <3>1, Alone DEF JournalSteps
    <3>3. Decided' /\ Installed'
      BY <3>1, <3>2 DEF Decided, Installed, InstalledAt, JournalSteps
    <3> QED BY <3>3
  <2> QED BY <1>8, <2>1, <2>2 DEF AppendJournal
<1>9. ASSUME NEW p \in Procs, Recover(p) PROVE Decided' /\ Installed'
  <2>1. /\ pc[p] = "recover" /\ \A q \in Procs : q # p => pc'[q] = pc[q]
        /\ \/ pc'[p] \in {"stuck", "dropBackup", "dropTarget", "dropNext"}
           \/ pending = NoFile /\ pc'[p] = onward[p]
        /\ UNCHANGED <<pending, journal, draft, task, journalLock, onward>>
    BY <1>9, <1>b DEF Recover, RollBack, locks, locals
  <2>2. InstalledAt(p)'
    BY <1>b, <2>1 DEF InstalledAt
  <2> QED BY <1>b, <2>1, <2>2, <1>e
<1>10. ASSUME NEW p \in Procs, CleanupFails(p) PROVE Decided' /\ Installed'
  <2>1. /\ pc[p] \in Recovery
        /\ pc'[p] \in {"recover", "failed"} /\ onward'[p] \in {"failed", onward[p]}
        /\ \A q \in Procs : q # p => pc'[q] = pc[q] /\ onward'[q] = onward[q]
        /\ UNCHANGED <<pending, journal, draft, task, journalLock>>
    BY <1>10, <1>b DEF CleanupFails, files, locks
  <2>2. InstalledAt(p)'
    BY <2>1 DEF InstalledAt
  <2> QED BY <2>1, <2>2, <1>e
<1>11. ASSUME NEW p \in Procs,
              DropBackup(p) \/ DropTarget(p) \/ Restore(p) \/ DropNext(p)
       PROVE  Decided' /\ Installed'
  <2>1. /\ pc[p] \in Recovery /\ pc'[p] \in Recovery
        /\ \A q \in Procs : q # p => pc'[q] = pc[q]
        /\ UNCHANGED <<pending, journal, draft, task, journalLock, onward>>
    BY <1>11, <1>b DEF DropBackup, DropTarget, Restore, DropNext, locks, locals
  <2>2. InstalledAt(p)'
    BY <2>1 DEF InstalledAt
  <2> QED BY <2>1, <2>2, <1>e
<1>12. ASSUME NEW p \in Procs, DropMarker(p) PROVE Decided' /\ Installed'
  <2>1. /\ pc[p] = "dropMarker" /\ pc'[p] = onward[p] /\ pending' = NoFile
        /\ \A q \in Procs : q # p => pc'[q] = pc[q]
        /\ UNCHANGED <<journal, draft, task, journalLock, onward>>
    BY <1>12, <1>b DEF DropMarker, locks, locals
  <2>2. InstalledAt(p)'
    BY <1>b, <2>1 DEF InstalledAt
  <2> QED BY <2>1, <2>2, <1>e
<1>13. CASE UNCHANGED vars
  <2>1. DurableSame
    BY <1>13, FilesKept DEF vars, files
  <2> QED BY <1>13, <1>a, <2>1, DecidedKept, InstalledIdle DEF vars, files, locks, locals
<1> QED BY <1>1, <1>2, <1>3, <1>4, <1>5, <1>6, <1>7, <1>8, <1>9, <1>10, <1>11, <1>12, <1>13
        DEF Next, Work

\* KnowledgeStore decides and records with the same operators.
LEMMA SameEffect ==
  ASSUME NEW req, NEW current
  PROVE  /\ Store!Ended(req, current) = Ended(req, current)
         /\ Store!Kept(req, current) = Kept(req, current)
         /\ Store!Candidate(req, current) = Candidate(req, current)
         /\ Store!Added(req, current) = Added(req, current)
         /\ Store!NoEffect(req, current) = NoEffect(req, current)
<1>1. Store!Archived(req, current) = Archived(req, current)
  BY DEF Archived, Ended, Kept, Store!Archived, Store!Ended, Store!Kept
<1>2. Store!Added(req, current) = Added(req, current)
  BY <1>1 DEF Added, Kept, Store!Added, Store!Kept
<1> QED BY <1>2 DEF Ended, Kept, Candidate, NoEffect,
        Store!Ended, Store!Kept, Store!Candidate, Store!NoEffect

LEMMA SameDecision ==
  ASSUME NEW req, NEW kb, NEW log
  PROVE  /\ Store!Outcome(req, kb, log) = Outcome(req, kb, log)
         /\ Store!EntryOf(req, kb, log) = EntryOf(req, kb, log)
<1>1. /\ Store!IsRetry(req, log) = IsRetry(req, log)
      /\ Store!Conflicts(req, log) = Conflicts(req, log)
  BY DEF IsRetry, Conflicts, PriorEntries, Explicit,
         Store!IsRetry, Store!Conflicts, Store!PriorEntries, Store!Explicit
<1>2. Store!Inapplicable(req, kb) = Inapplicable(req, kb)
  BY SameEffect DEF Inapplicable, DigestBound, Store!Inapplicable, Store!DigestBound
<1>3. \A view, m : Store!Violations(m, view) = Violations(m, view)
  BY DEF Violations, Store!Violations
<1>4. Store!Enforces(req, kb[req.ns]) = Enforces(req, kb[req.ns])
  BY SameEffect DEF Enforces, DigestBound, Explicit,
                    Store!Enforces, Store!DigestBound, Store!Explicit
<1>5. Store!Rejected(req, kb) = Rejected(req, kb)
  BY <1>3, <1>4, SameEffect DEF Rejected, Store!Rejected
<1>6. Store!NoEffect(req, kb[req.ns]) = NoEffect(req, kb[req.ns])
  BY SameEffect
<1>7. Store!Outcome(req, kb, log) = Outcome(req, kb, log)
  BY <1>1, <1>2, <1>5, <1>6 DEF Outcome, Explicit, Store!Outcome, Store!Explicit
<1>8. Store!EntryOf(req, kb, log) = EntryOf(req, kb, log)
  BY SameEffect DEF EntryOf, Explicit, Store!EntryOf, Store!Explicit
<1> QED BY <1>7, <1>8

\* The append of a mutation's entry gives its namespace the body prepared.
LEMMA CommitIsWhole ==
  ASSUME StoreInv, NEW p \in Procs, AppendJournal(p), CommitStep(p)
  PROVE  /\ Len(journal) < MaxJournalEntries
         /\ DurableKnowledge' = [DurableKnowledge EXCEPT ![draft[p].entry.ns] = draft[p].body]
<1> DEFINE n == draft[p].entry.ns
<1> USE DEF Commit
<1>1. VariableTypes /\ Prepared /\ StepSoundAt(p) /\ InstalledAt(p)
  BY DEF StoreInv, DurableInv, RecoveryInv, TypeInv, FilesSound, StepSound, Installed
<1>2. /\ pc[p] = "append" /\ onward[p] = "prepare"
      /\ draft[p].entry \in Entry /\ journal \in Seq(Entry)
  BY <1>1 DEF CommitStep, Prepared, Draft, VariableTypes
<1>3. n \in Namespaces
  BY <1>2 DEF Entry
<1>4. UNCHANGED <<dl, backup, pending>> /\ Len(journal) < MaxJournalEntries
  <2>1. journal' # journal
    BY <1>2 DEF CommitStep
  <2> QED BY <2>1 DEF AppendJournal
<1>5. /\ pending # NoFile /\ pending.ns = n /\ ~Committed
      /\ pending.entry = draft[p].entry /\ dl[n] = draft[p].body /\ dl[n] # NoFile
  BY <1>1, <1>2 DEF StepSoundAt, OwnMarker, InstalledAt
<1>6. Committed'
  <2>1. InLog(draft[p].entry, journal')
    BY <1>2, AppendMembers DEF CommitStep
  <2> QED BY <1>4, <1>5, <2>1 DEF Committed, InLog
<1>7. \A m \in Namespaces : Durable(m)' = IF m = n THEN draft[p].body ELSE Durable(m)
  BY <1>4, <1>5, <1>6 DEF Durable, Load
<1> HIDE DEF n
<1>8. DurableKnowledge' = [DurableKnowledge EXCEPT ![n] = draft[p].body]
  BY <1>3, <1>7 DEF DurableKnowledge
<1> QED BY <1>4, <1>8 DEF n

\* If it was decided on the durable knowledge, it is the mutation of the atomic store.
LEMMA CommitIsChange ==
  ASSUME StoreInv, NEW p \in Procs, AppendJournal(p), CommitStep(p), draft[p].settled
  PROVE  Store!Change(task[p])
<1> DEFINE req == task[p]
           old == DurableKnowledge
           body == Candidate(req, old[req.ns])
<1> USE DEF Commit
<1>1. pc[p] = "append" /\ onward[p] = "prepare"
  BY DEF StoreInv, DurableInv, RecoveryInv, TypeInv, CommitStep, Prepared
<1>2. /\ req \in Requests /\ Outcome(req, old, journal) = "change"
      /\ draft[p].entry = EntryOf(req, old, journal) /\ draft[p].body = body
  BY <1>1 DEF StoreInv, Decided
<1>3. journal' = Append(journal, EntryOf(req, old, journal))
  BY <1>2 DEF CommitStep
<1>4. draft[p].entry.ns = req.ns
  BY <1>2 DEF EntryOf
<1>5. Len(journal) < MaxJournalEntries /\ DurableKnowledge' = [old EXCEPT ![req.ns] = body]
  BY <1>2, <1>4, CommitIsWhole
<1>6. /\ Store!Outcome(req, old, journal) = "change"
      /\ Store!EntryOf(req, old, journal) = EntryOf(req, old, journal)
      /\ Store!Candidate(req, old[req.ns]) = body
  BY <1>2, SameDecision, SameEffect
<1> HIDE DEF body, req
<1> QED BY <1>3, <1>5, <1>6 DEF Store!Change, req

\* Mutations, records and notes are steps of the atomic store, or were decided on an
\* unresolved mutation; every other step, crash and recovery is none.
LEMMA StoreStep ==
  ASSUME ~StatCanFail, StoreInv, [Next]_vars
  PROVE  [Store!Next \/ \E p \in Procs : TakesEffectUnsettled(p)]_(Store!vars)
<1> SUFFICES \/ Store!Next \/ \E p \in Procs : TakesEffectUnsettled(p)
             \/ UNCHANGED <<DurableKnowledge, journal>>
  BY DEF Store!vars
<1>a. VariableTypes /\ Prepared /\ Decided /\ DurableInv
  BY DEF StoreInv, DurableInv, RecoveryInv, TypeInv
<1>b. (~\E p \in Procs : CommitStep(p)) => DurableKnowledge' = DurableKnowledge
  BY <1>a, DurableStep DEF DurableSame, DurableKnowledge
<1>1. ASSUME NEW p \in Procs, AppendJournal(p), journal' # journal
      PROVE  Store!Next \/ TakesEffectUnsettled(p)
  <2>1. CommitStep(p)
    BY <1>1 DEF AppendJournal, CommitStep
  <2>2. task[p] \in Requests
    BY <1>a, <2>1 DEF CommitStep, Prepared, Decided, Commit
  <2>3. CASE draft[p].settled
    BY <1>1, <2>1, <2>2, <2>3, CommitIsChange DEF Store!Next
  <2>4. CASE ~draft[p].settled
    BY <1>1, <2>1, <2>4, CommitIsWhole DEF TakesEffectUnsettled, CommitStep
  <2> QED BY <2>3, <2>4
<1>2. ASSUME NEW p \in Procs, Decide(p), journal' # journal
      PROVE  Store!Next \/ TakesEffectUnsettled(p)
  <2> DEFINE req == task[p]
  <2>1. /\ pc[p] = "decide" /\ req \in Requests
        /\ Outcome(req, Loaded, journal) = "record" /\ Len(journal) < MaxJournalEntries
        /\ journal' = Append(journal, EntryOf(req, Loaded, journal))
    <3>1. pc[p] = "decide" /\ Outcome(req, Loaded, journal) = "record"
          /\ journal' = Append(journal, EntryOf(req, Loaded, journal))
          /\ ~(Len(journal) >= MaxJournalEntries)
      BY <1>2 DEF Decide
    <3>2. Len(journal) \in Nat /\ MaxJournalEntries \in Nat
      BY <1>a, MutationCommitAssumption DEF VariableTypes
    <3> QED BY <1>a, <3>1, <3>2 DEF Prepared
  <2>2. DurableKnowledge' = DurableKnowledge
    BY <1>a, <1>b, <2>1, Alone DEF CommitStep, JournalSteps, Commit
  <2>3. CASE Loaded = DurableKnowledge
    <3>1. /\ Store!Outcome(req, DurableKnowledge, journal) = "record"
          /\ journal' = Append(journal, Store!EntryOf(req, DurableKnowledge, journal))
      BY <2>1, <2>3, SameDecision
    <3>2. Store!Record(req)
      BY <2>1, <2>2, <3>1 DEF Store!Record
    <3> QED BY <2>1, <3>2 DEF Store!Next
  <2>4. CASE Loaded # DurableKnowledge
    BY <2>1, <2>2, <2>4 DEF TakesEffectUnsettled
  <2> QED BY <2>3, <2>4
<1>3. ASSUME NEW p \in Procs, Note(p), journal' # journal PROVE Store!Next
  <2>1. /\ pc[p] = "note" /\ task[p] \in Namespaces /\ Len(journal) < MaxJournalEntries
        /\ journal' = Append(journal, NoteEntry(task[p], journal))
    BY <1>3, <1>a DEF Note, Prepared
  <2>2. DurableKnowledge' = DurableKnowledge
    BY <1>a, <1>b, <2>1, Alone DEF CommitStep, JournalSteps, Commit
  <2>3. Store!NoteEntry(task[p], journal) = NoteEntry(task[p], journal)
    BY DEF NoteEntry, Store!NoteEntry
  <2>4. Store!Note(task[p])
    BY <2>1, <2>2, <2>3 DEF Store!Note
  <2> QED BY <2>1, <2>4 DEF Store!Next
<1>4. CASE journal' = journal
  <2>1. ~\E p \in Procs : CommitStep(p)
    <3> SUFFICES ASSUME NEW p \in Procs, CommitStep(p) PROVE FALSE
      OBVIOUS
    <3>1. journal \in Seq(Entry)
      BY <1>a DEF VariableTypes
    <3> DEFINE e == draft[p].entry
    <3>2. journal = Append(journal, e)
      BY <1>4 DEF CommitStep
    <3> HIDE DEF e
    <3> QED BY <3>1, <3>2
  <2> QED BY <1>b, <1>4, <2>1
<1>5. journal' # journal => \E p \in Procs : Decide(p) \/ Note(p) \/ AppendJournal(p)
  BY DEF Next, Work, vars, Start, Call, CallNote, Exit, Crash, LockMutation, LockJournal,
         LockForNote, TimeOut, LeaveJournal, Unlock, SnapshotLoad, SnapshotReturn, Prepare,
         Publish, SetAside, Install, Recover, CleanupFails, DropBackup, DropTarget, Restore,
         DropNext, DropMarker, files
<1> QED BY <1>1, <1>2, <1>3, <1>4, <1>5

\* ImplementsSettled for any processes, long-lived or not, calls, kills and failing
\* system calls, those of the recovery included, unless the lstat after the journal's
\* rename fails.
THEOREM CommandsRefineStore ==
  ASSUME ~StatCanFail
  PROVE  Spec => ImplementsSettled
<1>1. Init => Decided /\ Installed
  BY DEF Init, Decided, Installed, InstalledAt, Commit, Recovery
<1>2. DurableInv /\ Decided /\ Installed /\ [Next]_vars => Decided' /\ Installed'
  BY StoreInvStep DEF StoreInv
<1>3. Spec => []DurableInv
  BY DurableAlways
<1>4. Init => Store!Init
  <2> SUFFICES ASSUME Init PROVE Store!Init
    OBVIOUS
  <2>1. DurableKnowledge = [n \in Namespaces |-> {}]
    BY DEF Init, DurableKnowledge, Durable, Load
  <2> QED BY <2>1 DEF Init, Store!Init
<1>5. DurableInv /\ Decided /\ Installed /\ [Next]_vars =>
        [Store!Next \/ \E p \in Procs : TakesEffectUnsettled(p)]_(Store!vars)
  BY StoreStep DEF StoreInv
<1> QED BY <1>1, <1>2, <1>3, <1>4, <1>5, PTL DEF Spec, ImplementsSettled
=============================================================================
