--------------------------- MODULE SqliteProjection ---------------------------
(***************************************************************************)
(* The memory store inside a SQLite database (src/store/sqlite-store.ts):  *)
(* the tables hold the files and a revision, and every connection has a    *)
(* projection of them in a directory of its own, on which an ordinary      *)
(* MemoryStore works.  A mutation takes the write lock, hydrates the       *)
(* projection, applies the operation, and stores the files under the next  *)
(* revision, all in a savepoint; a read hydrates only when the revision is *)
(* not the one seen last.  Callers may wrap several calls in a transaction *)
(* of their own.                                                           *)
(*                                                                         *)
(* SQLite is external: one writer at a time, a transaction sees itself,    *)
(* and everybody else sees what was committed last.                        *)
(***************************************************************************)
EXTENDS StoreOperations, Integers, SequencesExt

CONSTANTS
  Conns,             \* connections, each of a process of its own
  NoTransaction,
  NoCall,
  MaxJournalEntries, \* MAX_JOURNAL_ENTRIES
  MaxRevision,       \* bound: the last revision
  MaxFailures        \* bound: failures and restarts

VARIABLES
  db,        \* what is committed
  txn,       \* connection -> its transaction's copy
  outer,     \* the connections inside a transaction of their caller
  projected, \* connection -> the files of its projection
  seen,      \* connection -> lastRevision
  pc, job,   \* connection -> its next step, the call it makes
  failures

transaction == <<db, txn, outer>>
projection == <<projected, seen>>
vars == <<transaction, projection, pc, job, failures>>

Files == [kb : Knowledge, log : Seq(Entry)]
Tables == [rev : Nat, files : Files]

NoFiles == [kb |-> [n \in Namespaces |-> {}], log |-> <<>>]

ASSUME ProjectionAssumption ==
  /\ NoTransaction \notin Tables
  /\ NoCall \notin Requests
  /\ {MaxJournalEntries, MaxRevision, MaxFailures} \subseteq Nat

\* createSqliteMemoryStore: the schema exists, the projection is hydrated next.
Init ==
  /\ db = [rev |-> 0, files |-> NoFiles]
  /\ txn = [c \in Conns |-> NoTransaction]
  /\ outer = {}
  /\ projected = [c \in Conns |-> NoFiles]
  /\ seen = [c \in Conns |-> -1]
  /\ pc = [c \in Conns |-> "rows"]
  /\ job = [c \in Conns |-> NoCall]
  /\ failures = 0

Goes(c, step) == pc' = [pc EXCEPT ![c] = step]

\* What the statements of a connection see.
View(c) == IF txn[c] = NoTransaction THEN db ELSE txn[c]

LockFree(c) == \A d \in Conns \ {c} : txn[d] = NoTransaction

Commits(c, tables) ==
  /\ db' = tables
  /\ txn' = [txn EXCEPT ![c] = NoTransaction]

-----------------------------------------------------------------------------
(* The caller's own transactions.                                            *)

BeginCaller(c) ==
  /\ pc[c] = "idle" /\ c \notin outer /\ LockFree(c)
  /\ txn' = [txn EXCEPT ![c] = db]
  /\ outer' = outer \cup {c}
  /\ UNCHANGED <<db, projection, pc, job, failures>>

CommitCaller(c) ==
  /\ pc[c] = "idle" /\ c \in outer
  /\ Commits(c, txn[c])
  /\ outer' = outer \ {c}
  /\ UNCHANGED <<projected, seen, pc, job, failures>>

\* The projection is not told, nor the revision seen last.
RollBackCaller(c) ==
  /\ pc[c] = "idle" /\ c \in outer
  /\ txn' = [txn EXCEPT ![c] = NoTransaction]
  /\ outer' = outer \ {c}
  /\ UNCHANGED <<db, projected, seen, pc, job, failures>>

-----------------------------------------------------------------------------
(* Hydrating outside a mutation: the files, then, in a statement of its own, *)
(* the revision.                                                             *)

\* ensureFreshProjection, before any call that only reads.
Read(c) ==
  /\ pc[c] = "idle" /\ View(c).rev # seen[c]
  /\ Goes(c, "rows")
  /\ UNCHANGED <<transaction, projection, job, failures>>

ReadRows(c) ==
  /\ pc[c] = "rows"
  /\ projected' = [projected EXCEPT ![c] = View(c).files]
  /\ Goes(c, "revision")
  /\ UNCHANGED <<transaction, seen, job, failures>>

ReadRevision(c) ==
  /\ pc[c] = "revision"
  /\ seen' = [seen EXCEPT ![c] = View(c).rev]
  /\ Goes(c, "idle")
  /\ UNCHANGED <<transaction, projected, job, failures>>

\* The projection is cleared, some files are written, and an error is thrown.
HydrationFails(c, kept) ==
  /\ pc[c] = "rows" /\ failures < MaxFailures
  /\ failures' = failures + 1
  /\ projected' =
       [projected EXCEPT ![c] =
          [kb |-> [n \in Namespaces |-> IF n \in kept THEN View(c).files.kb[n] ELSE {}],
           log |-> <<>>]]
  /\ Goes(c, IF seen[c] = -1 THEN "dead" ELSE "idle")
  /\ UNCHANGED <<transaction, seen, job>>

-----------------------------------------------------------------------------
(* A mutation.                                                               *)

\* Mutation of Hydrated: files of the revision seen last are not read again.
HydratedIfChanged(c) ==
  IF View(c).rev = seen[c] THEN projected[c] ELSE View(c).files

Hydrated(c) == View(c).files

\* SAVEPOINT, the update that takes the write lock, hydrateProjection.
Begin(c, req) ==
  /\ pc[c] = "idle" /\ LockFree(c)
  /\ txn' = [txn EXCEPT ![c] = View(c)]
  /\ projected' = [projected EXCEPT ![c] = Hydrated(c)]
  /\ seen' = [seen EXCEPT ![c] = View(c).rev]
  /\ job' = [job EXCEPT ![c] = req]
  /\ Goes(c, "operate")
  /\ UNCHANGED <<db, outer, failures>>

\* Another connection is writing: the projection is hydrated all the same.
Busy(c) ==
  /\ pc[c] = "idle" /\ ~LockFree(c)
  /\ Goes(c, "rows")
  /\ UNCHANGED <<transaction, projection, job, failures>>

\* The operation of the MemoryStore returns; otherwise it throws.
Returns(req, files) ==
  CASE Outcome(req, files.kb, files.log) \in {"replay", "nothing"} -> TRUE
    [] Outcome(req, files.kb, files.log) \in {"change", "record"} ->
         Len(files.log) < MaxJournalEntries
    [] OTHER -> FALSE

Result(req, files) ==
  IF Outcome(req, files.kb, files.log) \in {"change", "record"}
  THEN [kb |-> [files.kb EXCEPT ![req.ns] =
                  IF Outcome(req, files.kb, files.log) = "change"
                  THEN Candidate(req, @) ELSE @],
        log |-> Append(files.log, EntryOf(req, files.kb, files.log))]
  ELSE files

\* Mutation of Persisted: the files that are gone remain in the table.
PersistedOver(tables, files) ==
  [rev |-> tables.rev + 1,
   files |-> [files EXCEPT !.kb =
                [n \in Namespaces |->
                   IF files.kb[n] = {} THEN tables.files.kb[n] ELSE files.kb[n]]]]

\* persistProjection: all files replaced, whether or not anything changed.
Persisted(tables, files) == [rev |-> tables.rev + 1, files |-> files]

\* The operation, persistProjection and the release of the savepoint, which
\* commits when the caller has no transaction of his own.
Operate(c) ==
  LET files == Result(job[c], projected[c])
      tables == Persisted(txn[c], files)
  IN /\ pc[c] = "operate"
     /\ Returns(job[c], projected[c])
     /\ tables.rev <= MaxRevision
     /\ projected' = [projected EXCEPT ![c] = files]
     /\ IF c \in outer
        THEN txn' = [txn EXCEPT ![c] = tables] /\ UNCHANGED db
        ELSE Commits(c, tables)
     /\ job' = [job EXCEPT ![c] = NoCall]
     /\ Goes(c, "revision")
     /\ UNCHANGED <<outer, seen, failures>>

\* The transaction when the savepoint is rolled back and released.
RolledBack(c) == IF c \in outer THEN txn[c] ELSE NoTransaction

\* The savepoint is rolled back and the projection is hydrated again.
Undo(c) ==
  /\ txn' = [txn EXCEPT ![c] = RolledBack(c)]
  /\ job' = [job EXCEPT ![c] = NoCall]
  /\ Goes(c, "rows")
  /\ UNCHANGED <<db, outer, seen>>

\* The operation throws, having changed nothing.
Refused(c) ==
  /\ pc[c] = "operate" /\ ~Returns(job[c], projected[c])
  /\ Undo(c)
  /\ UNCHANGED <<projected, failures>>

\* A statement fails after the operation has changed the projection.
PersistFails(c) ==
  /\ pc[c] = "operate" /\ Returns(job[c], projected[c])
  /\ failures < MaxFailures
  /\ failures' = failures + 1
  /\ projected' = [projected EXCEPT ![c] = Result(job[c], projected[c])]
  /\ Undo(c)

\* The process dies; another opens the database with an empty projection.
Restart(c) ==
  /\ pc[c] = "dead" \/ failures < MaxFailures
  /\ failures' = IF pc[c] = "dead" THEN failures ELSE failures + 1
  /\ txn' = [txn EXCEPT ![c] = NoTransaction]
  /\ outer' = outer \ {c}
  /\ projected' = [projected EXCEPT ![c] = NoFiles]
  /\ seen' = [seen EXCEPT ![c] = -1]
  /\ job' = [job EXCEPT ![c] = NoCall]
  /\ Goes(c, "rows")
  /\ UNCHANGED db

-----------------------------------------------------------------------------
Next ==
  \E c \in Conns :
    \/ BeginCaller(c) \/ CommitCaller(c) \/ RollBackCaller(c)
    \/ Read(c) \/ ReadRows(c) \/ ReadRevision(c)
    \/ \E kept \in SUBSET Namespaces : HydrationFails(c, kept)
    \/ \E req \in Requests : Begin(c, req)
    \/ Busy(c) \/ Operate(c) \/ Refused(c) \/ PersistFails(c)
    \/ Restart(c)

Spec == Init /\ [][Next]_vars

-----------------------------------------------------------------------------
TypeOK ==
  /\ db \in Tables
  /\ txn \in [Conns -> Tables \cup {NoTransaction}]
  /\ outer \subseteq Conns
  /\ projected \in [Conns -> Files]
  /\ seen \in [Conns -> Nat \cup {-1}]
  /\ pc \in [Conns -> {"rows", "revision", "idle", "operate", "dead"}]
  /\ job \in [Conns -> Requests \cup {NoCall}]
  /\ \A c \in Conns : txn[c] # NoTransaction <=> c \in outer \/ pc[c] = "operate"

Committed == INSTANCE KnowledgeStore WITH kb <- db.files.kb, log <- db.files.log

\* Whatever the projections hold, what is committed keeps the promises of the
\* atomic store: the journal replays to the clauses, an operation id takes effect
\* once, integrity holds (withMutation).
CommittedSound ==
  /\ Committed!KnowledgeIsReplay
  /\ Committed!OncePerOperation
  /\ Committed!IntegrityKept

\* No commit undoes an entry of another, as it would if a mutation were computed
\* from a projection that is behind (withMutation's hydrateProjection).
NothingLost == [][IsPrefix(db.files.log, db'.files.log)]_db

\* A read never answers with memory its caller rolled back: what a projection holds
\* that a read would use as it is, is in the database too ("A caller-owned
\* transaction therefore commits or rolls back application rows and governed memory
\* together").  It does not hold: the projection is not told of the rollback, and
\* the revision it counted is used again by the next commit of another connection.
ReadsNothingRolledBack ==
  \A c \in Conns :
    pc[c] = "idle" /\ seen[c] = View(c).rev =>
      IsPrefix(projected[c].log, View(c).files.log)
=============================================================================
