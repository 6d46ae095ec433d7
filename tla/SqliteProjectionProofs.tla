----------------------- MODULE SqliteProjectionProofs -----------------------
(***************************************************************************)
(* The projections of SqliteProjection, for any number of connections,     *)
(* calls, transactions of their callers, failures and restarts.            *)
(***************************************************************************)
EXTENDS SqliteProjection, StoreOperationsProofs, TLAPS

\* SQLite has one writer.
OneWriter ==
  \A c, d \in Conns : txn[c] # NoTransaction /\ txn[d] # NoTransaction => c = d

Extends(t, s) == Len(s) <= Len(t) /\ \A i \in 1..Len(s) : t[i] = s[i]

\* A transaction is on top of what is committed.
Ahead ==
  \A c \in Conns : txn[c] # NoTransaction =>
    /\ txn[c].rev >= db.rev
      /\ Extends(txn[c].files.log, db.files.log)

\* A mutation works on the files of its transaction.
Working ==
  \A c \in Conns : pc[c] = "operate" => projected[c] = txn[c].files /\ job[c] \in Requests

Inv == TypeOK /\ OneWriter /\ Ahead /\ Working

LEMMA ExtendsItself == ASSUME NEW s \in Seq(Entry) PROVE Extends(s, s)
BY DEF Extends

LEMMA ExtendsAppend ==
  ASSUME NEW s \in Seq(Entry), NEW t \in Seq(Entry), NEW e \in Entry, Extends(t, s)
  PROVE  Extends(Append(t, e), s)
BY DEF Extends

LEMMA ExtendsIsPrefix ==
  ASSUME NEW s \in Seq(Entry), NEW t \in Seq(Entry), Extends(t, s)
  PROVE  IsPrefix(s, t)
<1>1. Len(s) <= Len(t) /\ Len(s) \in Nat /\ Len(t) \in Nat
  BY DEF Extends
<1>2. SubSeq(s, 1, Len(s)) = SubSeq(t, 1, Len(s))
  BY <1>1 DEF Extends
<1> QED BY <1>1, <1>2 DEF IsPrefix

LEMMA ResultTypes ==
  ASSUME NEW req \in Requests, NEW files \in Files
  PROVE  /\ Result(req, files) \in Files
         /\ Extends(Result(req, files).log, files.log)
<1>1. files.kb \in Knowledge /\ files.log \in Seq(Entry)
  BY DEF Files
<1>2. EntryOf(req, files.kb, files.log) \in Entry
  BY <1>1, EntryTypes
<1>3. Candidate(req, files.kb[req.ns]) \in SUBSET Clauses
  BY <1>1, RequestFields, EffectTypes DEF Knowledge
<1>4. CASE Outcome(req, files.kb, files.log) \in {"change", "record"}
  <2>1. Result(req, files).log = Append(files.log, EntryOf(req, files.kb, files.log))
    BY <1>4 DEF Result
  <2>2. Result(req, files).log \in Seq(Entry) /\ Extends(Result(req, files).log, files.log)
    BY <1>1, <1>2, <2>1, ExtendsItself, ExtendsAppend
  <2>3. Result(req, files) = [kb |-> Result(req, files).kb, log |-> Result(req, files).log]
    BY <1>4 DEF Result
  <2>4. Result(req, files).kb \in Knowledge
    BY <1>1, <1>3, <1>4 DEF Result, Knowledge
  <2> QED BY <2>2, <2>3, <2>4 DEF Files
<1>5. CASE Outcome(req, files.kb, files.log) \notin {"change", "record"}
  BY <1>1, <1>5, ExtendsItself DEF Result
<1> QED BY <1>4, <1>5

LEMMA TablesFields ==
  /\ \A t \in Tables : t # NoTransaction /\ t.rev \in Nat /\ t.files \in Files
  /\ \A t \in Tables : t.files.kb \in Knowledge /\ t.files.log \in Seq(Entry)
BY ProjectionAssumption DEF Tables, Files

LEMMA ViewTypes ==
  ASSUME TypeOK, NEW c \in Conns
  PROVE  View(c) \in Tables
BY DEF TypeOK, View

LEMMA PersistedTypes ==
  ASSUME NEW t \in Tables, NEW files \in Files
  PROVE  /\ Persisted(t, files) \in Tables
         /\ Persisted(t, files).rev = t.rev + 1
         /\ Persisted(t, files).files = files
BY TablesFields DEF Persisted, Tables
-----------------------------------------------------------------------------
LEMMA InitInv == Init => Inv
<1> SUFFICES ASSUME Init PROVE Inv
  OBVIOUS
<1>1. NoFiles \in Files
  BY DEF NoFiles, Files, Knowledge
<1>2. TypeOK
  BY <1>1, ProjectionAssumption DEF Init, TypeOK, Tables
<1> QED BY <1>2 DEF Init, Inv, OneWriter, Ahead, Working

LEMMA CallerBegins == ASSUME Inv, NEW c \in Conns, BeginCaller(c) PROVE Inv'
<1> USE TablesFields DEF BeginCaller, transaction, projection
<1>1. TypeOK' BY DEF Inv, TypeOK
<1>2. OneWriter' BY DEF Inv, TypeOK, OneWriter, LockFree
<1>3. Ahead'
  BY ExtendsItself DEF Inv, TypeOK, Ahead
<1>4. Working' BY DEF Inv, TypeOK, Working
<1> QED BY <1>1, <1>2, <1>3, <1>4 DEF Inv

LEMMA CallerCommits == ASSUME Inv, NEW c \in Conns, CommitCaller(c) PROVE Inv'
<1> USE TablesFields DEF CommitCaller, Commits
<1>0. txn[c] # NoTransaction /\ \A d \in Conns \ {c} : txn[d] = NoTransaction
  BY DEF Inv, TypeOK, OneWriter
<1>1. TypeOK' BY <1>0 DEF Inv, TypeOK
<1>2. OneWriter' BY <1>0 DEF Inv, TypeOK, OneWriter
<1>3. Ahead' BY <1>0 DEF Inv, TypeOK, Ahead
<1>4. Working' BY <1>0 DEF Inv, TypeOK, Working
<1> QED BY <1>1, <1>2, <1>3, <1>4 DEF Inv

LEMMA CallerRollsBack == ASSUME Inv, NEW c \in Conns, RollBackCaller(c) PROVE Inv'
<1> USE TablesFields DEF RollBackCaller
<1>1. TypeOK' BY DEF Inv, TypeOK
<1>2. OneWriter' BY DEF Inv, TypeOK, OneWriter
<1>3. Ahead' BY DEF Inv, TypeOK, Ahead
<1>4. Working' BY DEF Inv, TypeOK, Working
<1> QED BY <1>1, <1>2, <1>3, <1>4 DEF Inv

\* The steps that leave db and every transaction alone.
LEMMA Hydrates ==
  ASSUME Inv, NEW c \in Conns,
         Read(c) \/ ReadRows(c) \/ ReadRevision(c) \/ Busy(c)
         \/ \E kept \in SUBSET Namespaces : HydrationFails(c, kept)
  PROVE  Inv'
<1> USE TablesFields, ViewTypes
<1>1. UNCHANGED transaction
  BY DEF Read, ReadRows, ReadRevision, Busy, HydrationFails
<1>2. pc[c] # "operate" /\ pc'[c] # "operate" /\ \A d \in Conns : d # c => pc'[d] = pc[d]
  BY DEF Read, ReadRows, ReadRevision, Busy, HydrationFails, Goes, Inv, TypeOK
<1>3. \A d \in Conns : d # c => projected'[d] = projected[d] /\ seen'[d] = seen[d] /\ job'[d] = job[d]
  BY DEF Read, ReadRows, ReadRevision, Busy, HydrationFails, projection, Inv, TypeOK
<1>4. OneWriter' /\ Ahead' BY <1>1 DEF Inv, OneWriter, Ahead, transaction
<1>5. Working' BY <1>1, <1>2, <1>3 DEF Inv, Working, transaction
<1>6. ASSUME Read(c) PROVE TypeOK'
  BY <1>6 DEF Read, Goes, Inv, TypeOK, transaction, projection
<1>7. ASSUME ReadRows(c) PROVE TypeOK'
  BY <1>7 DEF ReadRows, Goes, Inv, TypeOK, transaction
<1>8. ASSUME ReadRevision(c) PROVE TypeOK'
  BY <1>8 DEF ReadRevision, Goes, Inv, TypeOK, transaction
<1>9. ASSUME Busy(c) PROVE TypeOK'
  BY <1>9 DEF Busy, Goes, Inv, TypeOK, transaction, projection
<1>10. ASSUME NEW kept \in SUBSET Namespaces, HydrationFails(c, kept) PROVE TypeOK'
  BY <1>10 DEF HydrationFails, Goes, Inv, TypeOK, transaction, Files, Knowledge
<1> QED BY <1>4, <1>5, <1>6, <1>7, <1>8, <1>9, <1>10 DEF Inv

LEMMA Begins ==
  ASSUME Inv, NEW c \in Conns, NEW req \in Requests, Begin(c, req)
  PROVE  Inv'
<1> USE TablesFields DEF Begin, Hydrated, Goes
<1>0. View(c) \in Tables
  BY ViewTypes DEF Inv
<1>1. TypeOK' BY <1>0 DEF Inv, TypeOK
<1>2. OneWriter' BY <1>0 DEF Inv, TypeOK, OneWriter, LockFree
<1>3. Ahead' BY <1>0, ExtendsItself DEF Inv, TypeOK, Ahead, View
<1>4. Working' BY <1>0 DEF Inv, TypeOK, Working
<1> QED BY <1>1, <1>2, <1>3, <1>4 DEF Inv

\* What Operate stores is one revision on, and extends the journal of its transaction.
LEMMA Stores ==
  ASSUME Inv, NEW c \in Conns, pc[c] = "operate"
  PROVE  LET files == Result(job[c], projected[c])
             tables == Persisted(txn[c], files)
         IN /\ txn[c] \in Tables /\ \A d \in Conns \ {c} : txn[d] = NoTransaction
            /\ files \in Files
            /\ tables \in Tables /\ tables.files = files /\ tables.rev = txn[c].rev + 1
            /\ tables.rev > db.rev
            /\ Extends(tables.files.log, db.files.log)
<1> DEFINE files == Result(job[c], projected[c])
           tables == Persisted(txn[c], files)
<1>1. txn[c] \in Tables /\ txn[c] # NoTransaction /\ \A d \in Conns \ {c} : txn[d] = NoTransaction
  BY DEF Inv, TypeOK, OneWriter
<1>2. projected[c] \in Files /\ job[c] \in Requests /\ projected[c] = txn[c].files
  BY DEF Inv, TypeOK, Working
<1>3. files \in Files /\ Extends(files.log, txn[c].files.log)
  BY <1>2, ResultTypes
<1>4. tables \in Tables /\ tables.files = files /\ tables.rev = txn[c].rev + 1
  BY <1>1, <1>3, PersistedTypes
<1>5. tables.rev > db.rev
  BY <1>1, <1>4, TablesFields DEF Inv, TypeOK, Ahead
<1>6. Extends(files.log, db.files.log)
  <2>1. Extends(txn[c].files.log, db.files.log)
    BY <1>1 DEF Inv, Ahead
  <2>2. /\ files.log \in Seq(Entry) /\ txn[c].files.log \in Seq(Entry)
        /\ db.files.log \in Seq(Entry)
    BY <1>1, <1>3, TablesFields DEF Inv, TypeOK, Files
  <2> HIDE DEF files
  <2> QED BY <1>3, <2>1, <2>2 DEF Extends
<1> QED BY <1>1, <1>3, <1>4, <1>5, <1>6

LEMMA Operates == ASSUME Inv, NEW c \in Conns, Operate(c) PROVE Inv'
<1> DEFINE files == Result(job[c], projected[c])
           tables == Persisted(txn[c], files)
<1>0. pc[c] = "operate"
  BY DEF Operate
<1>1. /\ \A d \in Conns \ {c} : txn[d] = NoTransaction
      /\ files \in Files /\ tables \in Tables /\ tables.files = files
      /\ tables.rev > db.rev /\ Extends(tables.files.log, db.files.log)
  BY <1>0, Stores
<1>2. /\ projected' = [projected EXCEPT ![c] = files]
      /\ job' = [job EXCEPT ![c] = NoCall]
      /\ pc' = [pc EXCEPT ![c] = "revision"]
      /\ UNCHANGED <<outer, seen>>
  BY DEF Operate, Goes
<1>3. CASE c \in outer
  <2>1. txn' = [txn EXCEPT ![c] = tables] /\ UNCHANGED db
    BY <1>3 DEF Operate
  <2> HIDE DEF files, tables
  <2>2. TypeOK' BY <1>1, <1>2, <1>3, <2>1, TablesFields DEF Inv, TypeOK
  <2>3. OneWriter' BY <1>1, <1>2, <2>1 DEF Inv, TypeOK, OneWriter
  <2>4. Ahead' BY <1>1, <1>2, <2>1, TablesFields DEF Inv, TypeOK, Ahead
  <2>5. Working' BY <1>1, <1>2, <2>1 DEF Inv, TypeOK, Working
  <2> QED BY <2>2, <2>3, <2>4, <2>5 DEF Inv
<1>4. CASE c \notin outer
  <2>1. db' = tables /\ txn' = [txn EXCEPT ![c] = NoTransaction]
    BY <1>4 DEF Operate, Commits
  <2> HIDE DEF files, tables
  <2>2. TypeOK' BY <1>1, <1>2, <1>4, <2>1, TablesFields DEF Inv, TypeOK
  <2>3. OneWriter' BY <1>1, <1>2, <2>1 DEF Inv, TypeOK, OneWriter
  <2>4. Ahead' BY <1>1, <1>2, <2>1 DEF Inv, TypeOK, Ahead
  <2>5. Working' BY <1>1, <1>2, <2>1 DEF Inv, TypeOK, Working
  <2> QED BY <2>2, <2>3, <2>4, <2>5 DEF Inv
<1> QED BY <1>3, <1>4

\* A savepoint rolled back leaves the transaction of the caller, if he has one.
LEMMA Undoes ==
  ASSUME Inv, NEW c \in Conns, Refused(c) \/ PersistFails(c)
  PROVE  Inv'
<1> DEFINE files == Result(job[c], projected[c])
<1>1. pc[c] = "operate" /\ Undo(c)
  BY DEF Refused, PersistFails
<1>2. files \in Files
  BY <1>1, Stores
<1>3. PICK f \in Files : projected' = [projected EXCEPT ![c] = f]
  <2>1. CASE Refused(c) BY <2>1 DEF Refused, Inv, TypeOK
  <2>2. CASE PersistFails(c) BY <2>2, <1>2 DEF PersistFails
  <2> QED BY <2>1, <2>2
<1> USE <1>1, <1>3, TablesFields DEF Undo, RolledBack, Goes
<1>4. TypeOK' BY DEF Inv, TypeOK
<1>5. OneWriter' BY DEF Inv, TypeOK, OneWriter
<1>6. Ahead' BY DEF Inv, TypeOK, Ahead
<1>7. Working' BY DEF Inv, TypeOK, Working
<1> QED BY <1>4, <1>5, <1>6, <1>7 DEF Inv

LEMMA Restarts == ASSUME Inv, NEW c \in Conns, Restart(c) PROVE Inv'
<1>0. NoFiles \in Files
  BY DEF NoFiles, Files, Knowledge
<1> USE TablesFields, <1>0 DEF Restart, Goes
<1>1. TypeOK' BY DEF Inv, TypeOK
<1>2. OneWriter' BY DEF Inv, TypeOK, OneWriter
<1>3. Ahead' BY DEF Inv, TypeOK, Ahead
<1>4. Working' BY DEF Inv, TypeOK, Working
<1> QED BY <1>1, <1>2, <1>3, <1>4 DEF Inv
-----------------------------------------------------------------------------
LEMMA StepInv == Inv /\ [Next]_vars => Inv'
<1> SUFFICES ASSUME Inv, [Next]_vars PROVE Inv'
  OBVIOUS
<1>1. CASE UNCHANGED vars
  BY <1>1 DEF Inv, TypeOK, OneWriter, Ahead, Working,
              vars, transaction, projection
<1>2. CASE Next
  BY <1>2, CallerBegins, CallerCommits, CallerRollsBack, Hydrates, Begins, Operates,
     Undoes, Restarts DEF Next
<1> QED BY <1>1, <1>2

LEMMA SpecInv == Spec => []Inv
BY InitInv, StepInv, PTL DEF Spec

\* The tables, the transactions and the projections always have their types, and a
\* transaction is open exactly between BEGIN or SAVEPOINT and its end.
THEOREM ProjectionTypes == Spec => []TypeOK
BY SpecInv, PTL DEF Inv

\* The journal in the database is only ever extended, whatever connections hydrate,
\* roll back, fail or restart in between.
THEOREM NothingIsLost == Spec => NothingLost
<1>1. ASSUME Inv, [Next]_vars PROVE [IsPrefix(db.files.log, db'.files.log)]_db
  <2> SUFFICES ASSUME db' # db PROVE IsPrefix(db.files.log, db'.files.log)
    OBVIOUS
  <2>1. PICK c \in Conns : CommitCaller(c) \/ Operate(c)
    BY <1>1 DEF Next, vars, transaction, BeginCaller, RollBackCaller, Read, ReadRows,
                ReadRevision, HydrationFails, Begin, Busy, Refused, PersistFails, Undo,
                Restart
  <2>2. db \in Tables /\ db' \in Tables
    BY <1>1, StepInv DEF Inv, TypeOK
  <2>3. Extends(db'.files.log, db.files.log)
    <3>1. CASE CommitCaller(c)
      BY <1>1, <3>1 DEF CommitCaller, Commits, Inv, TypeOK, Ahead
    <3>2. CASE Operate(c)
      <4>1. pc[c] = "operate" /\ db' \in {db, Persisted(txn[c], Result(job[c], projected[c]))}
        BY <3>2 DEF Operate, Commits
      <4> QED BY <1>1, <4>1, Stores
    <3> QED BY <2>1, <3>1, <3>2
  <2> QED BY <2>2, <2>3, TablesFields, ExtendsIsPrefix
<1> QED BY <1>1, SpecInv, PTL DEF Spec, NothingLost
-----------------------------------------------------------------------------
\* Files that keep the promises of the atomic store.
SoundFiles(files) ==
  /\ ReplayMatches(files.kb, files.log)
  /\ UniqueOperations(files.log)
  /\ EveryCallChecked => Violations(files.kb, Namespaces) = {}

\* What is committed is sound, and so is what an open transaction would commit.
AllSound ==
  /\ SoundFiles(db.files)
  /\ \A c \in Conns : txn[c] # NoTransaction => SoundFiles(txn[c].files)

LEMMA EmptyIsSound == SoundFiles(NoFiles)
<1>1. ReplayMatches(NoFiles.kb, NoFiles.log)
  BY ReplayEmpty DEF ReplayMatches, NoFiles
<1>2. UniqueOperations(NoFiles.log)
  BY DEF UniqueOperations, NoFiles
<1>3. Violations(NoFiles.kb, Namespaces) = {}
  BY NothingViolated DEF NoFiles
<1> QED BY <1>1, <1>2, <1>3 DEF SoundFiles

\* The operation of the MemoryStore keeps the files of its projection sound.
LEMMA ResultIsSound ==
  ASSUME NEW req \in Requests, NEW files \in Files, SoundFiles(files)
  PROVE  SoundFiles(Result(req, files))
<1> DEFINE e == EntryOf(req, files.kb, files.log)
           outcome == Outcome(req, files.kb, files.log)
<1>1. files.kb \in Knowledge /\ files.log \in Seq(Entry) /\ e \in Entry
  BY EntryTypes DEF Files
<1>2. CASE outcome \in {"change", "record"}
  <2>1. /\ Result(req, files).log = Append(files.log, e)
        /\ NewOperation(e, files.log)
    BY <1>1, <1>2, DecidedIsNew DEF Result
  <2>2. UniqueOperations(Result(req, files).log)
    BY <1>1, <2>1, AppendKeepsUnique DEF SoundFiles
  <2>3. CASE outcome = "change"
    <3>1. Result(req, files).kb = [files.kb EXCEPT ![req.ns] = Candidate(req, @)]
      BY <2>3 DEF Result
    <3>2. ReplayMatches(Result(req, files).kb, Result(req, files).log)
      BY <1>1, <2>1, <3>1, ChangeMatches DEF SoundFiles
    <3>3. ~NoEffect(req, files.kb[req.ns]) /\ ~Rejected(req, files.kb)
      BY <2>3 DEF Outcome
    <3>4. EveryCallChecked => Violations(Result(req, files).kb, Namespaces) = {}
      BY <3>1, <3>3, AcceptedIsSound DEF SoundFiles
    <3> QED BY <2>2, <3>2, <3>4 DEF SoundFiles
  <2>4. CASE outcome = "record"
    <3>1. Result(req, files).kb = files.kb
      BY <1>1, <2>4 DEF Result, Knowledge
    <3>2. ReplayMatches(Result(req, files).kb, Result(req, files).log)
      BY <1>1, <2>1, <2>4, <3>1, RecordIsIneffective, IneffectiveMatches DEF SoundFiles
    <3> QED BY <2>2, <3>1, <3>2 DEF SoundFiles
  <2> QED BY <1>2, <2>3, <2>4
<1>3. CASE outcome \notin {"change", "record"}
  BY <1>3 DEF Result
<1> QED BY <1>2, <1>3

LEMMA InitSound == Init => AllSound
BY EmptyIsSound DEF Init, AllSound

LEMMA StepSound == Inv /\ AllSound /\ [Next]_vars => AllSound'
<1> SUFFICES ASSUME Inv, AllSound, [Next]_vars PROVE AllSound'
  OBVIOUS
<1> USE DEF AllSound
<1>0. txn \in [Conns -> Tables \cup {NoTransaction}]
  BY DEF Inv, TypeOK
<1>1. CASE UNCHANGED transaction
  BY <1>1 DEF transaction
<1>2. ASSUME NEW c \in Conns, BeginCaller(c) PROVE AllSound'
  BY <1>0, <1>2 DEF BeginCaller
<1>3. ASSUME NEW c \in Conns, CommitCaller(c) PROVE AllSound'
  <2>1. txn[c] # NoTransaction
    BY <1>3 DEF CommitCaller, Inv, TypeOK
  <2> QED BY <1>0, <1>3, <2>1 DEF CommitCaller, Commits
<1>4. ASSUME NEW c \in Conns, RollBackCaller(c) \/ Restart(c) PROVE AllSound'
  BY <1>0, <1>4 DEF RollBackCaller, Restart
<1>5. ASSUME NEW c \in Conns, NEW req \in Requests, Begin(c, req) PROVE AllSound'
  BY <1>0, <1>5 DEF Begin, View
<1>6. ASSUME NEW c \in Conns, Operate(c) PROVE AllSound'
  <2> DEFINE files == Result(job[c], projected[c])
             tables == Persisted(txn[c], files)
  <2>1. pc[c] = "operate" /\ projected[c] = txn[c].files /\ txn[c] # NoTransaction
        /\ job[c] \in Requests /\ projected[c] \in Files
    BY <1>6 DEF Operate, Inv, Working, TypeOK
  <2>2. tables.files = files /\ SoundFiles(files)
    BY <2>1, ResultIsSound DEF Persisted
  <2>3. \/ txn' = [txn EXCEPT ![c] = tables] /\ UNCHANGED db
        \/ txn' = [txn EXCEPT ![c] = NoTransaction] /\ db' = tables
    BY <1>6 DEF Operate, Commits
  <2> HIDE DEF files, tables
  <2> QED BY <1>0, <2>2, <2>3
<1>7. ASSUME NEW c \in Conns, Refused(c) \/ PersistFails(c) PROVE AllSound'
  BY <1>0, <1>7 DEF Refused, PersistFails, Undo, RolledBack
<1> QED
  BY <1>1, <1>2, <1>3, <1>4, <1>5, <1>6, <1>7
  DEF Next, vars, Read, ReadRows, ReadRevision, HydrationFails, Busy

\* Whatever connections hydrate, wrap in transactions, roll back or lose, what is
\* committed replays from its journal, holds every supplied operation id once, and
\* violates nothing if every call is checked (withMutation).
THEOREM CommittedIsSound == Spec => []CommittedSound
<1>1. AllSound => CommittedSound
  BY DEF AllSound, SoundFiles, CommittedSound, ReplayMatches, UniqueOperations,
         EveryCallChecked, Committed!KnowledgeIsReplay, Committed!OncePerOperation,
         Committed!IntegrityKept, Committed!Replay, Committed!After, Replay, After,
         Committed!Violations, Violations
<1> QED BY <1>1, SpecInv, InitSound, StepSound, PTL DEF Spec
=============================================================================
