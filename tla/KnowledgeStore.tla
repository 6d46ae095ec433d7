--------------------------- MODULE KnowledgeStore ---------------------------
(***************************************************************************)
(* What the store promises its callers: each mutation happens in one       *)
(* step, as decided on the knowledge and the journal of that moment, and   *)
(* a call that is refused, fails or dies has happened entirely or not at   *)
(* all.  MutationCommit implements it with files, markers and recovery.    *)
(***************************************************************************)
EXTENDS StoreOperations

CONSTANT MaxJournalEntries  \* MAX_JOURNAL_ENTRIES

VARIABLES
  kb,   \* namespace -> its clauses
  log   \* the journal

vars == <<kb, log>>

Init ==
  /\ kb = [n \in Namespaces |-> {}]
  /\ log = <<>>

\* A mutation takes effect.
Change(req) ==
  /\ Len(log) < MaxJournalEntries
  /\ Outcome(req, kb, log) = "change"
  /\ kb' = [kb EXCEPT ![req.ns] = Candidate(req, @)]
  /\ log' = Append(log, EntryOf(req, kb, log))

\* A call with an operation id changes nothing, and the id is recorded.
Record(req) ==
  /\ Len(log) < MaxJournalEntries
  /\ Outcome(req, kb, log) = "record"
  /\ log' = Append(log, EntryOf(req, kb, log))
  /\ UNCHANGED kb

Note(n) ==
  /\ Len(log) < MaxJournalEntries
  /\ log' = Append(log, NoteEntry(n, log))
  /\ UNCHANGED kb

Next ==
  \/ \E req \in Requests : Change(req) \/ Record(req)
  \/ \E n \in Namespaces : Note(n)

Spec == Init /\ [][Next]_vars
-----------------------------------------------------------------------------
TypeOK ==
  /\ kb \in Knowledge
  /\ log \in Seq(Entry)

\* The journal tells the whole story: replaying it gives the clauses stored
\* (recordedSnapshot throws IncompleteHistoryError when it does not).
KnowledgeIsReplay == \A n \in Namespaces : kb[n] = Replay(log, n)

\* A caller-supplied operation id takes effect at most once per operation and
\* namespace, however often the call is retried.
OncePerOperation ==
  \A i, j \in DOMAIN log :
    /\ log[i].id \in OperationIds
    /\ log[i].op = log[j].op
    /\ log[i].ns = log[j].ns
    /\ log[i].id = log[j].id
    => i = j

\* When every call enforces integrity over all namespaces, no forbidden set of
\* clauses is ever stored, wherever its members are.
IntegrityKept ==
  (\A req \in Requests : req.mode # "none" /\ req.view = Namespaces) =>
    Violations(kb, Namespaces) = {}
=============================================================================
