-------------------------- MODULE JournalRotation --------------------------
(***************************************************************************)
(* How src/store/store.ts rotates its journal: compactJournal verifies the *)
(* checkpoints, repairs what an interrupted rotation left, renames         *)
(* journal.log into a numbered, digest-named segment and publishes the     *)
(* checkpoint of that position.  Readers put the segments and the active   *)
(* journal together again.                                                 *)
(*                                                                         *)
(* compactJournal holds the mutation lock and the journal lock from its    *)
(* first step to its last.  That the locks exclude, so that there is one   *)
(* rotation at a time, and note and the mutations run when there is none,  *)
(* is assumed here; FileLock says when they do not.                        *)
(* A mutation is one step here: MutationCommit implements that step.       *)
(***************************************************************************)
EXTENDS StoreOperations, FiniteSets

CONSTANTS
  Compactions,        \* the parameters compactJournal is called with
  CheckpointIds,      \* operation ids supplied to compactJournal
  Instants,           \* values supplied for `at`
  NoInstant,          \* no `at` was supplied
  Recovered,          \* the id of a checkpoint a repair publishes
  MaxJournalEntries,  \* MAX_JOURNAL_ENTRIES, of one journal file
  MaxSegments,        \* MAX_JOURNAL_SEGMENTS
  MaxTotalEntries,    \* MAX_TOTAL_JOURNAL_ENTRIES
  MaxFailures,        \* bound: interrupted rotations in a behaviour
  Absent             \* no request, draft or answer

\* JournalCompactionOptions.
Compaction == [id : CheckpointIds \cup {Implicit}, at : Instants \cup {NoInstant},
               dryRun : BOOLEAN]

ASSUME RotationAssumption ==
  /\ Compactions \subseteq Compaction
  /\ {Implicit, Recovered} \cap CheckpointIds = {}
  /\ Implicit # Recovered
  /\ NoInstant \notin Instants
  /\ {MaxJournalEntries, MaxSegments, MaxTotalEntries, MaxFailures} \subseteq Nat

VARIABLES
  kb,           \* namespace -> its clauses
  active,       \* journal.log
  segments,     \* the files of .journal-segments
  checkpoints,  \* the files of .journal-checkpoints
  step,         \* what the rotation in progress does next, or "idle"
  request,      \* its parameters
  known,        \* the checkpoints it has read or recovered
  draft,        \* the checkpoint of the segment it is about to seal
  answer,       \* what it returns
  failures,     \* interrupted rotations so far
  sealedBy      \* history: end of a segment -> the id it was rotated under

journalFiles == <<active, segments, checkpoints>>
locals == <<request, known, draft, answer>>
vars == <<kb, journalFiles, step, locals, failures, sealedBy>>

\* A segment's name has its range and its digest; the digest of a text is the
\* text.  `entries` is what the file holds.
Name == [first : Nat, last : Nat, digest : Seq(Entry)]
Segment == [name : Name, entries : Seq(Entry)]

States == UNION {[D -> SUBSET Clauses] : D \in SUBSET Namespaces}

Checkpoint == [segment : Name, id : CheckpointIds \cup {Implicit, Recovered},
               at : Instants \cup {NoInstant}, state : States]

Answer == [rotated : BOOLEAN, sequence : Nat, segmentCount : Nat]

Init ==
  /\ kb = [n \in Namespaces |-> {}]
  /\ active = <<>>
  /\ segments = {}
  /\ checkpoints = {}
  /\ step = "idle"
  /\ request = Absent
  /\ known = {}
  /\ draft = Absent
  /\ answer = Absent
  /\ failures = 0
  /\ sealedBy = [k \in {} |-> Absent]
-----------------------------------------------------------------------------
(* Reading the journal                                                     *)

\* endSequence of the last segment.
PreviousEnd ==
  CHOOSE k \in {0} \cup {s.name.last : s \in segments} :
    \A s \in segments : s.name.last <= k

\* The journal its readers see: the segments in the order of their names, and
\* then journal.log.
Logical ==
  [i \in 1..(PreviousEnd + Len(active)) |->
     IF i > PreviousEnd THEN active[i - PreviousEnd]
     ELSE LET s == CHOOSE s \in segments : i \in s.name.first..s.name.last
          IN s.entries[i - s.name.first + 1]]

\* What journalSegmentsUnlocked demands of the files, or throws: they hold what
\* their names say and form one chain without gap or overlap.
ChainAccepted ==
  /\ \A s \in segments :
       /\ s.name.digest = s.entries
       /\ s.entries # <<>>
       /\ s.name.last = s.name.first + Len(s.entries) - 1
       /\ \/ s.name.first = 1
          \/ \E t \in segments : s.name.first = t.name.last + 1
  /\ \A s, t \in segments : s.name.first = t.name.first => s = t

\* readJournalUnlocked does not throw.
JournalReadable == ChainAccepted /\ Len(Logical) <= MaxTotalEntries

\* listNamespaces: a namespace has a file once a mutation has written it.
ExistingNamespaces ==
  {Logical[i].ns : i \in {j \in DOMAIN Logical :
                            Logical[j].ended # {} \/ Logical[j].added # {}}}

\* Mutation of StateAt: the checkpoint has the knowledge of the time of repair.
StateNow(sequence) == [n \in ExistingNamespaces |-> kb[n]]

\* checkpointNamespacesAt: the namespaces that exist now, as they were then.
StateAt(sequence) ==
  [n \in ExistingNamespaces |-> Replay(SubSeq(Logical, 1, sequence), n)]

\* checkpointNamespacesAt reads the whole journal once for every namespace.
StateReadable == ExistingNamespaces = {} \/ JournalReadable

\* journalSegmentsUnlocked and assertCheckpointReplayUnlocked do not throw.
ReplayConfirmed ==
  /\ ChainAccepted
  /\ \A c \in checkpoints :
       /\ \E s \in segments : s.name = c.segment
       /\ StateReadable
       /\ c.state = StateAt(c.segment.last)

\* The segments that have no checkpoint among these.
Uncovered(some) ==
  {s \in segments : \A c \in some : c.segment # s.name}

\* A checkpoint a repair publishes has its own id and counts as one without `at`.
Artifact(name, id, at) ==
  [segment |-> name, id |-> id, at |-> at, state |-> StateAt(name.last)]

\* Mutation of Priors: the checkpoint of the operation id is not looked up.
PriorsIgnored == {}

\* The checkpoints of an earlier call with the same caller-supplied id.
Priors == {c \in known : request.id # Implicit /\ c.id = request.id}
-----------------------------------------------------------------------------
(* Appending                                                               *)

\* The call reads the whole journal: for the lookup of its operation id, and in
\* replaceFacts for the sources of the facts it ends.
ReadsJournal(req) == Explicit(req) \/ req.op \in DigestBound \cup {"supersede"}

\* A mutation, from its lookup to its commit.
Mutate(req) ==
  LET outcome == Outcome(req, kb, Logical) IN
  /\ step = "idle"
  /\ ReadsJournal(req) => JournalReadable
  /\ Len(active) < MaxJournalEntries
  /\ \/ outcome = "change" /\ kb' = [kb EXCEPT ![req.ns] = Candidate(req, @)]
     \/ outcome = "record" /\ UNCHANGED kb
  /\ active' = Append(active, EntryOf(req, kb, Logical))
  /\ UNCHANGED <<segments, checkpoints, step, locals, failures, sealedBy>>

\* Mutation of Note: it does not wait for the lock.
NoteUnlocked(n) ==
  /\ Len(active) < MaxJournalEntries
  /\ active' = Append(active, NoteEntry(n, Logical))
  /\ UNCHANGED <<kb, segments, checkpoints, step, locals, failures, sealedBy>>

\* note, and every other call that only appends.
Note(n) ==
  /\ step = "idle"
  /\ Len(active) < MaxJournalEntries
  /\ active' = Append(active, NoteEntry(n, Logical))
  /\ UNCHANGED <<kb, segments, checkpoints, step, locals, failures, sealedBy>>
-----------------------------------------------------------------------------
(* compactJournal                                                          *)

CallCompact ==
  /\ step = "idle"
  /\ request' \in Compactions
  /\ step' = "verify"
  /\ UNCHANGED <<kb, journalFiles, known, draft, answer, failures, sealedBy>>

\* The call ends, with a result or with an error, and releases the locks.
Leave ==
  /\ step' = "idle"
  /\ request' = Absent
  /\ known' = {}
  /\ draft' = Absent
  /\ answer' = Absent

Return ==
  /\ step = "done"
  /\ Leave
  /\ UNCHANGED <<kb, journalFiles, failures, sealedBy>>

\* The process is killed, or one of its system calls fails: the call ends as it
\* stands.  The locks of a killed process are taken over when they are stale.
Interrupt ==
  /\ step # "idle"
  /\ failures < MaxFailures
  /\ failures' = failures + 1
  /\ Leave
  /\ UNCHANGED <<kb, journalFiles, sealedBy>>

Verify ==
  /\ step = "verify"
  /\ \/ /\ ReplayConfirmed
        /\ known' = checkpoints
        /\ step' = "repair"
        /\ UNCHANGED <<request, draft, answer>>
     \/ ~ReplayConfirmed /\ Leave
  /\ UNCHANGED <<kb, journalFiles, failures, sealedBy>>

\* The segments without a checkpoint get one, in the order of their names.
Repair ==
  /\ step = "repair"
  /\ \/ /\ Uncovered(known) = {}
        /\ step' = "decide"
        /\ UNCHANGED <<checkpoints, locals>>
     \/ /\ StateReadable
        /\ \E s \in Uncovered(known) :
             LET recovered == Artifact(s.name, Recovered, NoInstant) IN
             /\ \A t \in Uncovered(known) : s.name.first <= t.name.first
             /\ known' = known \cup {recovered}
             /\ checkpoints' = IF request.dryRun THEN checkpoints
                               ELSE checkpoints \cup {recovered}
        /\ UNCHANGED <<step, request, draft, answer>>
     \/ /\ Uncovered(known) # {} /\ ~StateReadable
        /\ Leave
        /\ UNCHANGED checkpoints
  /\ UNCHANGED <<kb, active, segments, failures, sealedBy>>

\* A retry is answered from its checkpoint, or conflicts on `at`.
Replayed ==
  /\ step = "decide"
  /\ \E prior \in Priors :
       /\ \A c \in Priors : prior.segment.last <= c.segment.last
       /\ \/ /\ prior.at = request.at
             /\ answer' = [rotated |-> TRUE, sequence |-> prior.segment.last,
                           segmentCount |-> Cardinality({c \in known :
                             c.segment.last <= prior.segment.last})]
             /\ step' = "done"
             /\ UNCHANGED <<request, known, draft>>
          \/ prior.at # request.at /\ Leave
  /\ UNCHANGED <<kb, journalFiles, failures, sealedBy>>

NothingToRotate ==
  /\ step = "decide"
  /\ Priors = {}
  /\ active = <<>>
  /\ answer' = [rotated |-> FALSE, sequence |-> PreviousEnd,
                segmentCount |-> Cardinality(segments)]
  /\ step' = "done"
  /\ UNCHANGED <<kb, journalFiles, request, known, draft, failures, sealedBy>>

Exhausted == Cardinality(segments) >= MaxSegments

\* The segment is named and its checkpoint made; a dry run returns it.
Prepare ==
  LET name == [first |-> PreviousEnd + 1, last |-> PreviousEnd + Len(active),
               digest |-> active]
  IN
  /\ step = "decide"
  /\ Priors = {}
  /\ active # <<>>
  /\ \/ /\ Exhausted \/ ~StateReadable
        /\ Leave
     \/ /\ ~Exhausted /\ StateReadable
        /\ draft' = Artifact(name, request.id, request.at)
        /\ answer' = [rotated |-> TRUE, sequence |-> name.last,
                      segmentCount |-> Cardinality(segments) + 1]
        /\ step' = IF request.dryRun THEN "done" ELSE "rotate"
        /\ UNCHANGED <<request, known>>
  /\ UNCHANGED <<kb, journalFiles, failures, sealedBy>>

\* Mutation of Rotate: journal.log is copied and stays.
RotateByCopy ==
  /\ step = "rotate"
  /\ segments' = segments \cup {[name |-> draft.segment, entries |-> active]}
  /\ sealedBy' = [k \in DOMAIN sealedBy \cup {draft.segment.last} |->
                    IF k = draft.segment.last THEN request.id ELSE sealedBy[k]]
  /\ step' = "publish"
  /\ UNCHANGED <<kb, active, checkpoints, locals, failures>>

\* renameSync(journal.log, segment).
Rotate ==
  /\ step = "rotate"
  /\ segments' = segments \cup {[name |-> draft.segment, entries |-> active]}
  /\ active' = <<>>
  /\ sealedBy' = [k \in DOMAIN sealedBy \cup {draft.segment.last} |->
                    IF k = draft.segment.last THEN request.id ELSE sealedBy[k]]
  /\ step' = "publish"
  /\ UNCHANGED <<kb, checkpoints, locals, failures>>

\* writeCheckpointUnlocked, under a temporary name and renamed.
Publish ==
  /\ step = "publish"
  /\ checkpoints' = checkpoints \cup {draft}
  /\ step' = "done"
  /\ UNCHANGED <<kb, active, segments, locals, failures, sealedBy>>
-----------------------------------------------------------------------------
Compact ==
  \/ Verify \/ Repair \/ Replayed \/ NothingToRotate \/ Prepare \/ Rotate
  \/ Publish \/ Return

Next ==
  \/ \E req \in Requests : Mutate(req)
  \/ \E n \in Namespaces : Note(n)
  \/ CallCompact \/ Interrupt
  \/ Compact

Spec == Init /\ [][Next]_vars
-----------------------------------------------------------------------------
\* Types, and the limits a file and the directory of segments may reach.
TypeOK ==
  /\ kb \in Knowledge
  /\ active \in Seq(Entry) /\ Len(active) <= MaxJournalEntries
  /\ segments \in SUBSET Segment /\ Cardinality(segments) <= MaxSegments
  /\ checkpoints \in SUBSET Checkpoint
  /\ step \in {"idle", "verify", "repair", "decide", "rotate", "publish", "done"}
  /\ request \in Compactions \cup {Absent}
  /\ known \in SUBSET Checkpoint
  /\ draft \in Checkpoint \cup {Absent}
  /\ answer \in Answer \cup {Absent}
  /\ failures \in 0..MaxFailures
  /\ DOMAIN sealedBy \subseteq Nat
  /\ \A k \in DOMAIN sealedBy : sealedBy[k] \in CheckpointIds \cup {Implicit}

\* The segments form one chain without gap or overlap, and each file holds what
\* its name says, wherever a rotation was interrupted: journalSegmentsUnlocked,
\* which every read of the journal goes through, never throws.
ChainComplete == ChainAccepted

\* A checkpoint has the exact clauses every namespace had at its position, also
\* when a repair made it long after ("the exact canonical clauses and durable
\* sources in every namespace at that boundary", docs/JOURNAL-CHECKPOINTS.md:33);
\* and when a call that is not a dry run returns, every segment has its checkpoint
\* ("A later non-dry-run checkpoint repairs a segment whose checkpoint was not
\* published", docs/JOURNAL-CHECKPOINTS.md:49).
CheckpointsExact ==
  /\ \A c \in checkpoints : \A n \in Namespaces :
       Replay(SubSeq(Logical, 1, c.segment.last), n) =
         IF n \in DOMAIN c.state THEN c.state[n] ELSE {}
  /\ step = "done" /\ ~request.dryRun => Uncovered(checkpoints) = {}

\* No file changes between the call and the return of a dry run, neither by the
\* dry run nor under it.
DryRunChangesNothing ==
  [][step # "idle" /\ request.dryRun => UNCHANGED <<kb, journalFiles>>]_vars

\* A retry of a rotation is answered from what the first call did.  One
\* caller-supplied id has one checkpoint; it seals a second segment only when the
\* call that sealed the first was cut off before its checkpoint was written, which
\* a repair then wrote under an id of its own; and who is told that the journal was
\* rotated is told of a segment sealed for that id, its place in the chain, and
\* finds its checkpoint under that id (compactJournal's lookup of its operation id).
RotationsAnswered ==
  /\ \A c, d \in checkpoints : c.id \in CheckpointIds /\ c.id = d.id => c = d
  /\ \A j, k \in DOMAIN sealedBy :
       j < k /\ sealedBy[j] \in CheckpointIds /\ sealedBy[j] = sealedBy[k] =>
         \E c \in checkpoints : c.segment.last = j /\ c.id = Recovered
  /\ step = "done" /\ ~request.dryRun /\ answer.rotated =>
       /\ answer.sequence \in DOMAIN sealedBy
       /\ sealedBy[answer.sequence] = request.id
       /\ answer.segmentCount =
            Cardinality({s \in segments : s.name.last <= answer.sequence})
       /\ \E c \in checkpoints : c.segment.last = answer.sequence /\ c.id = request.id

\* Rotation is invisible: the segments and the active journal together are the
\* journal of the atomic store, and no rotation, interruption or repair adds,
\* drops or moves an entry ("every historical sequence therefore retain their
\* pre-rotation meaning", docs/JOURNAL-CHECKPOINTS.md:38).
Store == INSTANCE KnowledgeStore WITH
           log <- Logical, MaxJournalEntries <- MaxJournalEntries * (MaxSegments + 1)
RotationInvisible == Store!Spec

\* Replaying what rotations and repairs made of the journal gives the clauses
\* stored, across archives, replacements and facts added again (recordedSnapshot
\* throws IncompleteHistoryError when it does not).
HistoryComplete == Store!KnowledgeIsReplay

\* When every call enforces integrity over all namespaces, no forbidden set of
\* clauses is ever stored, wherever its members are (enforceIntegrityCandidate).
IntegrityKept == Store!IntegrityKept
=============================================================================
