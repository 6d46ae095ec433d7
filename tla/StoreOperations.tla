-------------------------- MODULE StoreOperations --------------------------
(***************************************************************************)
(* What one mutation of src/store/store.ts decides and does, as operators  *)
(* on the clauses it loads and the journal it reads: assert, retract,      *)
(* supersede/replace/resolveTentative (one method, replaceFacts, journaled *)
(* as 'supersede') and the digest-bound rule_change and memory_change.     *)
(*                                                                         *)
(* A clause is its canonical key.  A request holds the clauses its pattern *)
(* or removal list matches and those it adds; parsing, sanitizing and the  *)
(* timestamps are abstracted.  An integrity violation is a set of clauses  *)
(* that must not all be present in the checked view.                       *)
(***************************************************************************)
EXTENDS Naturals, Sequences

CONSTANTS
  Namespaces,  \* the <namespace>.dl files
  Clauses,     \* canonical keys of facts, rules and constraints
  OperationIds,\* operation ids supplied by callers
  Implicit,    \* the caller supplied no operation id
  Until,       \* archivable fact -> its *_until form (archiveUntilClause)
  Forbidden,   \* the sets of clauses an integrity constraint, itself one of
               \* them, rules out
  Requests     \* the calls that are made

Ops == {"assert", "retract", "supersede", "rule_change", "memory_change"}

DigestBound == {"rule_change", "memory_change"}

\* The state of every namespace, {} when its file is absent.
Knowledge == [Namespaces -> SUBSET Clauses]

\* The call parameters an entry records and a retry must repeat exactly.  A
\* digest-bound request carries the knowledge it was reviewed against; `every`
\* is resolveTentative's demand that each pattern match a current claim.
Parameters == [matches : SUBSET Clauses, adds : SUBSET Clauses,
               archive : BOOLEAN, every : BOOLEAN, reviewed : Knowledge]

Request == [op : Ops, ns : Namespaces, id : OperationIds \cup {Implicit},
            params : Parameters, mode : {"none", "strict", "no_new_violations"},
            view : SUBSET Namespaces]

\* A journal entry.  The id of a call that supplied none is a fresh UUID: any
\* value no other entry carries, here the position the entry is created for.
Entry == [op : Ops \cup {"note"}, ns : Namespaces, id : OperationIds \cup Nat,
          params : Parameters, ended : SUBSET Clauses, added : SUBSET Clauses]

ASSUME OperationsAssumption ==
  /\ Implicit \notin OperationIds
  /\ OperationIds \cap Nat = {}
  /\ Forbidden \subseteq (SUBSET Clauses) \ {{}}
  /\ DOMAIN Until \subseteq Clauses
  /\ \A c \in DOMAIN Until : Until[c] \in Clauses
  /\ Requests \subseteq Request
-----------------------------------------------------------------------------
Explicit(req) == req.id # Implicit
\* Mutation of PriorEntries: only an identical call counts as a retry.
IdenticalEntries(req, log) ==
  {e \in {log[i] : i \in DOMAIN log} :
     e.op = req.op /\ e.ns = req.ns /\ e.id = req.id /\ e.params = req.params}

\* Mutation of PriorEntries: a call that changed nothing is not found again.
EffectiveEntries(req, log) ==
  {e \in {log[i] : i \in DOMAIN log} :
     /\ e.op = req.op /\ e.ns = req.ns /\ e.id = req.id
     /\ e.ended # {} \/ e.added # {}}

\* The journal entries of earlier calls with the request's operation id.
PriorEntries(req, log) ==
  {e \in {log[i] : i \in DOMAIN log} :
     e.op = req.op /\ e.ns = req.ns /\ e.id = req.id}

IsRetry(req, log) == Explicit(req) /\ PriorEntries(req, log) # {}

\* OperationConflictError: the id was used with other parameters.
Conflicts(req, log) ==
  IsRetry(req, log) /\ \E e \in PriorEntries(req, log) : e.params # req.params

Ended(req, current) == req.params.matches \cap current

Kept(req, current) == current \ req.params.matches

Archived(req, current) ==
  IF req.params.archive
  THEN {Until[c] : c \in Ended(req, current) \cap DOMAIN Until} \ Kept(req, current)
  ELSE {}

Added(req, current) ==
  Archived(req, current) \cup (req.params.adds \ Kept(req, current))

\* Mutation of Candidate: the archived forms are not stored.
CandidateWithoutArchives(req, current) == Kept(req, current) \cup req.params.adds

Candidate(req, current) == Kept(req, current) \cup Added(req, current)

NoEffect(req, current) == Ended(req, current) = {} /\ Added(req, current) = {}

\* The errors thrown before anything is written: an unarchivable fact, a claim
\* that is not current, a stale review, an absent removal, a present addition.
Inapplicable(req, kb) ==
  LET current == kb[req.ns] IN
  \/ req.params.archive /\ ~(Ended(req, current) \subseteq DOMAIN Until)
  \/ req.params.every /\ ~(req.params.matches \subseteq current)
  \/ /\ req.op \in DigestBound
     /\ \/ \E n \in req.view : req.params.reviewed[n] # kb[n]
        \/ ~(req.params.matches \subseteq current)
        \/ req.params.adds \cap Kept(req, current) # {}

Violations(kb, view) == {v \in Forbidden : v \subseteq UNION {kb[n] : n \in view}}

\* enforceMutation is called: always by replaceFacts with an explicit id and by
\* the digest-bound operations, by assert and retract only when they change.
Enforces(req, current) ==
  /\ req.mode # "none"
  /\ \/ ~NoEffect(req, current)
     \/ req.op = "supersede" /\ Explicit(req)
     \/ req.op \in DigestBound

\* Mutation of Rejected: only the target namespace is checked.
RejectedLocally(req, kb) ==
  LET candidate == [kb EXCEPT ![req.ns] = Candidate(req, @)] IN
  /\ Enforces(req, kb[req.ns])
  /\ \E v \in Violations(candidate, {req.ns}) :
       req.mode = "strict" \/ v \notin Violations(kb, {req.ns})

\* enforceIntegrityCandidate: strict rejects every violation of the candidate,
\* no_new_violations those the baseline does not already have.
Rejected(req, kb) ==
  LET candidate == [kb EXCEPT ![req.ns] = Candidate(req, @)] IN
  /\ Enforces(req, kb[req.ns])
  /\ \E v \in Violations(candidate, req.view) :
       req.mode = "strict" \/ v \notin Violations(kb, req.view)

\* What a call does, from the knowledge and the journal it reads.
Outcome(req, kb, log) ==
  IF IsRetry(req, log)
  THEN IF Conflicts(req, log) THEN "conflict" ELSE "replay"
  ELSE IF Inapplicable(req, kb) \/ Rejected(req, kb) THEN "refused"
  ELSE IF ~NoEffect(req, kb[req.ns]) THEN "change"
  ELSE IF Explicit(req) THEN "record" ELSE "nothing"

EntryOf(req, kb, log) ==
  [op |-> req.op, ns |-> req.ns,
   id |-> IF Explicit(req) THEN req.id ELSE Len(log) + 1,
   params |-> req.params,
   ended |-> Ended(req, kb[req.ns]), added |-> Added(req, kb[req.ns])]

\* An entry of note(): it has no effect on the clauses of its namespace.
NoteEntry(n, log) ==
  [op |-> "note", ns |-> n, id |-> Len(log) + 1,
   params |-> [matches |-> {}, adds |-> {}, archive |-> FALSE, every |-> FALSE,
               reviewed |-> [m \in Namespaces |-> {}]],
   ended |-> {}, added |-> {}]
-----------------------------------------------------------------------------
\* What an entry of any kind does to the clauses of its namespace.
After(entry, current) == (current \ entry.ended) \cup entry.added

\* recordedSnapshot's replay of a namespace from the first entry on.
Replay(log, n) ==
  LET after[k \in 0..Len(log)] ==
        IF k = 0 THEN {}
        ELSE IF log[k].ns = n THEN After(log[k], after[k - 1])
             ELSE after[k - 1]
  IN after[Len(log)]
=============================================================================
