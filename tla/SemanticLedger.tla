--------------------------- MODULE SemanticLedger ---------------------------
(***************************************************************************)
(* The SQLite ledger of semantic versions (src/ledger/semantic-ledger.ts)  *)
(* and the commands that use it: capturing the knowledge as a version,     *)
(* reviewing a candidate, promoting it to a ref (src/cli.ts,               *)
(* src/mcp/server.ts, src/web/service.ts).                                 *)
(*                                                                         *)
(* A savepoint is a transaction of SQLite, which commits only if what it   *)
(* read is still so: it is one step, or none when the process is killed or *)
(* the database is busy.  A command takes several of them, and every       *)
(* process has a connection of its own.  Digests are the things digested;  *)
(* a version is the path of captures that led to it, its parent that path  *)
(* without the last.  A capture stands for the journal coordinate it was   *)
(* taken at and for the surface it names in its metadata.                  *)
(***************************************************************************)
EXTENDS Naturals, Sequences, FiniteSets, SequencesExt

CONSTANTS
  Procs,        \* processes
  Interactive,  \* the surfaces whose captures are modelled
  Refs,         \* names of refs
  Main,         \* the ref 'main', of the web server's baseline
  Labels,       \* labels that users choose
  Baseline,     \* the label of the web server's baseline
  NoLabel,      \* a label made from the time, which nobody else has
  OperationIds, \* ids of promotions
  Broken,       \* journal coordinates at which the knowledge breaks a constraint
  MaxHead,      \* bound: the last journal coordinate
  MaxVersions,  \* bound: versions in the ledger
  MaxDecisions, \* bound: promotions decided
  Absent,       \* no version
  Refused       \* the answer of a promotion that was not decided

Surfaces == {"cli", "mcp", "web", "baseline"}

ASSUME LedgerAssumption ==
  /\ Interactive \subseteq {"cli", "mcp", "web"}
  /\ Main \in Refs
  /\ NoLabel \notin Labels \cup {Baseline}
  /\ {MaxHead, MaxVersions, MaxDecisions} \subseteq Nat
  /\ Absent \notin Seq([by : Surfaces, at : Nat])

VARIABLES
  head,         \* the journal coordinate of the memory store
  versions,     \* the versions stored
  labels,       \* label -> version, for the labels stored
  assessments,  \* compatibility assessments
  promotions,   \* decisions
  refs,         \* ref -> version
  events,       \* the history of the refs
  pc,           \* process -> its next step
  job           \* process -> the command it is in

ledger == <<versions, labels, assessments, promotions, refs, events>>
commands == <<pc, job>>
vars == <<head, ledger, commands>>

Version == Seq([by : Surfaces, at : Nat]) \ {<<>>}
Dimensions == {"knowledge-schema", "rule-integrity-behavior", "policy-review"}

\* baseline: the version the candidate was compared with; fails: a check failed;
\* reviews: the dimensions a human has to accept.
Assessment == [baseline : Version \cup {Absent}, candidate : Version,
               fails : BOOLEAN, reviews : SUBSET Dimensions]

Decision == [id : OperationIds, ref : Refs, from : Version \cup {Absent},
             assessment : Assessment, accepted : SUBSET Dimensions,
             outcome : {"accepted", "rejected"}]

\* Operation ids of ref events: a surface's initialisation of a ref, a promotion.
Operation == [by : Surfaces \cup {"promotion"}, of : Refs \cup OperationIds]
Initialises(surface, ref) == [by |-> surface, of |-> ref]
Promotes(id) == [by |-> "promotion", of |-> id]

RefEvent == [op : Operation, ref : Refs, from : Version \cup {Absent}, to : Version]

Idle == [kind |-> "none"]

Init ==
  /\ head = 0
  /\ versions = {} /\ labels = <<>>
  /\ assessments = {} /\ promotions = {}
  /\ refs = [r \in Refs |-> Absent]
  /\ events = <<>>
  /\ pc = [p \in Procs |-> "idle"]
  /\ job = [p \in Procs |-> Idle]

\* The memory changes.
Remember ==
  /\ head < MaxHead
  /\ head' = head + 1
  /\ UNCHANGED <<ledger, commands>>

Begins(p, step, command) ==
  /\ pc[p] = "idle"
  /\ pc' = [pc EXCEPT ![p] = step]
  /\ job' = [job EXCEPT ![p] = command]

Ends(p) ==
  /\ pc' = [pc EXCEPT ![p] = "idle"]
  /\ job' = [job EXCEPT ![p] = Idle]

\* A process dies, or SQLite reports that the database is busy.
Cut(p) ==
  /\ pc[p] # "idle"
  /\ Ends(p)
  /\ UNCHANGED <<head, ledger>>

-----------------------------------------------------------------------------
(* Capturing a version.                                                      *)

\* The current version of the ref becomes the parent.
Capture(p, surface, ref, label) ==
  /\ Begins(p, "create", [kind |-> "capture", by |-> surface, ref |-> ref,
                          parent |-> refs[ref], label |-> label])
  /\ UNCHANGED <<head, ledger>>

\* ensureSemanticBaseline, when the web server starts.
EnsureBaseline(p) ==
  /\ refs[Main] = Absent
  /\ Begins(p, "create", [kind |-> "capture", by |-> "baseline", ref |-> Main,
                          parent |-> Absent, label |-> Baseline])
  /\ UNCHANGED <<head, ledger>>

\* The version of the knowledge as it is now.
Captured(command) ==
  Append(IF command.parent = Absent THEN <<>> ELSE command.parent,
         [by |-> command.by, at |-> head])

\* labelVersion: a label never leaves its version.
LabelTaken(label, version) == label \in DOMAIN labels /\ labels[label] # version

Labelled(label, version) ==
  IF label = NoLabel THEN labels
  ELSE [l \in DOMAIN labels \cup {label} |-> IF l = label THEN version ELSE labels[l]]

\* A digest that is stored already identifies the same version.
Stored(version) == versions \cup {version}

\* Without a parent the ref is initialised next, but for a candidate of the web.
CreateVersion(p) ==
  LET command == job[p]
      version == Captured(command)
  IN /\ pc[p] = "create"
     /\ IF LabelTaken(command.label, version)
        THEN Ends(p) /\ UNCHANGED <<versions, labels>>
        ELSE /\ version \in versions \/ Cardinality(versions) < MaxVersions
             /\ versions' = Stored(version)
             /\ labels' = Labelled(command.label, version)
             /\ IF command.parent = Absent /\ command.by # "web"
                THEN /\ pc' = [pc EXCEPT ![p] = "initialise"]
                     /\ job' = [job EXCEPT ![p] =
                                  [kind |-> "initialise", by |-> command.by,
                                   ref |-> command.ref, version |-> version]]
                ELSE Ends(p)
     /\ UNCHANGED <<head, assessments, promotions, refs, events>>

-----------------------------------------------------------------------------
(* Moving a ref, with its event, under an operation id.                      *)

\* Mutation of PriorEvents: the id is not looked up.
NoPriorEvents(op) == {}

PriorEvents(op) == {e \in ToSet(events) : e.op = op}

\* Mutation of Move: the row is inserted or ignored.
MoveNewOnly(op, ref, version) ==
  /\ refs' = IF refs[ref] = Absent THEN [refs EXCEPT ![ref] = version] ELSE refs
  /\ events' = Append(events, [op |-> op, ref |-> ref, from |-> refs[ref], to |-> version])

Move(op, ref, version) ==
  /\ refs' = [refs EXCEPT ![ref] = version]
  /\ events' = Append(events, [op |-> op, ref |-> ref, from |-> refs[ref], to |-> version])

\* setRefInternal: an id that was used before moves nothing.
SetRef(op, ref, version) ==
  IF PriorEvents(op) # {} THEN UNCHANGED <<refs, events>>
  ELSE Move(op, ref, version)

\* The version expected is not given: a ref that exists by now is moved.
InitialiseRef(p) ==
  /\ pc[p] = "initialise"
  /\ SetRef(Initialises(job[p].by, job[p].ref), job[p].ref, job[p].version)
  /\ Ends(p)
  /\ UNCHANGED <<head, versions, labels, assessments, promotions>>

-----------------------------------------------------------------------------
(* Reviewing a candidate against its first parent.                           *)

Parent(version) == IF Len(version) = 1 THEN Absent ELSE Front(version)

\* Any change of the knowledge changes its rules object too.
Assessed(candidate) ==
  LET baseline == Parent(candidate)
      fails == baseline # Absent /\ Last(candidate).at \in Broken
      changed == baseline # Absent /\ Last(baseline).at # Last(candidate).at
  IN [baseline |-> baseline, candidate |-> candidate, fails |-> fails,
      reviews |-> {"policy-review"}
                    \cup (IF changed THEN {"knowledge-schema"} ELSE {})
                    \cup (IF changed /\ ~fails THEN {"rule-integrity-behavior"} ELSE {})]

\* The evidence recorded just before is read by nobody but the assessment.
Review(candidate) ==
  /\ candidate \in versions
  /\ assessments' = assessments \cup {Assessed(candidate)}
  /\ UNCHANGED <<head, versions, labels, promotions, refs, events, commands>>

-----------------------------------------------------------------------------
(* Promoting a candidate under an operation id.                              *)

\* The command reads the ref's version, which the promotion is to replace.
Promote(p, id, ref, assessment, accepted) ==
  /\ Begins(p, "promote", [kind |-> "promote", id |-> id, ref |-> ref,
                           expected |-> refs[ref], assessment |-> assessment,
                           accepted |-> accepted])
  /\ UNCHANGED <<head, ledger>>

PriorDecisions(id) == {d \in promotions : d.id = id}

\* The same operation: the accepted dimensions are not compared.
Repeats(command, decision) ==
  decision.ref = command.ref /\ decision.assessment = command.assessment

\* Mutation of AsExpected: the assessment's baseline is not compared.
AsReadOnly(command) == command.expected = Absent \/ command.expected = refs[command.ref]

\* A ref without a version is expected by saying nothing.
AsExpected(command) ==
  /\ command.expected = Absent \/ command.expected = refs[command.ref]
  /\ command.assessment.baseline = refs[command.ref]

Decided(command) ==
  [id |-> command.id, ref |-> command.ref, from |-> refs[command.ref],
   assessment |-> command.assessment, accepted |-> command.accepted,
   outcome |-> IF \/ command.assessment.fails
                  \/ ~(command.assessment.reviews \subseteq command.accepted)
               THEN "rejected" ELSE "accepted"]

\* The digest of a decision leaves its operation id out and is unique.
DecidedBefore(decision) ==
  \E d \in promotions : [d EXCEPT !.id = decision.id] = decision

\* Mutation of Reply: the ref is compared before the id is looked up.
ReplyAfterCheck(command) ==
  LET prior == PriorDecisions(command.id)
      decision == Decided(command)
  IN IF ~AsExpected(command) THEN Refused
     ELSE IF prior # {}
     THEN IF \A d \in prior : Repeats(command, d) THEN CHOOSE d \in prior : TRUE ELSE Refused
     ELSE IF ~DecidedBefore(decision) THEN decision ELSE Refused

\* A decision made under the id is answered again, whatever the ref is now.
Reply(command) ==
  LET prior == PriorDecisions(command.id)
      decision == Decided(command)
  IN IF prior # {}
     THEN IF \A d \in prior : Repeats(command, d) THEN CHOOSE d \in prior : TRUE ELSE Refused
     ELSE IF AsExpected(command) /\ ~DecidedBefore(decision) THEN decision ELSE Refused

DecidePromotion(p) ==
  LET reply == Reply(job[p]) IN
  /\ pc[p] = "promote"
  /\ IF reply \in promotions \cup {Refused}
     THEN UNCHANGED <<promotions, refs, events>>
     ELSE /\ Cardinality(promotions) < MaxDecisions
          /\ promotions' = promotions \cup {reply}
          /\ IF reply.outcome = "accepted"
             THEN SetRef(Promotes(reply.id), reply.ref, reply.assessment.candidate)
             ELSE UNCHANGED <<refs, events>>
  /\ Ends(p)
  /\ UNCHANGED <<head, versions, labels, assessments>>

-----------------------------------------------------------------------------
Command(p) ==
  \/ \E surface \in Interactive, ref \in Refs, label \in Labels \cup {NoLabel} :
       Capture(p, surface, ref, label)
  \/ EnsureBaseline(p)
  \/ CreateVersion(p)
  \/ InitialiseRef(p)
  \/ \E id \in OperationIds, ref \in Refs, assessment \in assessments :
       \E accepted \in {{}, assessment.reviews} : Promote(p, id, ref, assessment, accepted)
  \/ DecidePromotion(p)
  \/ Cut(p)

Next ==
  \/ Remember
  \/ \E candidate \in versions : Review(candidate)
  \/ \E p \in Procs : Command(p)

Spec == Init /\ [][Next]_vars

-----------------------------------------------------------------------------
TypeOK ==
  /\ head \in Nat
  /\ versions \subseteq Version
  /\ DOMAIN labels \subseteq Labels \cup {Baseline}
  /\ \A l \in DOMAIN labels : labels[l] \in versions
  /\ assessments \subseteq Assessment
  /\ promotions \subseteq Decision
  /\ refs \in [Refs -> versions \cup {Absent}]
  /\ events \in Seq(RefEvent)
  /\ pc \in [Procs -> {"idle", "create", "initialise", "promote"}]

Initialisation(e) == e.op.by # "promotion"
Gates(d, e) ==
  /\ e.op = Promotes(d.id) /\ d.outcome = "accepted"
  /\ d.ref = e.ref /\ d.from = e.from /\ d.assessment.candidate = e.to

\* A ref moves to a version only by an initialisation, or by an accepted promotion
\* of a version captured from the very one it replaces, whose review found no
\* failure and whose every open dimension was accepted (promote, setRefInternal).
RefsGated ==
  \A i \in DOMAIN events :
    \/ Initialisation(events[i])
    \/ \E d \in promotions :
         /\ Gates(d, events[i])
         /\ Parent(events[i].to) = events[i].from
         /\ ~d.assessment.fails
         /\ d.assessment.reviews \subseteq d.accepted

\* An accepted promotion has moved its ref, once.
AcceptedMoved ==
  \A d \in promotions :
    d.outcome = "accepted" => \E i \in DOMAIN events : Gates(d, events[i])

\* The first n events of the history leave the ref at this version.
LeftAt(history, ref, n, version) ==
  \/ version = Absent /\ \A i \in 1..n : history[i].ref # ref
  \/ \E i \in 1..n :
       /\ history[i].ref = ref /\ history[i].to = version
       /\ \A j \in (i + 1)..n : history[j].ref # ref

\* The events of a ref form a chain from nothing to its version: each moves it from
\* where those before it left it, and all of them together to where it is.
RefsChained ==
  /\ \A ref \in Refs : LeftAt(events, ref, Len(events), refs[ref])
  /\ \A i \in DOMAIN events : LeftAt(events, events[i].ref, i - 1, events[i].from)

\* An operation id has one event and one decision, whatever retries there were.
OncePerOperation ==
  /\ \A i, j \in DOMAIN events : events[i].op = events[j].op => i = j
  /\ \A d, e \in promotions : d.id = e.id => d = e

\* A promotion that was decided is answered with its decision when it is retried,
\* although its ref may have moved since and other dimensions are accepted now.
RetriesAnswered ==
  \A d \in promotions : \A accepted \in {{}, d.assessment.reviews} :
    Reply([kind |-> "promote", id |-> d.id, ref |-> d.ref, expected |-> refs[d.ref],
           assessment |-> d.assessment, accepted |-> accepted]) = d

\* Nothing recorded is changed or removed, and no label moves.
AppendOnly ==
  [][\/ UNCHANGED ledger
     \/ /\ versions \subseteq versions'
        /\ assessments \subseteq assessments' /\ promotions \subseteq promotions'
        /\ IsPrefix(events, events')
        /\ \A l \in DOMAIN labels : l \in DOMAIN labels' /\ labels'[l] = labels[l]]_ledger
=============================================================================
