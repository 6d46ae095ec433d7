------------------------ MODULE SemanticLedgerProofs ------------------------
(***************************************************************************)
(* The gate of SemanticLedger, for any number of processes, versions,      *)
(* labels, refs and operation ids.                                         *)
(***************************************************************************)
EXTENDS SemanticLedger, TLAPS

\* What a command in progress holds is in the ledger, or was taken from it.
Commands ==
  /\ DOMAIN job = Procs
  /\ \A p \in Procs :
       /\ pc[p] = "create" =>
            /\ job[p].parent \in versions \cup {Absent}
            /\ job[p].by \in Surfaces /\ job[p].ref \in Refs
            /\ job[p].label \in Labels \cup {Baseline, NoLabel}
       /\ pc[p] = "initialise" =>
            /\ job[p].by \in Surfaces /\ job[p].ref \in Refs
            /\ job[p].version \in versions
       /\ pc[p] = "promote" =>
            /\ job[p].id \in OperationIds /\ job[p].ref \in Refs
            /\ job[p].assessment \in assessments
            /\ job[p].accepted \in SUBSET Dimensions

\* A review compares a stored version with its parent.
Compared ==
  \A s \in assessments : s.candidate \in versions /\ s.baseline = Parent(s.candidate)

Inv ==
  /\ TypeOK /\ Commands /\ Compared
  /\ RefsGated /\ AcceptedMoved /\ OncePerOperation

LEMMA OperationIdentity ==
  /\ \A id \in OperationIds : Promotes(id) \in Operation /\ Promotes(id).by = "promotion"
  /\ \A i, j : Promotes(i) = Promotes(j) => i = j
  /\ \A s \in Surfaces, r \in Refs :
       Initialises(s, r) \in Operation /\ Initialises(s, r).by # "promotion"
BY DEF Promotes, Initialises, Operation, Surfaces

LEMMA CapturedTypes ==
  ASSUME TypeOK, NEW command, command.parent \in versions \cup {Absent},
         command.by \in Surfaces
  PROVE  Captured(command) \in Version
<1> DEFINE Step == [by : Surfaces, at : Nat]
           trunk == IF command.parent = Absent THEN <<>> ELSE command.parent
           step == [by |-> command.by, at |-> head]
<1>1. trunk \in Seq(Step)
  <2>1. CASE command.parent = Absent
    <3> HIDE DEF Step
    <3> QED BY <2>1
  <2>2. CASE command.parent # Absent
    BY <2>2 DEF TypeOK, Version
  <2> QED BY <2>1, <2>2
<1>2. step \in Step
  BY DEF TypeOK
<1>3. Captured(command) = Append(trunk, step)
  BY DEF Captured
<1> HIDE DEF trunk, step, Step
<1>4. Append(trunk, step) \in Seq(Step) /\ Len(Append(trunk, step)) = Len(trunk) + 1 /\ Len(trunk) \in Nat
  BY <1>1, <1>2
<1>5. Append(trunk, step) # <<>>
  BY <1>4
<1> QED BY <1>3, <1>4, <1>5 DEF Version, Step

LEMMA AssessedTypes ==
  ASSUME NEW candidate \in Version
  PROVE  /\ Assessed(candidate) \in Assessment
         /\ Assessed(candidate).candidate = candidate
         /\ Assessed(candidate).baseline = Parent(candidate)
<1> DEFINE Step == [by : Surfaces, at : Nat]
<1>1. candidate \in Seq(Step) /\ candidate # <<>>
  BY DEF Version
<1> HIDE DEF Step
<1>2. Parent(candidate) \in Version \cup {Absent}
  <2>1. CASE Len(candidate) = 1
    BY <2>1 DEF Parent
  <2>2. CASE Len(candidate) # 1
    <3>1. Len(candidate) - 1 \in Nat \ {0}
      BY <1>1, <2>2
    <3>2. Front(candidate) \in Seq(Step) /\ Len(Front(candidate)) = Len(candidate) - 1
      <4> DEFINE n == Len(candidate) - 1
      <4>1. n \in Nat /\ n <= Len(candidate) /\ \A i \in 1..n : candidate[i] \in Step
        BY <1>1, <3>1
      <4>2. Front(candidate) = [i \in 1..n |-> candidate[i]]
        <5>1. Front(candidate) = SubSeq(candidate, 1, n)
          BY DEF Front
        <5> HIDE DEF n
        <5> QED BY <1>1, <4>1, <5>1, SMT
      <4> HIDE DEF n
      <4>3. Front(candidate) \in Seq(Step)
        BY <4>1, <4>2
      <4>4. Len(Front(candidate)) = n
        BY <4>1, <4>2
      <4> QED BY <4>3, <4>4 DEF n
    <3>3. Front(candidate) # <<>>
      BY <3>1, <3>2
    <3> QED BY <2>2, <3>2, <3>3 DEF Parent, Version, Step
  <2> QED BY <2>1, <2>2
<1> DEFINE made == Assessed(candidate)
<1>3. /\ made = [baseline |-> made.baseline, candidate |-> made.candidate,
                 fails |-> made.fails, reviews |-> made.reviews]
      /\ made.candidate = candidate /\ made.baseline = Parent(candidate)
      /\ made.reviews \in SUBSET Dimensions
  BY DEF Assessed, Dimensions
<1>4. made.fails \in BOOLEAN
  BY DEF Assessed
<1> HIDE DEF made
<1>5. made \in Assessment
  BY <1>2, <1>3, <1>4 DEF Assessment
<1> QED BY <1>3, <1>5 DEF made

\* What a movement of a ref does to the refs and their history.
LEMMA Moves ==
  ASSUME TypeOK, OncePerOperation, NEW op \in Operation, NEW ref \in Refs,
         NEW version \in versions, SetRef(op, ref, version)
  PROVE  /\ refs' \in [Refs -> versions \cup {Absent}]
         /\ events' \in Seq(RefEvent)
         /\ \A i, j \in DOMAIN events' : events'[i].op = events'[j].op => i = j
         /\ IsPrefix(events, events')
         /\ \A i \in DOMAIN events : i \in DOMAIN events' /\ events'[i] = events[i]
         /\ \A i \in DOMAIN events' \ DOMAIN events :
              events'[i] = [op |-> op, ref |-> ref, from |-> refs[ref], to |-> version]
         /\ PriorEvents(op) = {} =>
              \E i \in DOMAIN events' \ DOMAIN events : TRUE
<1> DEFINE event == [op |-> op, ref |-> ref, from |-> refs[ref], to |-> version]
<1>1. event \in RefEvent /\ event.op = op
  BY DEF TypeOK, RefEvent
<1>2. events \in Seq(RefEvent)
  BY DEF TypeOK
<1>3. CASE PriorEvents(op) # {}
  <2>1. UNCHANGED <<refs, events>>
    BY <1>3 DEF SetRef
  <2> QED BY <1>2, <1>3, <2>1 DEF TypeOK, OncePerOperation, IsPrefix
<1>4. CASE PriorEvents(op) = {}
  <2>1. events' = Append(events, event) /\ refs' = [refs EXCEPT ![ref] = version]
    BY <1>4 DEF SetRef, Move
  <2>2. \A i \in DOMAIN events : events[i].op # op
    BY <1>4 DEF PriorEvents, ToSet
  <2>3. refs' \in [Refs -> versions \cup {Absent}]
    BY <2>1 DEF TypeOK
  <2> HIDE DEF event
  <2>4. /\ events' \in Seq(RefEvent)
        /\ DOMAIN events = 1..Len(events) /\ DOMAIN events' = 1..(Len(events) + 1)
        /\ Len(events) \in Nat /\ Len(events') = Len(events) + 1
        /\ \A i \in DOMAIN events : events'[i] = events[i]
        /\ events'[Len(events) + 1] = event
    BY <1>1, <1>2, <2>1
  <2>5. \A i, j \in DOMAIN events' : events'[i].op = events'[j].op => i = j
    BY <1>1, <2>2, <2>4 DEF OncePerOperation
  <2>6. IsPrefix(events, events')
    <3>1. SubSeq(events, 1, Len(events)) = SubSeq(events', 1, Len(events))
      BY <1>2, <2>4
    <3> QED BY <2>4, <3>1 DEF IsPrefix
  <2> QED BY <2>3, <2>4, <2>5, <2>6 DEF event
<1> QED BY <1>3, <1>4
-----------------------------------------------------------------------------
LEMMA InitInv == Init => Inv
<1> SUFFICES ASSUME Init PROVE Inv
  OBVIOUS
<1>1. TypeOK BY DEF Init, TypeOK
<1>2. Commands /\ Compared BY DEF Init, Commands, Compared
<1>3. RefsGated /\ AcceptedMoved /\ OncePerOperation
  BY DEF Init, RefsGated, AcceptedMoved, OncePerOperation
<1> QED BY <1>1, <1>2, <1>3 DEF Inv

\* The steps that leave the ledger alone.
LEMMA BeginsInv ==
  ASSUME Inv, UNCHANGED ledger, head' \in Nat,
         UNCHANGED commands \/ \E p \in Procs :
           \/ Cut(p)
           \/ \E surface \in Interactive, ref \in Refs, label \in Labels \cup {NoLabel} :
                Capture(p, surface, ref, label)
           \/ EnsureBaseline(p)
           \/ \E id \in OperationIds, ref \in Refs, assessment \in assessments :
                \E accepted \in {{}, assessment.reviews} :
                  Promote(p, id, ref, assessment, accepted)
  PROVE  Inv'
<1> USE DEF ledger
<1>1. Compared' /\ RefsGated' /\ AcceptedMoved' /\ OncePerOperation'
  BY DEF Inv, Compared, RefsGated, AcceptedMoved, OncePerOperation
<1>2. pc' \in [Procs -> {"idle", "create", "initialise", "promote"}]
  BY DEF Inv, TypeOK, commands, Cut, Ends, Capture, EnsureBaseline, Promote, Begins
<1>3. TypeOK'
  BY <1>2 DEF Inv, TypeOK
<1>4. Commands'
  <2>1. CASE UNCHANGED commands
    BY <2>1 DEF Inv, Commands, commands
  <2>2. ASSUME NEW p \in Procs, Cut(p) PROVE Commands'
    BY <2>2 DEF Inv, TypeOK, Commands, Cut, Ends
  <2>3. ASSUME NEW p \in Procs, NEW surface \in Interactive, NEW ref \in Refs,
               NEW label \in Labels \cup {NoLabel}, Capture(p, surface, ref, label)
        PROVE  Commands'
    <3>1. surface \in Surfaces
      BY LedgerAssumption DEF Surfaces
    <3> QED BY <2>3, <3>1 DEF Inv, TypeOK, Commands, Capture, Begins
  <2>4. ASSUME NEW p \in Procs, EnsureBaseline(p) PROVE Commands'
    BY <2>4, LedgerAssumption DEF Inv, TypeOK, Commands, EnsureBaseline, Begins, Surfaces
  <2>5. ASSUME NEW p \in Procs, NEW id \in OperationIds, NEW ref \in Refs,
               NEW assessment \in assessments, NEW accepted \in {{}, assessment.reviews},
               Promote(p, id, ref, assessment, accepted)
        PROVE  Commands'
    <3>1. accepted \in SUBSET Dimensions
      BY DEF Inv, TypeOK, Assessment
    <3> QED BY <2>5, <3>1 DEF Inv, TypeOK, Commands, Promote, Begins
  <2> QED BY <2>1, <2>2, <2>3, <2>4, <2>5
<1> QED BY <1>1, <1>3, <1>4 DEF Inv

\* A move of a ref keeps the gates of the moves before it.
LEMMA GatesKept ==
  ASSUME RefsGated, AcceptedMoved, promotions \subseteq promotions',
         events' \in Seq(RefEvent), events \in Seq(RefEvent),
         \A i \in DOMAIN events : i \in DOMAIN events' /\ events'[i] = events[i],
         \A i \in DOMAIN events' \ DOMAIN events :
           \/ Initialisation(events'[i])
           \/ \E d \in promotions' :
                /\ Gates(d, events'[i]) /\ Parent(events'[i].to) = events'[i].from
                /\ ~d.assessment.fails /\ d.assessment.reviews \subseteq d.accepted,
         \A d \in promotions' \ promotions :
           d.outcome = "accepted" => \E i \in DOMAIN events' : Gates(d, events'[i])
  PROVE  RefsGated' /\ AcceptedMoved'
<1>1. RefsGated'
  <2> SUFFICES ASSUME NEW i \in DOMAIN events'
               PROVE  \/ Initialisation(events'[i])
                      \/ \E d \in promotions' :
                           /\ Gates(d, events'[i]) /\ Parent(events'[i].to) = events'[i].from
                           /\ ~d.assessment.fails /\ d.assessment.reviews \subseteq d.accepted
    BY DEF RefsGated, Gates, Initialisation
  <2>1. CASE i \in DOMAIN events
    BY <2>1 DEF RefsGated
  <2>2. CASE i \notin DOMAIN events
    BY <2>2
  <2> QED BY <2>1, <2>2
<1>2. AcceptedMoved'
  BY DEF AcceptedMoved, Gates
<1> QED BY <1>1, <1>2

LEMMA CreateInv == ASSUME Inv, NEW p \in Procs, CreateVersion(p) PROVE Inv'
<1> DEFINE command == job[p]
           version == Captured(command)
<1>1. /\ pc[p] = "create"
      /\ UNCHANGED <<head, assessments, promotions, refs, events>>
  BY DEF CreateVersion
<1>2. /\ command.parent \in versions \cup {Absent} /\ command.by \in Surfaces
      /\ command.ref \in Refs /\ command.label \in Labels \cup {Baseline, NoLabel}
  BY <1>1 DEF Inv, Commands
<1>3. version \in Version
  BY <1>2, CapturedTypes DEF Inv
<1>4. RefsGated' /\ AcceptedMoved' /\ OncePerOperation'
  BY <1>1 DEF Inv, RefsGated, AcceptedMoved, OncePerOperation
<1>5. CASE Ends(p) /\ UNCHANGED <<versions, labels>>
  BY <1>1, <1>4, <1>5 DEF Ends, Inv, TypeOK, Commands, Compared
<1>6. CASE ~(Ends(p) /\ UNCHANGED <<versions, labels>>)
  <2>1. /\ versions' = versions \cup {version} /\ labels' = Labelled(command.label, version)
        /\ \/ /\ pc' = [pc EXCEPT ![p] = "initialise"]
              /\ job' = [job EXCEPT ![p] =
                           [kind |-> "initialise", by |-> command.by,
                            ref |-> command.ref, version |-> version]]
           \/ Ends(p)
    BY <1>6 DEF CreateVersion, Stored
  <2> HIDE DEF version
  <2>2. Compared'
    BY <1>1, <2>1 DEF Inv, Compared
  <2>3. pc' \in [Procs -> {"idle", "create", "initialise", "promote"}]
    BY <2>1 DEF Inv, TypeOK, Ends
  <2>4. /\ DOMAIN labels' \subseteq Labels \cup {Baseline}
        /\ \A l \in DOMAIN labels' : labels'[l] \in versions'
    BY <1>2, <2>1 DEF Inv, TypeOK, Labelled
  <2>5. TypeOK'
    BY <1>1, <1>3, <2>1, <2>3, <2>4 DEF Inv, TypeOK
  <2>6. Commands'
    BY <1>1, <1>2, <2>1 DEF Inv, TypeOK, Commands, Ends
  <2> QED BY <1>4, <2>2, <2>5, <2>6 DEF Inv
<1> QED BY <1>5, <1>6

LEMMA InitialiseInv == ASSUME Inv, NEW p \in Procs, InitialiseRef(p) PROVE Inv'
<1> DEFINE op == Initialises(job[p].by, job[p].ref)
<1>1. /\ pc[p] = "initialise" /\ Ends(p) /\ SetRef(op, job[p].ref, job[p].version)
      /\ UNCHANGED <<head, versions, labels, assessments, promotions>>
  BY DEF InitialiseRef
<1>2. job[p].by \in Surfaces /\ job[p].ref \in Refs /\ job[p].version \in versions
  BY <1>1 DEF Inv, Commands
<1>3. op \in Operation /\ op.by # "promotion"
  BY <1>2, OperationIdentity
<1> HIDE DEF op
<1>4. /\ refs' \in [Refs -> versions \cup {Absent}] /\ events' \in Seq(RefEvent)
      /\ \A i, j \in DOMAIN events' : events'[i].op = events'[j].op => i = j
      /\ \A i \in DOMAIN events : i \in DOMAIN events' /\ events'[i] = events[i]
      /\ \A i \in DOMAIN events' \ DOMAIN events : events'[i].op = op
  BY <1>1, <1>2, <1>3, Moves DEF Inv
<1>5. RefsGated' /\ AcceptedMoved'
  BY <1>1, <1>3, <1>4, GatesKept DEF Inv, TypeOK, Initialisation
<1>6. OncePerOperation'
  BY <1>1, <1>4 DEF Inv, OncePerOperation
<1>7. TypeOK'
  BY <1>1, <1>4 DEF Inv, TypeOK, Ends
<1>8. Commands' /\ Compared'
  BY <1>1 DEF Inv, TypeOK, Commands, Compared, Ends
<1> QED BY <1>5, <1>6, <1>7, <1>8 DEF Inv

LEMMA ReviewInv == ASSUME Inv, NEW candidate \in versions, Review(candidate) PROVE Inv'
<1>1. /\ assessments' = assessments \cup {Assessed(candidate)}
      /\ UNCHANGED <<head, versions, labels, promotions, refs, events, pc, job>>
  BY DEF Review, commands
<1>2. /\ Assessed(candidate) \in Assessment
      /\ Assessed(candidate).candidate = candidate
      /\ Assessed(candidate).baseline = Parent(candidate)
  BY AssessedTypes DEF Inv, TypeOK
<1>3. TypeOK' /\ Commands' /\ Compared'
  BY <1>1, <1>2 DEF Inv, TypeOK, Commands, Compared
<1>4. RefsGated' /\ AcceptedMoved' /\ OncePerOperation'
  BY <1>1 DEF Inv, RefsGated, AcceptedMoved, OncePerOperation
<1> QED BY <1>3, <1>4 DEF Inv

LEMMA DecideInv == ASSUME Inv, NEW p \in Procs, DecidePromotion(p) PROVE Inv'
<1> DEFINE command == job[p]
           reply == Reply(command)
<1>1. pc[p] = "promote" /\ Ends(p) /\ UNCHANGED <<head, versions, labels, assessments>>
  BY DEF DecidePromotion
<1>2. /\ command.id \in OperationIds /\ command.ref \in Refs
      /\ command.assessment \in assessments /\ command.accepted \in SUBSET Dimensions
  BY <1>1 DEF Inv, Commands
<1>3. Commands' /\ Compared'
  BY <1>1 DEF Inv, TypeOK, Commands, Compared, Ends
<1>4. pc' \in [Procs -> {"idle", "create", "initialise", "promote"}]
  BY <1>1 DEF Inv, TypeOK, Ends
<1>5. CASE reply \in promotions \cup {Refused}
  <2>1. UNCHANGED <<promotions, refs, events>>
    BY <1>5 DEF DecidePromotion
  <2> QED
    BY <1>1, <1>3, <1>4, <2>1
    DEF Inv, TypeOK, RefsGated, AcceptedMoved, OncePerOperation
<1>6. CASE reply \notin promotions \cup {Refused}
  <2>1. /\ promotions' = promotions \cup {reply}
        /\ IF reply.outcome = "accepted"
           THEN SetRef(Promotes(reply.id), reply.ref, reply.assessment.candidate)
           ELSE UNCHANGED <<refs, events>>
    BY <1>6 DEF DecidePromotion
  <2>2. PriorDecisions(command.id) = {} /\ AsExpected(command) /\ reply = Decided(command)
    <3>1. PriorDecisions(command.id) = {}
      <4> SUFFICES ASSUME PriorDecisions(command.id) # {} PROVE FALSE
        OBVIOUS
      <4>1. (CHOOSE d \in PriorDecisions(command.id) : TRUE) \in promotions
        BY DEF PriorDecisions
      <4> QED BY <1>6, <4>1 DEF Reply
    <3> QED BY <1>6, <3>1 DEF Reply
  <2> HIDE DEF reply
  <2>3. /\ reply.id = command.id /\ reply.ref = command.ref /\ reply.from = refs[command.ref]
        /\ reply.assessment = command.assessment /\ reply.accepted = command.accepted
        /\ reply.outcome \in {"accepted", "rejected"}
        /\ reply.outcome = "accepted" => /\ ~command.assessment.fails
                                         /\ command.assessment.reviews \subseteq command.accepted
        /\ reply = [id |-> reply.id, ref |-> reply.ref, from |-> reply.from,
                    assessment |-> reply.assessment, accepted |-> reply.accepted,
                    outcome |-> reply.outcome]
    BY <2>2 DEF Decided
  <2> HIDE DEF command
  <2>4. reply \in Decision
    BY <1>2, <2>3 DEF Inv, TypeOK, Decision
  <2>5. \A d \in promotions : d.id # reply.id
    BY <2>2, <2>3 DEF PriorDecisions
  <2>6. \A d, e \in promotions' : d.id = e.id => d = e
    BY <2>1, <2>5 DEF Inv, OncePerOperation
  <2>7. CASE reply.outcome = "rejected"
    <3>1. UNCHANGED <<refs, events>>
      BY <2>1, <2>7
    <3>2. RefsGated' /\ AcceptedMoved'
      BY <2>1, <2>7, <3>1, GatesKept DEF Inv, TypeOK
    <3>3. TypeOK'
      BY <1>1, <1>4, <2>1, <2>4, <3>1 DEF Inv, TypeOK
    <3> QED BY <1>3, <2>6, <3>1, <3>2, <3>3 DEF Inv, OncePerOperation
  <2>8. CASE reply.outcome = "accepted"
    <3> DEFINE op == Promotes(reply.id)
               candidate == reply.assessment.candidate
    <3>1. op \in Operation /\ reply.ref \in Refs
      BY <1>2, <2>3, OperationIdentity
    <3>2. /\ candidate \in versions
          /\ Parent(candidate) = reply.from /\ reply.from = refs[reply.ref]
      BY <1>2, <2>2, <2>3 DEF Inv, Compared, AsExpected
    <3>3. PriorEvents(op) = {}
      <4> SUFFICES ASSUME NEW i \in DOMAIN events, events[i].op = op PROVE FALSE
        BY DEF PriorEvents, ToSet
      <4>1. ~Initialisation(events[i])
        BY <1>2, <2>3, OperationIdentity DEF Initialisation
      <4>2. PICK d \in promotions : op = Promotes(d.id)
        BY <4>1 DEF Inv, RefsGated, Gates
      <4> QED BY <2>5, <4>2, OperationIdentity
    <3>4. SetRef(op, reply.ref, candidate)
      BY <2>1, <2>8
    <3> DEFINE event == [op |-> op, ref |-> reply.ref, from |-> refs[reply.ref], to |-> candidate]
    <3> HIDE DEF op, candidate
    <3>5. /\ refs' \in [Refs -> versions \cup {Absent}] /\ events' \in Seq(RefEvent)
          /\ \A i, j \in DOMAIN events' : events'[i].op = events'[j].op => i = j
          /\ \A i \in DOMAIN events : i \in DOMAIN events' /\ events'[i] = events[i]
          /\ \A i \in DOMAIN events' \ DOMAIN events : events'[i] = event
          /\ \E i \in DOMAIN events' \ DOMAIN events : TRUE
      BY <3>1, <3>2, <3>3, <3>4, Moves DEF Inv
    <3>6. Gates(reply, event) /\ Parent(event.to) = event.from
      BY <2>8, <3>2 DEF Gates, op, candidate
    <3> HIDE DEF event
    <3>7. RefsGated' /\ AcceptedMoved'
      <4>1. reply \in promotions' /\ promotions \subseteq promotions'
            /\ \A d \in promotions' \ promotions : d = reply
        BY <2>1
      <4>2. ~reply.assessment.fails /\ reply.assessment.reviews \subseteq reply.accepted
        BY <2>3, <2>8
      <4>3. \A i \in DOMAIN events' \ DOMAIN events :
              \E d \in promotions' :
                /\ Gates(d, events'[i]) /\ Parent(events'[i].to) = events'[i].from
                /\ ~d.assessment.fails /\ d.assessment.reviews \subseteq d.accepted
        BY <3>5, <3>6, <4>1, <4>2
      <4>4. \A d \in promotions' \ promotions :
              d.outcome = "accepted" => \E i \in DOMAIN events' : Gates(d, events'[i])
        BY <3>5, <3>6, <4>1
      <4>5. events \in Seq(RefEvent) /\ events' \in Seq(RefEvent) /\ RefsGated /\ AcceptedMoved
        BY <3>5 DEF Inv, TypeOK
      <4> QED BY <3>5, <4>1, <4>3, <4>4, <4>5, GatesKept
    <3>8. TypeOK'
      BY <1>1, <1>4, <2>1, <2>4, <3>5 DEF Inv, TypeOK
    <3> QED BY <1>3, <2>6, <3>5, <3>7, <3>8 DEF Inv, OncePerOperation
  <2> QED BY <2>3, <2>7, <2>8
<1> QED BY <1>5, <1>6
-----------------------------------------------------------------------------
LEMMA StepInv == Inv /\ [Next]_vars => Inv'
<1> SUFFICES ASSUME Inv, [Next]_vars PROVE Inv'
  OBVIOUS
<1>1. CASE Remember \/ UNCHANGED vars
  BY <1>1, BeginsInv DEF Remember, vars, Inv, TypeOK
<1>2. ASSUME NEW candidate \in versions, Review(candidate) PROVE Inv'
  BY <1>2, ReviewInv
<1>3. ASSUME NEW p \in Procs, Command(p) PROVE Inv'
  <2>1. CASE CreateVersion(p) \/ InitialiseRef(p) \/ DecidePromotion(p)
    BY <2>1, CreateInv, InitialiseInv, DecideInv
  <2>2. CASE ~(CreateVersion(p) \/ InitialiseRef(p) \/ DecidePromotion(p))
    <3>1. \/ Cut(p) \/ EnsureBaseline(p)
          \/ \E surface \in Interactive, ref \in Refs, label \in Labels \cup {NoLabel} :
               Capture(p, surface, ref, label)
          \/ \E id \in OperationIds, ref \in Refs, assessment \in assessments :
               \E accepted \in {{}, assessment.reviews} :
                 Promote(p, id, ref, assessment, accepted)
      BY <1>3, <2>2 DEF Command
    <3>2. UNCHANGED ledger /\ head' = head
      BY <3>1 DEF Cut, EnsureBaseline, Capture, Promote
    <3> QED BY <3>1, <3>2, BeginsInv DEF Inv, TypeOK
  <2> QED BY <2>1, <2>2
<1> QED BY <1>1, <1>2, <1>3 DEF Next

LEMMA SpecInv == Spec => []Inv
BY InitInv, StepInv, PTL DEF Spec

\* The ledger always has its types: labels and refs name versions that are stored.
THEOREM LedgerTypes == Spec => []TypeOK
BY SpecInv, PTL DEF Inv

\* promote is the only gate: whatever commands interleave or are cut off, a ref moves
\* by an initialisation or by a promotion whose review it passed.
THEOREM EveryMoveGated == Spec => []RefsGated
BY SpecInv, PTL DEF Inv

\* A decision to accept and the move of the ref are one.
THEOREM EveryAcceptanceMoved == Spec => []AcceptedMoved
BY SpecInv, PTL DEF Inv

\* No retry, under whatever id, is decided or moves a ref twice.
THEOREM OperationsOnce == Spec => []OncePerOperation
BY SpecInv, PTL DEF Inv

\* The answer to a retry is the decision that was made under its id.
THEOREM EveryRetryAnswered == Spec => []RetriesAnswered
<1>1. Inv => RetriesAnswered
  <2> SUFFICES ASSUME Inv, NEW d \in promotions, NEW accepted \in {{}, d.assessment.reviews}
               PROVE  Reply([kind |-> "promote", id |-> d.id, ref |-> d.ref,
                             expected |-> refs[d.ref], assessment |-> d.assessment,
                             accepted |-> accepted]) = d
    BY DEF RetriesAnswered
  <2>1. PriorDecisions(d.id) = {d}
    BY DEF Inv, OncePerOperation, PriorDecisions
  <2>2. (CHOOSE e \in {d} : TRUE) = d
    OBVIOUS
  <2> QED BY <2>1, <2>2 DEF Reply, Repeats
<1> QED BY <1>1, SpecInv, PTL

\* Whatever is stored stays: versions, reviews, decisions, events and labels.
THEOREM LedgerAppendOnly == Spec => AppendOnly
<1> DEFINE Kept == /\ versions \subseteq versions'
                   /\ assessments \subseteq assessments' /\ promotions \subseteq promotions'
                   /\ IsPrefix(events, events')
                   /\ \A l \in DOMAIN labels : l \in DOMAIN labels' /\ labels'[l] = labels[l]
<1>1. ASSUME Inv, [Next]_vars PROVE UNCHANGED ledger \/ Kept
  <2>0. events \in Seq(RefEvent) /\ IsPrefix(events, events)
    BY <1>1 DEF Inv, TypeOK, IsPrefix
  <2>1. CASE Remember \/ UNCHANGED vars
    BY <2>1 DEF Remember, vars
  <2>2. ASSUME NEW candidate \in versions, Review(candidate) PROVE Kept
    BY <2>0, <2>2 DEF Review
  <2>3. ASSUME NEW p \in Procs, Command(p) PROVE UNCHANGED ledger \/ Kept
    <3>1. CASE CreateVersion(p)
      <4> DEFINE version == Captured(job[p])
                 label == job[p].label
      <4>1. /\ \/ UNCHANGED <<versions, labels>>
               \/ /\ ~LabelTaken(label, version) /\ versions' = Stored(version)
                  /\ labels' = Labelled(label, version)
            /\ UNCHANGED <<assessments, promotions, events>>
        BY <3>1 DEF CreateVersion
      <4> HIDE DEF version, label
      <4> QED BY <2>0, <4>1 DEF LabelTaken, Stored, Labelled
    <3>2. CASE InitialiseRef(p)
      <4>1. /\ pc[p] = "initialise"
            /\ SetRef(Initialises(job[p].by, job[p].ref), job[p].ref, job[p].version)
            /\ UNCHANGED <<versions, labels, assessments, promotions>>
        BY <3>2 DEF InitialiseRef
      <4>2. job[p].by \in Surfaces /\ job[p].ref \in Refs /\ job[p].version \in versions
        BY <1>1, <4>1 DEF Inv, Commands
      <4> QED BY <1>1, <4>1, <4>2, OperationIdentity, Moves DEF Inv
    <3>3. CASE DecidePromotion(p)
      <4> DEFINE reply == Reply(job[p])
      <4>1. /\ pc[p] = "promote" /\ UNCHANGED <<versions, labels, assessments>>
            /\ \/ UNCHANGED <<promotions, refs, events>>
               \/ /\ reply \notin promotions \cup {Refused}
                  /\ promotions' = promotions \cup {reply}
                  /\ \/ SetRef(Promotes(reply.id), reply.ref, reply.assessment.candidate)
                     \/ UNCHANGED <<refs, events>>
        BY <3>3 DEF DecidePromotion
      <4>2. reply \notin promotions \cup {Refused} =>
              /\ reply.id = job[p].id /\ reply.ref = job[p].ref
              /\ reply.assessment = job[p].assessment
        <5> SUFFICES ASSUME reply \notin promotions \cup {Refused}
                     PROVE  reply = Decided(job[p])
          BY DEF Decided
        <5>1. (CHOOSE d \in PriorDecisions(job[p].id) : TRUE) \in promotions
              \/ PriorDecisions(job[p].id) = {}
          BY DEF PriorDecisions
        <5> QED BY <5>1 DEF Reply
      <4>3. /\ job[p].id \in OperationIds /\ job[p].ref \in Refs
            /\ job[p].assessment.candidate \in versions
        BY <1>1, <4>1 DEF Inv, Commands, Compared
      <4> HIDE DEF reply
      <4> QED BY <1>1, <2>0, <4>1, <4>2, <4>3, OperationIdentity, Moves DEF Inv
    <3> QED BY <2>3, <3>1, <3>2, <3>3 DEF Command, Cut, Capture, EnsureBaseline, Promote
  <2> QED BY <1>1, <2>1, <2>2, <2>3 DEF Next
<1> QED BY <1>1, SpecInv, PTL DEF Spec, AppendOnly
-----------------------------------------------------------------------------
\* A move starts where the events before it left its ref, and is the last of them.
LEMMA MoveChains ==
  ASSUME TypeOK, RefsChained, NEW op, NEW ref \in Refs, NEW version,
         SetRef(op, ref, version), events' \in Seq(RefEvent)
  PROVE  RefsChained'
<1> DEFINE event == [op |-> op, ref |-> ref, from |-> refs[ref], to |-> version]
           n == Len(events)
<1>1. CASE UNCHANGED <<refs, events>>
  <2>1. refs' = refs /\ events' = events
    BY <1>1
  <2>2. /\ \A r \in Refs : LeftAt(events, r, Len(events), refs[r])
        /\ \A i \in DOMAIN events : LeftAt(events, events[i].ref, i - 1, events[i].from)
    BY DEF RefsChained
  <2> QED BY <2>1, <2>2 DEF RefsChained
<1>2. CASE Move(op, ref, version)
  <2>1. events' = Append(events, event) /\ refs' = [refs EXCEPT ![ref] = version]
    BY <1>2 DEF Move
  <2>2. event.ref = ref /\ event.from = refs[ref] /\ event.to = version
    OBVIOUS
  <2>3. events \in Seq(RefEvent) /\ refs \in [Refs -> versions \cup {Absent}]
    BY DEF TypeOK
  <2> HIDE DEF event
  <2>4. /\ n \in Nat /\ Len(events') = n + 1 /\ events'[n + 1] = event
        /\ DOMAIN events = 1..n /\ DOMAIN events' = 1..(n + 1)
        /\ \A i \in 1..n : events'[i] = events[i]
    <3>1. Len(events') = n + 1 /\ events'[n + 1] = event
          /\ \A i \in 1..n : events'[i] = events[i]
      BY <2>1, <2>3
    <3> QED BY <2>3, <3>1
  <2> HIDE DEF n
  <2>5. \A r, v : \A k \in 0..n : LeftAt(events, r, k, v) => LeftAt(events', r, k, v)
    BY <2>4 DEF LeftAt
  <2>6. \A r \in Refs : LeftAt(events, r, n, refs[r])
    BY DEF RefsChained, n
  <2>7. ASSUME NEW r \in Refs PROVE LeftAt(events', r, n + 1, refs'[r])
    <3>1. CASE r = ref
      <4>1. refs'[r] = version /\ events'[n + 1].ref = r /\ events'[n + 1].to = version
        BY <2>1, <2>2, <2>3, <2>4, <3>1
      <4>2. n + 1 \in 1..(n + 1) /\ (n + 2)..(n + 1) = {} /\ (n + 1) + 1 = n + 2
        BY <2>4
      <4> QED BY <4>1, <4>2 DEF LeftAt
    <3>2. CASE r # ref
      <4>1. refs'[r] = refs[r] /\ events'[n + 1].ref # r
        BY <2>1, <2>2, <2>3, <2>4, <3>2
      <4>2. LeftAt(events, r, n, refs[r])
        BY <2>6
      <4> QED BY <2>4, <4>1, <4>2 DEF LeftAt
    <3> QED BY <3>1, <3>2
  <2>8. ASSUME NEW i \in DOMAIN events' PROVE LeftAt(events', events'[i].ref, i - 1, events'[i].from)
    <3>1. CASE i \in 1..n
      <4>1. LeftAt(events, events[i].ref, i - 1, events[i].from) /\ events'[i] = events[i]
        BY <2>4, <3>1 DEF RefsChained
      <4>2. i - 1 \in 0..n
        BY <2>4, <3>1
      <4>3. \A r, v : LeftAt(events, r, i - 1, v) => LeftAt(events', r, i - 1, v)
        BY <2>5, <4>2
      <4> QED BY <4>1, <4>3
    <3>2. CASE i = n + 1
      <4>1. events'[i].ref = ref /\ events'[i].from = refs[ref] /\ i - 1 = n /\ n \in 0..n
        BY <2>2, <2>4, <3>2
      <4>2. LeftAt(events, ref, n, refs[ref])
        BY <2>6
      <4> QED BY <2>4, <4>1, <4>2 DEF LeftAt
    <3> QED BY <2>4, <3>1, <3>2
  <2> QED BY <2>4, <2>7, <2>8 DEF RefsChained
<1> QED BY <1>1, <1>2 DEF SetRef

\* compare-and-set or not, the history of a ref accounts for the version it has.
THEOREM HistoryAccounts == Spec => []RefsChained
<1>1. Init => RefsChained
  BY DEF Init, RefsChained, LeftAt
<1>2. ASSUME Inv, RefsChained, [Next]_vars PROVE RefsChained'
  <2>0. TypeOK /\ events' \in Seq(RefEvent)
    BY <1>2, StepInv DEF Inv, TypeOK
  <2>1. CASE UNCHANGED <<refs, events>>
    BY <1>2, <2>1 DEF RefsChained, LeftAt
  <2>2. ASSUME NEW p \in Procs, InitialiseRef(p) PROVE RefsChained'
    BY <1>2, <2>0, <2>2, MoveChains DEF InitialiseRef, Inv, Commands
  <2>3. ASSUME NEW p \in Procs, DecidePromotion(p), ~UNCHANGED <<refs, events>>
        PROVE  RefsChained'
    <3> DEFINE reply == Reply(job[p])
    <3>1. /\ pc[p] = "promote" /\ reply \notin promotions \cup {Refused}
          /\ SetRef(Promotes(reply.id), reply.ref, reply.assessment.candidate)
      BY <2>3 DEF DecidePromotion
    <3>2. reply = Decided(job[p])
      <4>1. (CHOOSE d \in PriorDecisions(job[p].id) : TRUE) \in promotions
            \/ PriorDecisions(job[p].id) = {}
        BY DEF PriorDecisions
      <4> QED BY <3>1, <4>1 DEF Reply
    <3>3. reply.ref \in Refs
      BY <1>2, <3>1, <3>2 DEF Decided, Inv, Commands
    <3> HIDE DEF reply
    <3> QED BY <1>2, <2>0, <3>1, <3>3, MoveChains
  <2> QED
    BY <1>2, <2>1, <2>2, <2>3
    DEF Next, Command, Remember, Review, CreateVersion, Cut, Capture, EnsureBaseline,
        Promote, ledger, vars
<1> QED BY <1>1, <1>2, SpecInv, PTL DEF Spec
=============================================================================
