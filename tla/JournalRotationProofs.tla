----------------------- MODULE JournalRotationProofs -----------------------
(***************************************************************************)
(* Rotation never breaks the chain of segments, and is invisible: for all  *)
(* limits, interruptions and calls, the segments and the active journal    *)
(* together are the journal of the atomic store.                           *)
(***************************************************************************)
EXTENDS JournalRotation, StoreOperationsProofs, FiniteSetTheorems, FunctionTheorems, TLAPS

Ends == {0} \cup {s.name.last : s \in segments}

FileTypes ==
  /\ kb \in Knowledge
  /\ active \in Seq(Entry)
  /\ segments \in SUBSET Segment

\* The chain has a last segment; every position up to its end is in exactly one.
Tiled ==
  /\ \E k \in Ends : \A s \in segments : s.name.last <= k
  /\ \A i \in 1..PreviousEnd : \E s \in segments : i \in s.name.first..s.name.last
  /\ \A s, t \in segments : \A i \in Nat :
       i \in s.name.first..s.name.last /\ i \in t.name.first..t.name.last => s = t

Limits ==
  /\ Len(active) <= MaxJournalEntries
  /\ IsFiniteSet(segments)
  /\ Cardinality(segments) <= MaxSegments
  /\ PreviousEnd <= MaxJournalEntries * Cardinality(segments)

\* Under the locks, what was prepared is still what is about to be sealed.
DraftSound ==
  /\ step \in {"rotate", "publish"} => ~request.dryRun
  /\ step = "rotate" =>
       /\ active # <<>>
       /\ Cardinality(segments) < MaxSegments
       /\ draft.segment = [first |-> PreviousEnd + 1, last |-> PreviousEnd + Len(active),
                           digest |-> active]

ChainInv == FileTypes /\ ChainAccepted /\ Tiled /\ Limits /\ DraftSound
-----------------------------------------------------------------------------
LEMMA SegmentFields ==
  ASSUME FileTypes, ChainAccepted, NEW s \in segments
  PROVE  /\ s.name.first \in Nat /\ s.name.last \in Nat
         /\ s.entries \in Seq(Entry) /\ Len(s.entries) \in Nat \ {0}
         /\ s.name.last = s.name.first + Len(s.entries) - 1
         /\ 1 <= s.name.first /\ s.name.first <= s.name.last
<1>1. s \in Segment /\ s.name \in Name
  BY DEF FileTypes, Segment
<1>2. /\ s.name.first \in Nat /\ s.name.last \in Nat /\ s.entries \in Seq(Entry)
      /\ s.entries # <<>> /\ s.name.last = s.name.first + Len(s.entries) - 1
  BY <1>1 DEF Segment, Name, ChainAccepted
<1>3. Len(s.entries) \in Nat \ {0}
  BY <1>2
<1>4. 1 <= s.name.first
  <2>1. CASE s.name.first = 1 BY <2>1
  <2>2. CASE s.name.first # 1
    <3>1. PICK t \in segments : s.name.first = t.name.last + 1
      BY <2>2 DEF ChainAccepted
    <3>2. t.name.last \in Nat
      BY DEF FileTypes, Segment, Name
    <3> QED BY <3>1, <3>2
  <2> QED BY <2>1, <2>2
<1> QED BY <1>2, <1>3, <1>4

\* PreviousEnd is the greatest end ...
LEMMA EndIsGreatest ==
  ASSUME FileTypes, ChainAccepted, Tiled
  PROVE  /\ PreviousEnd \in Ends /\ PreviousEnd \in Nat
         /\ \A s \in segments : s.name.last <= PreviousEnd
<1>1. \E k \in Ends : \A s \in segments : s.name.last <= k
  BY DEF Tiled
<1>2. PreviousEnd \in Ends /\ \A s \in segments : s.name.last <= PreviousEnd
  BY <1>1 DEF PreviousEnd, Ends
<1>3. Ends \subseteq Nat
  BY SegmentFields DEF Ends
<1> QED BY <1>2, <1>3

\* ... and the only one.
LEMMA GreatestIsEnd ==
  ASSUME NEW k \in Ends, Ends \subseteq Nat, \A s \in segments : s.name.last <= k
  PROVE  PreviousEnd = k
<1>1. /\ PreviousEnd \in Ends
      /\ \A s \in segments : s.name.last <= PreviousEnd
  BY DEF PreviousEnd, Ends
<1>2. k <= PreviousEnd
  BY <1>1 DEF Ends
<1>3. PreviousEnd <= k
  BY <1>1 DEF Ends
<1> QED BY <1>1, <1>2, <1>3

LEMMA SegmentAt ==
  ASSUME FileTypes, ChainAccepted, Tiled, NEW s \in segments, NEW i \in Nat,
         i \in s.name.first..s.name.last
  PROVE  /\ i \in 1..PreviousEnd
         /\ Logical[i] = s.entries[i - s.name.first + 1]
<1>1. i \in 1..PreviousEnd
  BY SegmentFields, EndIsGreatest
<1>2. (CHOOSE t \in segments : i \in t.name.first..t.name.last) = s
  <2> DEFINE t == CHOOSE u \in segments : i \in u.name.first..u.name.last
  <2>1. t \in segments /\ i \in t.name.first..t.name.last
    OBVIOUS
  <2> QED BY <2>1 DEF Tiled
<1>3. i \in 1..(PreviousEnd + Len(active)) /\ ~(i > PreviousEnd)
  BY <1>1, EndIsGreatest DEF FileTypes
<1> QED BY <1>1, <1>2, <1>3 DEF Logical

Lookup ==
  \A s \in segments : \A i \in Nat : i \in s.name.first..s.name.last =>
    Logical[i] = s.entries[i - s.name.first + 1]

LEMMA SegmentLookup == FileTypes /\ ChainAccepted /\ Tiled => Lookup
BY SegmentAt DEF Lookup

LEMMA ActiveAt ==
  ASSUME FileTypes, ChainAccepted, Tiled, NEW j \in 1..Len(active)
  PROVE  /\ PreviousEnd + j \in DOMAIN Logical
         /\ Logical[PreviousEnd + j] = active[j]
<1>1. PreviousEnd \in Nat /\ Len(active) \in Nat
  BY EndIsGreatest DEF FileTypes
<1> DEFINE i == PreviousEnd + j
<1>2. i \in 1..(PreviousEnd + Len(active)) /\ i > PreviousEnd /\ i - PreviousEnd = j
  BY <1>1
<1>3. Logical[i] = active[i - PreviousEnd]
  BY <1>2 DEF Logical
<1> QED BY <1>2, <1>3 DEF Logical

LEMMA LogicalIsSequence ==
  ASSUME FileTypes, ChainAccepted, Tiled
  PROVE  /\ Logical \in Seq(Entry)
         /\ Len(Logical) = PreviousEnd + Len(active)
         /\ DOMAIN Logical = 1..(PreviousEnd + Len(active))
<1>1. PreviousEnd \in Nat /\ Len(active) \in Nat
  BY EndIsGreatest DEF FileTypes
<1>2. DOMAIN Logical = 1..(PreviousEnd + Len(active))
  BY DEF Logical
<1>3. ASSUME NEW i \in 1..(PreviousEnd + Len(active)) PROVE Logical[i] \in Entry
  <2>1. CASE i <= PreviousEnd
    <3>1. PICK s \in segments : i \in s.name.first..s.name.last
      BY <1>1, <2>1 DEF Tiled
    <3>2. Logical[i] = s.entries[i - s.name.first + 1]
      BY <3>1, SegmentAt
    <3>3. i - s.name.first + 1 \in 1..Len(s.entries)
      BY <3>1, SegmentFields
    <3> QED BY <3>2, <3>3, SegmentFields
  <2>2. CASE i > PreviousEnd
    <3>1. i - PreviousEnd \in 1..Len(active) /\ PreviousEnd + (i - PreviousEnd) = i
      BY <1>1, <2>2
    <3>2. Logical[i] = active[i - PreviousEnd]
      BY <3>1, ActiveAt
    <3> QED BY <3>1, <3>2 DEF FileTypes
  <2> QED BY <1>1, <2>1, <2>2
<1>4. Logical = [i \in 1..(PreviousEnd + Len(active)) |-> Logical[i]]
  BY <1>2 DEF Logical
<1>5. Logical \in [1..(PreviousEnd + Len(active)) -> Entry]
  BY <1>3, <1>4
<1>6. PreviousEnd + Len(active) \in Nat
  BY <1>1
<1> QED BY <1>2, <1>5, <1>6
-----------------------------------------------------------------------------
(* What the steps do to the journal its readers see                        *)

\* Logical is a function on the positions; those after the segments are active's.
Shape ==
  /\ Logical = [i \in 1..(PreviousEnd + Len(active)) |-> Logical[i]]
  /\ \A i \in 1..(PreviousEnd + Len(active)) :
       i > PreviousEnd => Logical[i] = active[i - PreviousEnd]

LEMMA LogicalShape == Shape
BY DEF Logical, Shape

LEMMA SameFiles ==
  ASSUME UNCHANGED <<active, segments>>
  PROVE  PreviousEnd' = PreviousEnd /\ Logical' = Logical
<1>1. PreviousEnd' = PreviousEnd
  BY DEF PreviousEnd
<1> QED BY <1>1 DEF Logical

LEMMA SequenceIsFunction ==
  ASSUME NEW S, NEW s \in Seq(S)
  PROVE  s = [i \in 1..Len(s) |-> s[i]]
OBVIOUS

LEMMA Appending ==
  ASSUME FileTypes, ChainAccepted, Tiled, NEW e \in Entry,
         active' = Append(active, e), UNCHANGED segments
  PROVE  /\ PreviousEnd' = PreviousEnd
         /\ Logical' = Append(Logical, e)
<1>1. PreviousEnd' = PreviousEnd
  BY DEF PreviousEnd
<1>2. /\ Len(active') = Len(active) + 1
      /\ \A j \in 1..Len(active) : active'[j] = active[j]
      /\ active'[Len(active) + 1] = e
  BY DEF FileTypes
<1>3. PreviousEnd \in Nat /\ Len(active) \in Nat
  BY EndIsGreatest DEF FileTypes
<1> DEFINE n == PreviousEnd + Len(active)
<1>4. Shape'
  BY LogicalShape, PTL
<1>5. ASSUME NEW i \in 1..n PROVE Logical'[i] = Logical[i]
  <2>1. i \in 1..(PreviousEnd' + Len(active')) /\ i \in 1..(PreviousEnd + Len(active))
    BY <1>1, <1>2, <1>3
  <2>2. CASE i > PreviousEnd
    <3>1. i - PreviousEnd \in 1..Len(active)
      BY <1>3, <2>2
    <3> QED BY <1>1, <1>2, <2>1, <2>2, <3>1 DEF Logical
  <2>3. CASE ~(i > PreviousEnd)
    BY <1>1, <2>1, <2>3 DEF Logical
  <2> QED BY <2>2, <2>3
<1>6. ASSUME NEW i, i = n + 1 PROVE Logical'[i] = e
  <2>1. i \in 1..(PreviousEnd' + Len(active')) /\ i > PreviousEnd'
        /\ i - PreviousEnd' = Len(active) + 1
    BY <1>1, <1>2, <1>3, <1>6
  <2> QED BY <1>2, <1>4, <2>1 DEF Shape
<1>7. Logical \in Seq(Entry) /\ Len(Logical) = n
  BY LogicalIsSequence
<1>8. Logical' = [i \in 1..(n + 1) |-> Logical'[i]]
  <2>1. Logical' = [i \in 1..(PreviousEnd' + Len(active')) |-> Logical'[i]]
    BY <1>4 DEF Shape
  <2>2. PreviousEnd' + Len(active') = n + 1
    BY <1>1, <1>2, <1>3
  <2> QED BY <2>1, <2>2
<1>9. /\ Append(Logical, e) \in Seq(Entry) /\ Len(Append(Logical, e)) = n + 1
      /\ \A i \in 1..n : Append(Logical, e)[i] = Logical[i]
      /\ Append(Logical, e)[n + 1] = e
  BY <1>7
<1>10. \A i \in 1..(n + 1) : Logical'[i] = Append(Logical, e)[i]
  <2> TAKE i \in 1..(n + 1)
  <2>1. i \in 1..n \/ i = n + 1
    BY <1>3
  <2> QED BY <1>5, <1>6, <1>9, <2>1
<1>11. Append(Logical, e) = [i \in 1..(n + 1) |-> Append(Logical, e)[i]]
  BY <1>9, SequenceIsFunction
<1> QED BY <1>1, <1>8, <1>10, <1>11

\* A rotation as it happens: the new segment holds the active journal.
Sealing ==
  /\ active # <<>> /\ Cardinality(segments) < MaxSegments
  /\ segments' = segments \cup
       {[name |-> [first |-> PreviousEnd + 1, last |-> PreviousEnd + Len(active),
                   digest |-> active],
         entries |-> active]}
  /\ active' = <<>>

LEMMA SealingEnds ==
  ASSUME FileTypes, ChainAccepted, Tiled, Sealing
  PROVE  /\ PreviousEnd' = PreviousEnd + Len(active)
         /\ PreviousEnd' \in Ends'
         /\ \A s \in segments' : s.name.last <= PreviousEnd'
<1> DEFINE k == PreviousEnd + Len(active)
<1>1. PreviousEnd \in Nat /\ Len(active) \in Nat \ {0}
  BY EndIsGreatest DEF FileTypes, Sealing
<1>2. \A s \in segments' : s.name.last \in Nat /\ s.name.last <= k
  <2> TAKE s \in segments'
  <2>1. CASE s \in segments
    BY <1>1, <2>1, SegmentFields, EndIsGreatest
  <2>2. CASE s \notin segments
    BY <1>1, <2>2 DEF Sealing
  <2> QED BY <2>1, <2>2
<1>3. k \in {s.name.last : s \in segments'}
  <2> DEFINE new == [name |-> [first |-> PreviousEnd + 1, last |-> k, digest |-> active],
                     entries |-> active]
  <2>1. new \in segments' /\ new.name.last = k
    BY DEF Sealing
  <2> QED BY <2>1
<1>4. PreviousEnd' = CHOOSE j \in {0} \cup {s.name.last : s \in segments'} :
                       \A s \in segments' : s.name.last <= j
  BY DEF PreviousEnd
<1>5. /\ PreviousEnd' \in {0} \cup {s.name.last : s \in segments'}
      /\ \A s \in segments' : s.name.last <= PreviousEnd'
  BY <1>2, <1>3, <1>4
<1>6. PreviousEnd' <= k /\ k <= PreviousEnd'
  BY <1>1, <1>2, <1>3, <1>5
<1>7. PreviousEnd' \in Nat
  BY <1>2, <1>5
<1> QED BY <1>1, <1>5, <1>6, <1>7 DEF Ends

LEMMA SealingChain ==
  ASSUME FileTypes, ChainAccepted, Tiled, Sealing
  PROVE  (segments \in SUBSET Segment)' /\ ChainAccepted' /\ Tiled'
<1> DEFINE k == PreviousEnd + Len(active)
           new == [name |-> [first |-> PreviousEnd + 1, last |-> k, digest |-> active],
                   entries |-> active]
<1>1. PreviousEnd \in Nat /\ Len(active) \in Nat \ {0} /\ active \in Seq(Entry)
  BY EndIsGreatest DEF FileTypes, Sealing
<1>2. segments' = segments \cup {new} /\ active' = <<>>
  BY DEF Sealing
<1>3. new \in Segment
  BY <1>1 DEF Segment, Name
<1>4. (segments \in SUBSET Segment)'
  BY <1>2, <1>3 DEF FileTypes
<1>5. \A s \in segments : s.name.first <= s.name.last /\ s.name.last <= PreviousEnd
                          /\ s.name.first \in Nat /\ s.name.last \in Nat
  BY SegmentFields, EndIsGreatest
<1>6. ChainAccepted'
  <2>1. \A s \in segments' :
          /\ s.name.digest = s.entries
          /\ s.entries # <<>>
          /\ s.name.last = s.name.first + Len(s.entries) - 1
    <3> TAKE s \in segments'
    <3>1. CASE s \in segments BY <3>1 DEF ChainAccepted
    <3>2. CASE s = new BY <1>1, <3>2 DEF Sealing
    <3> QED BY <1>2, <3>1, <3>2
  <2>2. \A s \in segments' :
          s.name.first = 1 \/ \E t \in segments' : s.name.first = t.name.last + 1
    <3> TAKE s \in segments'
    <3>1. CASE s \in segments BY <1>2, <3>1 DEF ChainAccepted
    <3>2. CASE s = new
      <4>1. PreviousEnd = 0 \/ \E t \in segments : t.name.last = PreviousEnd
        BY EndIsGreatest DEF Ends
      <4> QED BY <1>2, <3>2, <4>1
    <3> QED BY <1>2, <3>1, <3>2
  <2>3. \A s, t \in segments' : s.name.first = t.name.first => s = t
    BY <1>1, <1>2, <1>5 DEF ChainAccepted
  <2> QED BY <2>1, <2>2, <2>3 DEF ChainAccepted
<1>7. Tiled'
  <2>1. \E j \in Ends' : \A s \in segments' : s.name.last <= j
    BY SealingEnds
  <2>2. \A i \in 1..PreviousEnd' : \E s \in segments' : i \in s.name.first..s.name.last
    <3> TAKE i \in 1..PreviousEnd'
    <3>1. PreviousEnd' = k
      BY SealingEnds
    <3>2. CASE i <= PreviousEnd
      BY <1>1, <1>2, <3>1, <3>2 DEF Tiled
    <3>3. CASE i > PreviousEnd
      <4>1. i \in new.name.first..new.name.last
        BY <1>1, <3>1, <3>3
      <4> QED BY <1>2, <4>1
    <3> QED BY <1>1, <3>1, <3>2, <3>3
  <2>3. \A s, t \in segments' : \A i \in Nat :
          i \in s.name.first..s.name.last /\ i \in t.name.first..t.name.last => s = t
    <3> TAKE s, t \in segments'
    <3> TAKE i \in Nat
    <3>1. CASE s \in segments /\ t \in segments
      BY <3>1 DEF Tiled
    <3>2. CASE s = new /\ t = new
      BY <3>2
    <3>3. CASE s = new /\ t \in segments
      BY <1>1, <1>5, <3>3
    <3>4. CASE s \in segments /\ t = new
      BY <1>1, <1>5, <3>4
    <3> QED BY <1>2, <3>1, <3>2, <3>3, <3>4
  <2> QED BY <2>1, <2>2, <2>3 DEF Tiled
<1> QED BY <1>4, <1>6, <1>7

\* Its readers do not see it.
LEMMA SealingInvisible ==
  ASSUME FileTypes, ChainAccepted, Tiled, Sealing, UNCHANGED kb
  PROVE  Logical' = Logical
<1> DEFINE n == PreviousEnd + Len(active)
           new == [name |-> [first |-> PreviousEnd + 1, last |-> n, digest |-> active],
                   entries |-> active]
<1>1. PreviousEnd \in Nat /\ Len(active) \in Nat \ {0} /\ active \in Seq(Entry)
  BY EndIsGreatest DEF FileTypes, Sealing
<1>2. segments' = segments \cup {new} /\ active' = <<>> /\ Len(active') = 0
  BY DEF Sealing
<1>3. PreviousEnd' = n
  BY SealingEnds
<1>4. FileTypes' /\ ChainAccepted' /\ Tiled'
  BY <1>2, SealingChain DEF FileTypes
<1>5. Lookup'
  BY <1>4, SegmentLookup, PTL
<1>6. Logical' = [i \in 1..n |-> Logical'[i]]
  <2>1. Shape'
    BY LogicalShape, PTL
  <2>2. PreviousEnd' + Len(active') = n
    BY <1>1, <1>2, <1>3
  <2> QED BY <2>1, <2>2 DEF Shape
<1>7. \A i \in 1..n : Logical'[i] = Logical[i]
  <2> TAKE i \in 1..n
  <2>1. CASE i <= PreviousEnd
    <3>1. PICK s \in segments : i \in s.name.first..s.name.last
      BY <1>1, <2>1 DEF Tiled
    <3>2. Logical[i] = s.entries[i - s.name.first + 1]
      BY <3>1, SegmentAt
    <3>3. s \in segments'
      BY <1>2
    <3> QED BY <1>5, <3>1, <3>2, <3>3 DEF Lookup
  <2>2. CASE i > PreviousEnd
    <3>1. /\ i - PreviousEnd \in 1..Len(active) /\ PreviousEnd + (i - PreviousEnd) = i
          /\ i - (PreviousEnd + 1) + 1 = i - PreviousEnd
      BY <1>1, <2>2
    <3>2. Logical[i] = active[i - PreviousEnd]
      BY <3>1, ActiveAt
    <3>3. new \in segments' /\ i \in new.name.first..new.name.last
      BY <1>1, <1>2, <2>2
    <3>4. Logical'[i] = new.entries[i - new.name.first + 1]
      BY <1>5, <3>3 DEF Lookup
    <3> QED BY <3>1, <3>2, <3>4
  <2> QED BY <1>1, <2>1, <2>2
<1>8. Logical = [i \in 1..n |-> Logical[i]]
  BY LogicalShape DEF Shape
<1> QED BY <1>6, <1>7, <1>8

LEMMA SealingLimits ==
  ASSUME FileTypes, ChainAccepted, Tiled, Limits, Sealing
  PROVE  Limits'
<1> DEFINE n == Cardinality(segments)
           new == [name |-> [first |-> PreviousEnd + 1, last |-> PreviousEnd + Len(active),
                             digest |-> active],
                   entries |-> active]
<1>1. PreviousEnd \in Nat /\ Len(active) \in Nat /\ n \in Nat
      /\ MaxJournalEntries \in Nat /\ MaxSegments \in Nat
  BY EndIsGreatest, FS_CardinalityType, RotationAssumption DEF FileTypes, Limits
<1>2. new \notin segments
  BY <1>1, SegmentFields, EndIsGreatest
<1>3. segments' = segments \cup {new} /\ active' = <<>> /\ n < MaxSegments
  BY DEF Sealing
<1>4. IsFiniteSet(segments') /\ Cardinality(segments') = n + 1
  BY <1>2, <1>3, FS_AddElement DEF Limits
<1>5. MaxJournalEntries * (n + 1) = MaxJournalEntries * n + MaxJournalEntries
  BY <1>1
<1>6. PreviousEnd' = PreviousEnd + Len(active)
  BY SealingEnds
<1>7. MaxJournalEntries * n \in Nat
  BY <1>1
<1>8. PreviousEnd + Len(active) <= MaxJournalEntries * (n + 1)
  BY <1>1, <1>5, <1>7 DEF Limits
<1>9. Len(active') = 0
  BY <1>3
<1> QED BY <1>1, <1>3, <1>4, <1>6, <1>8, <1>9 DEF Limits
-----------------------------------------------------------------------------
LEMMA ChainInit == Init => ChainInv
<1> SUFFICES ASSUME Init PROVE ChainInv
  OBVIOUS
<1> USE DEF Init
<1>1. FileTypes
  BY DEF FileTypes, Knowledge
<1>2. ChainAccepted
  BY DEF ChainAccepted
<1>3. PreviousEnd = 0
  BY GreatestIsEnd DEF Ends
<1>4. Tiled
  BY <1>3 DEF Tiled, Ends
<1>5. IsFiniteSet(segments) /\ Cardinality(segments) = 0
  BY FS_EmptySet
<1>6. MaxJournalEntries \in Nat /\ MaxSegments \in Nat
  BY RotationAssumption
<1>7. Len(active) = 0
  OBVIOUS
<1>8. MaxJournalEntries * 0 = 0
  BY <1>6
<1>9. Limits
  BY <1>3, <1>5, <1>6, <1>7, <1>8 DEF Limits
<1>10. DraftSound
  BY DEF DraftSound
<1> QED BY <1>1, <1>2, <1>4, <1>9, <1>10 DEF ChainInv

\* An entry is appended to the active journal.
LEMMA AppendingKeeps ==
  ASSUME ChainInv, NEW e \in Entry, step = "idle", Len(active) < MaxJournalEntries,
         active' = Append(active, e), kb' \in Knowledge, UNCHANGED <<segments, step, locals>>
  PROVE  ChainInv'
<1>1. FileTypes'
  BY DEF FileTypes, ChainInv
<1>2. ChainAccepted'
  BY DEF ChainAccepted, ChainInv
<1>3. PreviousEnd' = PreviousEnd
  BY Appending DEF ChainInv
<1>4. Tiled'
  BY <1>3 DEF Tiled, ChainInv, Ends
<1>5. Len(active') = Len(active) + 1 /\ Len(active) \in Nat
  BY DEF FileTypes, ChainInv
<1>6. MaxJournalEntries \in Nat
  BY RotationAssumption
<1>7. Limits'
  BY <1>3, <1>5, <1>6 DEF Limits, ChainInv
<1>8. DraftSound'
  BY DEF DraftSound
<1> QED BY <1>1, <1>2, <1>4, <1>7, <1>8 DEF ChainInv

\* A step of compactJournal leaves the files of the journal alone.
LEMMA FilesKept ==
  ASSUME ChainInv, UNCHANGED <<kb, active, segments>>, DraftSound'
  PROVE  ChainInv'
<1>1. PreviousEnd' = PreviousEnd
  BY SameFiles
<1>2. FileTypes' /\ ChainAccepted'
  BY DEF FileTypes, ChainAccepted, ChainInv
<1>3. Tiled'
  BY <1>1 DEF Tiled, ChainInv, Ends
<1>4. Limits'
  BY <1>1 DEF Limits, ChainInv
<1> QED BY <1>2, <1>3, <1>4 DEF ChainInv

\* What a mutation writes.
LEMMA Mutated ==
  ASSUME ChainInv, NEW req \in Requests, Mutate(req)
  PROVE  /\ EntryOf(req, kb, Logical) \in Entry
         /\ kb' \in Knowledge
<1>1. Logical \in Seq(Entry) /\ kb \in Knowledge
  BY LogicalIsSequence DEF ChainInv, FileTypes
<1>2. EntryOf(req, kb, Logical) \in Entry
  BY <1>1, EntryTypes
<1>3. Candidate(req, kb[req.ns]) \in SUBSET Clauses
  BY <1>1, RequestFields, EffectTypes DEF Knowledge
<1>4. kb' = [kb EXCEPT ![req.ns] = Candidate(req, kb[req.ns])] \/ kb' = kb
  BY DEF Mutate
<1>5. kb' \in Knowledge
  BY <1>1, <1>3, <1>4 DEF Knowledge
<1> QED BY <1>2, <1>5

LEMMA Noted ==
  ASSUME ChainInv, NEW n \in Namespaces
  PROVE  NoteEntry(n, Logical) \in Entry
<1>1. Logical \in Seq(Entry)
  BY LogicalIsSequence DEF ChainInv
<1> QED BY <1>1, NoteTypes

LEMMA RotateSeals ==
  ASSUME ChainInv, Rotate
  PROVE  Sealing /\ UNCHANGED kb
BY DEF Rotate, ChainInv, DraftSound, Sealing

LEMMA ChainStep == ChainInv /\ [Next]_vars => ChainInv'
<1> SUFFICES ASSUME ChainInv, [Next]_vars PROVE ChainInv'
  OBVIOUS
<1>1. ASSUME NEW req \in Requests, Mutate(req) PROVE ChainInv'
  BY <1>1, Mutated, AppendingKeeps DEF Mutate
<1>2. ASSUME NEW n \in Namespaces, Note(n) PROVE ChainInv'
  <2>1. kb' \in Knowledge
    BY <1>2 DEF Note, ChainInv, FileTypes
  <2> QED BY <1>2, <2>1, Noted, AppendingKeeps DEF Note
<1>3. CASE CallCompact
  BY <1>3, FilesKept DEF CallCompact, DraftSound, journalFiles
<1>4. CASE Interrupt
  BY <1>4, FilesKept DEF Interrupt, Leave, DraftSound, journalFiles
<1>5. CASE Verify
  BY <1>5, FilesKept DEF Verify, Leave, DraftSound, journalFiles
<1>6. CASE Repair
  BY <1>6, FilesKept DEF Repair, Leave, DraftSound
<1>7. CASE Replayed
  BY <1>7, FilesKept DEF Replayed, Leave, DraftSound, journalFiles
<1>8. CASE NothingToRotate
  BY <1>8, FilesKept DEF NothingToRotate, DraftSound, journalFiles
<1>9. CASE Prepare
  <2>1. UNCHANGED <<kb, active, segments, request>> \/ step' = "idle"
    BY <1>9 DEF Prepare, Leave, journalFiles
  <2>2. UNCHANGED <<kb, active, segments>>
    BY <1>9 DEF Prepare, journalFiles
  <2>3. CASE step' = "rotate"
    <3>1. /\ active # <<>> /\ ~Exhausted /\ ~request.dryRun /\ UNCHANGED request
          /\ draft'.segment = [first |-> PreviousEnd + 1, last |-> PreviousEnd + Len(active),
                               digest |-> active]
      BY <1>9, <2>3 DEF Prepare, Leave, Artifact
    <3>2. Cardinality(segments) \in Nat /\ MaxSegments \in Nat
      BY FS_CardinalityType, RotationAssumption DEF ChainInv, Limits
    <3>3. Cardinality(segments) < MaxSegments
      BY <3>1, <3>2 DEF Exhausted
    <3>4. PreviousEnd' = PreviousEnd
      BY <2>2, SameFiles
    <3>5. DraftSound'
      BY <2>2, <2>3, <3>1, <3>3, <3>4 DEF DraftSound
    <3> QED BY <2>2, <3>5, FilesKept
  <2>4. CASE step' # "rotate"
    <3>1. step' \in {"idle", "done"}
      BY <1>9, <2>4 DEF Prepare, Leave
    <3>2. DraftSound'
      BY <3>1 DEF DraftSound
    <3> QED BY <2>2, <3>2, FilesKept
  <2> QED BY <2>3, <2>4
<1>10. CASE Rotate
  <2>1. Sealing /\ UNCHANGED kb
    BY <1>10, RotateSeals
  <2>2. (segments \in SUBSET Segment)' /\ ChainAccepted' /\ Tiled'
    BY <2>1, SealingChain DEF ChainInv
  <2>3. Limits'
    BY <2>1, SealingLimits DEF ChainInv
  <2>4. FileTypes'
    BY <2>1, <2>2 DEF Sealing, ChainInv, FileTypes
  <2>5. DraftSound'
    BY <1>10 DEF Rotate, DraftSound, ChainInv, locals
  <2> QED BY <2>2, <2>3, <2>4, <2>5 DEF ChainInv
<1>11. CASE Publish
  BY <1>11, FilesKept DEF Publish, DraftSound
<1>12. CASE Return
  BY <1>12, FilesKept DEF Return, Leave, DraftSound, journalFiles
<1>13. CASE UNCHANGED vars
  <2>1. DraftSound'
    <3>1. UNCHANGED <<kb, active, segments, step, request, draft>>
      BY <1>13 DEF vars, journalFiles, locals
    <3>2. PreviousEnd' = PreviousEnd
      BY <3>1, SameFiles
    <3> QED BY <3>1, <3>2 DEF DraftSound, ChainInv
  <2> QED BY <1>13, <2>1, FilesKept DEF vars, journalFiles
<1> QED BY <1>1, <1>2, <1>3, <1>4, <1>5, <1>6, <1>7, <1>8, <1>9, <1>10, <1>11, <1>12, <1>13
      DEF Next, Compact

LEMMA ChainAlways == Spec => []ChainInv
BY ChainInit, ChainStep, PTL DEF Spec

\* ChainComplete for any limits, calls and interruptions: the readers of the
\* journal never find a segment missing, overlapping or other than its name.
THEOREM RotationKeepsChain == Spec => []ChainComplete
<1>1. ChainInv => ChainComplete
  BY DEF ChainInv, ChainComplete
<1> QED BY <1>1, ChainAlways, PTL
-----------------------------------------------------------------------------
\* DryRunChangesNothing for any limits, calls and interruptions.
LEMMA DryRunStep ==
  ChainInv /\ [Next]_vars => (step # "idle" /\ request.dryRun => UNCHANGED <<kb, journalFiles>>)
<1> SUFFICES ASSUME ChainInv, [Next]_vars, step # "idle", request.dryRun
             PROVE  UNCHANGED <<kb, journalFiles>>
  OBVIOUS
<1>1. step \notin {"rotate", "publish"}
  BY DEF ChainInv, DraftSound
<1>2. ASSUME NEW req \in Requests, Mutate(req) PROVE FALSE
  BY <1>2 DEF Mutate
<1>3. ASSUME NEW n \in Namespaces, Note(n) PROVE FALSE
  BY <1>3 DEF Note
<1>4. CASE CallCompact \/ Interrupt \/ Verify \/ Return
  BY <1>4 DEF CallCompact, Interrupt, Verify, Return
<1>5. CASE Repair
  BY <1>5 DEF Repair, journalFiles
<1>6. CASE Replayed \/ NothingToRotate \/ Prepare
  BY <1>6 DEF Replayed, NothingToRotate, Prepare
<1>7. CASE Rotate \/ Publish
  BY <1>1, <1>7 DEF Rotate, Publish
<1>8. CASE UNCHANGED vars
  BY <1>8 DEF vars
<1> QED BY <1>2, <1>3, <1>4, <1>5, <1>6, <1>7, <1>8 DEF Next, Compact

THEOREM DryRunsAreDry == Spec => DryRunChangesNothing
<1>1. ChainInv /\ [Next]_vars =>
        [step # "idle" /\ request.dryRun => UNCHANGED <<kb, journalFiles>>]_vars
  BY DryRunStep
<1> QED BY <1>1, ChainAlways, PTL DEF Spec, DryRunChangesNothing
-----------------------------------------------------------------------------
(* The atomic store                                                        *)

\* KnowledgeStore decides and records with the same operators.
LEMMA SameEffect ==
  ASSUME NEW req, NEW current
  PROVE  /\ Store!Ended(req, current) = Ended(req, current)
         /\ Store!Added(req, current) = Added(req, current)
         /\ Store!Candidate(req, current) = Candidate(req, current)
         /\ Store!NoEffect(req, current) = NoEffect(req, current)
<1>1. /\ Store!Ended(req, current) = Ended(req, current)
      /\ Store!Kept(req, current) = Kept(req, current)
  BY DEF Ended, Kept, Store!Ended, Store!Kept
<1>2. Store!Archived(req, current) = Archived(req, current)
  BY <1>1 DEF Archived, Store!Archived
<1>3. Store!Added(req, current) = Added(req, current)
  BY <1>1, <1>2 DEF Added, Store!Added
<1> QED BY <1>1, <1>3 DEF Candidate, Store!Candidate, NoEffect, Store!NoEffect

LEMMA SameDecision ==
  ASSUME NEW req, NEW k, NEW l
  PROVE  /\ Store!Outcome(req, k, l) = Outcome(req, k, l)
         /\ Store!EntryOf(req, k, l) = EntryOf(req, k, l)
<1>1. Store!Explicit(req) = Explicit(req)
  BY DEF Explicit, Store!Explicit
<1>2. Store!PriorEntries(req, l) = PriorEntries(req, l)
  BY DEF PriorEntries, Store!PriorEntries
<1>3. /\ Store!IsRetry(req, l) = IsRetry(req, l)
      /\ Store!Conflicts(req, l) = Conflicts(req, l)
  BY <1>1, <1>2 DEF IsRetry, Store!IsRetry, Conflicts, Store!Conflicts
<1>4. Store!Inapplicable(req, k) = Inapplicable(req, k)
  BY SameEffect DEF Inapplicable, Store!Inapplicable, Kept, Store!Kept,
                    Ended, Store!Ended, DigestBound, Store!DigestBound
<1>5. \A view, m : Store!Violations(m, view) = Violations(m, view)
  BY DEF Violations, Store!Violations
<1>6. Store!Enforces(req, k[req.ns]) = Enforces(req, k[req.ns])
  BY <1>1, SameEffect DEF Enforces, Store!Enforces, DigestBound, Store!DigestBound
<1>7. Store!Rejected(req, k) = Rejected(req, k)
  BY <1>5, <1>6, SameEffect DEF Rejected, Store!Rejected
<1>8. Store!NoEffect(req, k[req.ns]) = NoEffect(req, k[req.ns])
  BY SameEffect
<1>9. Store!Outcome(req, k, l) = Outcome(req, k, l)
  BY <1>1, <1>3, <1>4, <1>7, <1>8 DEF Outcome, Store!Outcome
<1>10. Store!EntryOf(req, k, l) = EntryOf(req, k, l)
  BY <1>1, SameEffect DEF EntryOf, Store!EntryOf
<1> QED BY <1>9, <1>10

\* As long as the active journal has room, so has the journal of the store.
LEMMA Room ==
  ASSUME ChainInv, Len(active) < MaxJournalEntries
  PROVE  Len(Logical) < MaxJournalEntries * (MaxSegments + 1)
<1> DEFINE c == Cardinality(segments)
<1>1. PreviousEnd \in Nat /\ Len(active) \in Nat /\ c \in Nat
      /\ MaxJournalEntries \in Nat /\ MaxSegments \in Nat
  BY EndIsGreatest, FS_CardinalityType, RotationAssumption DEF ChainInv, FileTypes, Limits
<1>2. PreviousEnd <= MaxJournalEntries * c /\ c <= MaxSegments
  BY DEF ChainInv, Limits
<1>3. MaxJournalEntries * c <= MaxJournalEntries * MaxSegments
  BY <1>1, <1>2
<1>4. MaxJournalEntries * (MaxSegments + 1) = MaxJournalEntries * MaxSegments + MaxJournalEntries
  BY <1>1
<1>5. MaxJournalEntries * c \in Nat /\ MaxJournalEntries * MaxSegments \in Nat
  BY <1>1
<1>6. PreviousEnd <= MaxJournalEntries * MaxSegments
  BY <1>1, <1>2, <1>3, <1>5
<1>7. Len(Logical) = PreviousEnd + Len(active)
  BY LogicalIsSequence DEF ChainInv
<1> HIDE DEF c
<1> QED BY <1>1, <1>4, <1>5, <1>6, <1>7

LEMMA StoreInit == Init => Store!Init
<1> SUFFICES ASSUME Init PROVE Store!Init
  OBVIOUS
<1>1. ChainInv /\ PreviousEnd = 0
  <2>1. ChainInv BY ChainInit
  <2>2. PreviousEnd = 0
    BY GreatestIsEnd DEF Ends, Init
  <2> QED BY <2>1, <2>2
<1>2. Logical \in Seq(Entry) /\ Len(Logical) = 0
  BY <1>1, LogicalIsSequence DEF Init, ChainInv
<1>3. Logical = <<>>
  BY <1>2
<1> QED BY <1>3 DEF Init, Store!Init

\* A mutation and a note are steps of the store, everything else is a stutter.
LEMMA StoreStep == ChainInv /\ [Next]_vars => [Store!Next]_(Store!vars)
<1> SUFFICES ASSUME ChainInv, [Next]_vars PROVE Store!Next \/ UNCHANGED <<kb, Logical>>
  BY DEF Store!vars
<1>1. ASSUME NEW req \in Requests, Mutate(req) PROVE Store!Next
  <2>1. EntryOf(req, kb, Logical) \in Entry
    BY <1>1, Mutated
  <2>2. Logical' = Append(Logical, Store!EntryOf(req, kb, Logical))
    BY <1>1, <2>1, Appending, SameDecision DEF Mutate, ChainInv
  <2>3. Len(Logical) < MaxJournalEntries * (MaxSegments + 1)
    BY <1>1, Room DEF Mutate
  <2>4. Store!Outcome(req, kb, Logical) = Outcome(req, kb, Logical)
    BY SameDecision
  <2>5. CASE Outcome(req, kb, Logical) = "change" /\ kb' = [kb EXCEPT ![req.ns] = Candidate(req, @)]
    <3>1. kb' = [kb EXCEPT ![req.ns] = Store!Candidate(req, @)]
      BY <2>5, SameEffect
    <3>2. Store!Change(req)
      BY <2>2, <2>3, <2>4, <2>5, <3>1 DEF Store!Change
    <3> QED BY <3>2 DEF Store!Next
  <2>6. CASE Outcome(req, kb, Logical) = "record" /\ UNCHANGED kb
    <3>1. Store!Record(req)
      BY <2>2, <2>3, <2>4, <2>6 DEF Store!Record
    <3> QED BY <3>1 DEF Store!Next
  <2> QED BY <1>1, <2>5, <2>6 DEF Mutate
<1>2. ASSUME NEW n \in Namespaces, Note(n) PROVE Store!Next
  <2>1. Store!NoteEntry(n, Logical) = NoteEntry(n, Logical)
    BY DEF NoteEntry, Store!NoteEntry
  <2>2. Logical' = Append(Logical, Store!NoteEntry(n, Logical))
    BY <1>2, <2>1, Noted, Appending DEF Note, ChainInv
  <2>3. Len(Logical) < MaxJournalEntries * (MaxSegments + 1)
    BY <1>2, Room DEF Note
  <2>4. Store!Note(n)
    BY <1>2, <2>2, <2>3 DEF Note, Store!Note
  <2> QED BY <2>4 DEF Store!Next
<1>3. CASE Rotate
  BY <1>3, RotateSeals, SealingInvisible DEF ChainInv
<1>4. CASE CallCompact \/ Interrupt \/ Verify \/ Repair \/ Replayed
           \/ NothingToRotate \/ Prepare \/ Publish \/ Return \/ UNCHANGED vars
  <2>1. UNCHANGED <<kb, active, segments>>
    BY <1>4 DEF CallCompact, Interrupt, Verify, Repair, Replayed, NothingToRotate, Prepare,
                Publish, Return, journalFiles, vars
  <2> QED BY <2>1, SameFiles
<1> QED BY <1>1, <1>2, <1>3, <1>4 DEF Next, Compact

\* RotationInvisible for any limits, calls and interruptions: the files of the
\* journal implement the journal of the atomic store.
THEOREM RotationRefinesStore == Spec => RotationInvisible
BY ChainAlways, StoreInit, StoreStep, PTL DEF Spec, RotationInvisible, Store!Spec

\* The journal its readers see replays to the clauses stored.
LEMMA MatchesStep ==
  ASSUME ChainInv, ReplayMatches(kb, Logical), [Next]_vars
  PROVE  ReplayMatches(kb', Logical')
<1>0. kb \in Knowledge /\ Logical \in Seq(Entry)
  BY LogicalIsSequence DEF ChainInv, FileTypes
<1>1. ASSUME NEW req \in Requests, Mutate(req) PROVE ReplayMatches(kb', Logical')
  <2>1. EntryOf(req, kb, Logical) \in Entry
    BY <1>1, Mutated
  <2>2. Logical' = Append(Logical, EntryOf(req, kb, Logical))
    BY <1>1, <2>1, Appending DEF Mutate, ChainInv
  <2>3. CASE Outcome(req, kb, Logical) = "change" /\ kb' = [kb EXCEPT ![req.ns] = Candidate(req, @)]
    BY <1>0, <2>2, <2>3, ChangeMatches
  <2>4. CASE Outcome(req, kb, Logical) = "record" /\ UNCHANGED kb
    <3>1. ~Effective(EntryOf(req, kb, Logical))
      BY <1>0, <2>4, RecordIsIneffective
    <3> QED BY <1>0, <2>1, <2>2, <2>4, <3>1, IneffectiveMatches
  <2> QED BY <1>1, <2>3, <2>4 DEF Mutate
<1>2. ASSUME NEW n \in Namespaces, Note(n) PROVE ReplayMatches(kb', Logical')
  <2>1. NoteEntry(n, Logical) \in Entry /\ ~Effective(NoteEntry(n, Logical))
    BY <1>0, NoteTypes
  <2>2. Logical' = Append(Logical, NoteEntry(n, Logical)) /\ kb' = kb
    BY <1>2, <2>1, Noted, Appending DEF Note, ChainInv
  <2> QED BY <1>0, <2>1, <2>2, IneffectiveMatches
<1>3. CASE UNCHANGED <<kb, Logical>>
  BY <1>3
<1>4. CASE Rotate
  BY <1>3, <1>4, RotateSeals, SealingInvisible DEF ChainInv
<1>5. CASE CallCompact \/ Interrupt \/ Verify \/ Repair \/ Replayed
           \/ NothingToRotate \/ Prepare \/ Publish \/ Return \/ UNCHANGED vars
  <2>1. UNCHANGED <<kb, active, segments>>
    BY <1>5 DEF CallCompact, Interrupt, Verify, Repair, Replayed, NothingToRotate, Prepare,
                Publish, Return, journalFiles, vars
  <2> QED BY <1>3, <2>1, SameFiles
<1> QED BY <1>1, <1>2, <1>4, <1>5 DEF Next, Compact

LEMMA MatchesInit == Init => ReplayMatches(kb, Logical)
<1> SUFFICES ASSUME Init PROVE ReplayMatches(kb, Logical)
  OBVIOUS
<1>1. Logical = <<>>
  BY StoreInit DEF Store!Init
<1> QED BY <1>1, ReplayEmpty DEF Init, ReplayMatches

\* HistoryComplete for any limits, calls and interruptions: whatever rotations and
\* repairs make of the journal, replaying it gives every namespace as it is stored.
THEOREM HistoryIsComplete == Spec => []HistoryComplete
<1>1. ChainInv /\ ReplayMatches(kb, Logical) /\ [Next]_vars => ReplayMatches(kb, Logical)'
  BY MatchesStep DEF ReplayMatches
<1>2. ReplayMatches(kb, Logical) => HistoryComplete
  BY DEF ReplayMatches, HistoryComplete, Store!KnowledgeIsReplay, Replay, Store!Replay,
         After, Store!After
<1> QED BY <1>1, <1>2, MatchesInit, ChainAlways, PTL DEF Spec

\* IntegrityKept for any constraints, limits and calls that are all checked: a call is
\* refused when it would store a forbidden set of clauses, spread over namespaces as it
\* may be.
THEOREM IntegrityIsKept == Spec => []IntegrityKept
<1> DEFINE Sound == EveryCallChecked => Violations(kb, Namespaces) = {}
<1>1. Init => Sound
  BY NothingViolated DEF Init
<1>2. Sound /\ [Next]_vars => Sound'
  <2> SUFFICES ASSUME Sound, [Next]_vars, EveryCallChecked
               PROVE  Violations(kb', Namespaces) = {}
    BY DEF Violations, EveryCallChecked
  <2>1. ASSUME NEW req \in Requests, Mutate(req) PROVE Violations(kb', Namespaces) = {}
    <3>1. CASE Outcome(req, kb, Logical) = "change" /\ kb' = [kb EXCEPT ![req.ns] = Candidate(req, @)]
      <4>1. ~NoEffect(req, kb[req.ns]) /\ ~Rejected(req, kb)
        BY <3>1 DEF Outcome
      <4> QED BY <3>1, <4>1, AcceptedIsSound
    <3>2. CASE UNCHANGED kb
      BY <3>2
    <3> QED BY <2>1, <3>1, <3>2 DEF Mutate
  <2>2. CASE UNCHANGED kb
    BY <2>2
  <2> QED
    BY <2>1, <2>2
    DEF Next, Compact, vars, Note, CallCompact, Interrupt, Verify, Repair, Replayed,
        NothingToRotate, Prepare, Rotate, Publish, Return
<1>3. Sound => IntegrityKept
  BY DEF IntegrityKept, EveryCallChecked, Store!IntegrityKept, Violations, Store!Violations
<1> QED BY <1>1, <1>2, <1>3, PTL DEF Spec
-----------------------------------------------------------------------------
(* The checkpoints                                                         *)

\* The checkpoint has what every namespace held at its position of the journal.
ExactFor(c, log) ==
  /\ c.segment.last \in 0..Len(log)
  /\ \A n \in Namespaces :
       Replay(SubSeq(log, 1, c.segment.last), n) =
         IF n \in DOMAIN c.state THEN c.state[n] ELSE {}

\* All that are published, and all that may be.
AllExact ==
  /\ \A c \in checkpoints \cup known : ExactFor(c, Logical)
  /\ step \in {"rotate", "publish"} => ExactFor(draft, Logical)

\* A call that is not a dry run knows only what is published, and leaves no segment
\* without a checkpoint, but the one it is sealing.
Covering ==
  /\ step \in {"repair", "decide", "rotate", "publish"} /\ ~request.dryRun =>
       known \subseteq checkpoints
  /\ step \in {"decide", "rotate"} => Uncovered(known) = {}
  /\ step = "publish" => \A s \in Uncovered(known) : s.name = draft.segment
  /\ step = "done" /\ ~request.dryRun => Uncovered(checkpoints) = {}

\* The journal its readers see is only appended to, and not during a rotation.
LEMMA LogicalStep ==
  ASSUME ChainInv, [Next]_vars
  PROVE  \/ Logical' = Logical
         \/ /\ \E e \in Entry : Logical' = Append(Logical, e)
            /\ step = "idle"
            /\ UNCHANGED <<segments, checkpoints, step, locals>>
<1>1. ASSUME NEW req \in Requests, Mutate(req)
      PROVE  \E e \in Entry : Logical' = Append(Logical, e)
  BY <1>1, Mutated, Appending DEF Mutate, ChainInv
<1>2. ASSUME NEW n \in Namespaces, Note(n)
      PROVE  \E e \in Entry : Logical' = Append(Logical, e)
  BY <1>2, Noted, Appending DEF Note, ChainInv
<1>3. CASE Rotate
  BY <1>3, RotateSeals, SealingInvisible DEF ChainInv
<1>4. CASE UNCHANGED <<active, segments>>
  BY <1>4, SameFiles
<1> QED
  BY <1>1, <1>2, <1>3, <1>4
  DEF Next, Compact, CallCompact, Interrupt, Verify, Repair, Replayed, NothingToRotate,
      Prepare, Publish, Return, Mutate, Note, journalFiles, vars

LEMMA StaysExact ==
  ASSUME ChainInv, [Next]_vars, NEW c, ExactFor(c, Logical)
  PROVE  ExactFor(c, Logical')
<1>1. Logical \in Seq(Entry)
  BY LogicalIsSequence DEF ChainInv
<1>2. CASE Logical' = Logical
  BY <1>2
<1>3. ASSUME NEW e \in Entry, Logical' = Append(Logical, e) PROVE ExactFor(c, Logical')
  <2> DEFINE k == c.segment.last
  <2>1. k \in 0..Len(Logical) /\ k \in 0..Len(Logical')
    BY <1>1, <1>3 DEF ExactFor
  <2>2. SubSeq(Logical', 1, k) = SubSeq(Logical, 1, k)
    BY <1>1, <1>3, <2>1
  <2> QED BY <2>1, <2>2 DEF ExactFor
<1> QED BY <1>2, <1>3, LogicalStep

\* A checkpoint is exact when it is made, for whatever earlier position: a namespace
\* that has no file now had none then.
LEMMA ArtifactExact ==
  ASSUME ChainInv, NEW name, NEW id, NEW at, name.last \in 0..Len(Logical)
  PROVE  ExactFor(Artifact(name, id, at), Logical)
<1> DEFINE k == name.last
           early == SubSeq(Logical, 1, k)
           c == Artifact(name, id, at)
<1>1. Logical \in Seq(Entry) /\ Len(Logical) \in Nat /\ DOMAIN Logical = 1..Len(Logical)
  BY LogicalIsSequence DEF ChainInv
<1>2. Len(early) = k /\ Len(early) \in Nat /\ \A i \in 1..k : early[i] = Logical[i]
  BY <1>1
<1>3. c.segment = name /\ c.state = StateAt(k)
  BY DEF Artifact
<1> HIDE DEF c
<1>4. ASSUME NEW n \in Namespaces
      PROVE  Replay(early, n) = IF n \in DOMAIN c.state THEN c.state[n] ELSE {}
  <2>1. CASE n \in ExistingNamespaces
    BY <1>3, <2>1 DEF StateAt
  <2>2. CASE n \notin ExistingNamespaces
    <3>1. \A i \in 1..Len(Logical) :
            Logical[i].ns = n => Logical[i].ended = {} /\ Logical[i].added = {}
      BY <1>1, <2>2 DEF ExistingNamespaces
    <3>2. \A i \in 1..Len(early) :
            early[i].ns = n => early[i].ended = {} /\ early[i].added = {}
      BY <1>1, <1>2, <3>1
    <3> HIDE DEF early
    <3>3. Replay(early, n) = {}
      BY <1>2, <3>2, ReplayUntouched
    <3>4. n \notin DOMAIN c.state
      BY <1>3, <2>2 DEF StateAt
    <3> QED BY <3>3, <3>4
  <2> QED BY <2>1, <2>2
<1> QED BY <1>3, <1>4 DEF ExactFor, c

LEMMA SegmentWithin ==
  ASSUME ChainInv, NEW s \in segments
  PROVE  s.name.last \in 0..Len(Logical)
BY SegmentFields, EndIsGreatest, LogicalIsSequence DEF ChainInv, FileTypes

LEMMA ExactInit == Init => AllExact /\ Covering
BY DEF Init, AllExact, Covering

LEMMA ExactStep == ChainInv /\ AllExact /\ [Next]_vars => AllExact'
<1> SUFFICES ASSUME ChainInv, AllExact, [Next]_vars PROVE AllExact'
  OBVIOUS
<1> USE DEF AllExact
<1>1. \A c : ExactFor(c, Logical) => ExactFor(c, Logical')
  BY StaysExact
<1>2. ASSUME checkpoints' \subseteq checkpoints, known' \subseteq checkpoints \cup known,
             step' \in {"rotate", "publish"} =>
               step \in {"rotate", "publish"} /\ UNCHANGED draft
      PROVE  AllExact'
  BY <1>1, <1>2
<1>3. CASE Repair
  <2>1. step' \notin {"rotate", "publish"}
    BY <1>3 DEF Repair, Leave
  <2>2. ASSUME NEW s \in Uncovered(known),
               known' = known \cup {Artifact(s.name, Recovered, NoInstant)},
               checkpoints' = IF request.dryRun THEN checkpoints
                 ELSE checkpoints \cup {Artifact(s.name, Recovered, NoInstant)}
        PROVE  AllExact'
    <3>1. ExactFor(Artifact(s.name, Recovered, NoInstant), Logical)
      BY SegmentWithin, ArtifactExact DEF Uncovered
    <3> HIDE DEF ExactFor
    <3> QED BY <1>1, <2>1, <2>2, <3>1
  <2>3. CASE known' \subseteq known /\ checkpoints' = checkpoints
    BY <1>2, <2>1, <2>3
  <2> QED BY <1>3, <2>2, <2>3 DEF Repair, Leave, locals
<1>4. CASE Prepare
  <2>1. checkpoints' = checkpoints /\ known' \subseteq known
    BY <1>4 DEF Prepare, Leave, journalFiles
  <2>2. CASE step' \in {"rotate", "publish"}
    <3> DEFINE name == [first |-> PreviousEnd + 1, last |-> PreviousEnd + Len(active),
                        digest |-> active]
    <3>1. draft' = Artifact(name, request.id, request.at)
      BY <1>4, <2>2 DEF Prepare, Leave
    <3>2. name.last \in 0..Len(Logical)
      BY EndIsGreatest, LogicalIsSequence DEF ChainInv, FileTypes
    <3>3. ExactFor(draft', Logical)
      BY <3>1, <3>2, ArtifactExact
    <3> HIDE DEF ExactFor
    <3> QED BY <1>1, <2>1, <3>3
  <2>3. CASE step' \notin {"rotate", "publish"}
    BY <1>2, <2>1, <2>3
  <2> QED BY <2>2, <2>3
<1>5. CASE Publish
  BY <1>1, <1>5 DEF Publish, locals
<1>6. CASE Verify
  BY <1>2, <1>6 DEF Verify, Leave, journalFiles
<1>7. CASE Rotate
  BY <1>2, <1>7 DEF Rotate, locals
<1>8. ASSUME Replayed \/ NothingToRotate PROVE AllExact'
  BY <1>2, <1>8 DEF Replayed, NothingToRotate, Leave, journalFiles
<1>9. ASSUME CallCompact \/ Interrupt \/ Return PROVE AllExact'
  BY <1>2, <1>9 DEF CallCompact, Interrupt, Return, Leave, journalFiles
<1>10. ASSUME (\E req \in Requests : Mutate(req)) \/ (\E n \in Namespaces : Note(n))
       PROVE  AllExact'
  BY <1>2, <1>10 DEF Mutate, Note, locals
<1>11. CASE UNCHANGED vars
  BY <1>2, <1>11 DEF vars, journalFiles, locals
<1> QED BY <1>3, <1>4, <1>5, <1>6, <1>7, <1>8, <1>9, <1>10, <1>11 DEF Next, Compact

LEMMA CoveringStep == ChainInv /\ Covering /\ [Next]_vars => Covering'
<1> SUFFICES ASSUME ChainInv, Covering, [Next]_vars PROVE Covering'
  OBVIOUS
<1> USE DEF Covering, Uncovered
<1>1. CASE Verify
  BY <1>1 DEF Verify, Leave, journalFiles
<1>2. CASE Repair
  BY <1>2 DEF Repair, Leave, locals
<1>3. CASE Replayed \/ NothingToRotate
  BY <1>3 DEF Replayed, NothingToRotate, Leave, journalFiles
<1>4. CASE Prepare
  BY <1>4 DEF Prepare, Leave, journalFiles
<1>5. CASE Rotate
  BY <1>5 DEF Rotate, locals
<1>6. CASE Publish
  BY <1>6 DEF Publish, locals, ChainInv, DraftSound
<1>7. CASE UNCHANGED vars
  BY <1>7 DEF vars, journalFiles, locals
<1>8. ASSUME (\E req \in Requests : Mutate(req)) \/ (\E n \in Namespaces : Note(n))
      PROVE  Covering'
  BY <1>8 DEF Mutate, Note
<1>9. ASSUME CallCompact \/ Interrupt \/ Return PROVE Covering'
  BY <1>9 DEF CallCompact, Interrupt, Return, Leave
<1> QED BY <1>1, <1>2, <1>3, <1>4, <1>5, <1>6, <1>7, <1>8, <1>9 DEF Next, Compact

\* CheckpointsExact for any limits, calls and interruptions: a checkpoint, also one a
\* repair makes long after, has the clauses of its position, and a call that returns
\* has left every segment with one.
THEOREM CheckpointsAreExact == Spec => []CheckpointsExact
<1>1. AllExact /\ Covering => CheckpointsExact
  BY DEF AllExact, Covering, CheckpointsExact, ExactFor
<1> QED BY <1>1, ChainAlways, ExactInit, ExactStep, CoveringStep, PTL DEF Spec
-----------------------------------------------------------------------------
(* Types                                                                   *)

\* What a rotation in progress works with.
InProgress ==
  /\ step # "idle" => request \in Compactions
  /\ step \in {"rotate", "publish"} => draft \in Checkpoint
  /\ IsFiniteSet(checkpoints) /\ IsFiniteSet(known)

LEMMA CompactionFields ==
  ASSUME NEW r \in Compactions
  PROVE  /\ r.id \in CheckpointIds \cup {Implicit}
         /\ r.at \in Instants \cup {NoInstant}
BY RotationAssumption DEF Compaction

LEMMA ArtifactTypes ==
  ASSUME ChainInv, NEW name \in Name, name.last \in 0..Len(Logical),
         NEW id \in CheckpointIds \cup {Implicit, Recovered},
         NEW at \in Instants \cup {NoInstant}
  PROVE  Artifact(name, id, at) \in Checkpoint
<1>1. Logical \in Seq(Entry) /\ DOMAIN Logical = 1..Len(Logical)
  BY LogicalIsSequence DEF ChainInv
<1>2. \A i \in DOMAIN Logical : Logical[i] \in Entry
  BY <1>1
<1>3. ExistingNamespaces \in SUBSET Namespaces
  BY <1>2 DEF ExistingNamespaces, Entry
<1>4. SubSeq(Logical, 1, name.last) \in Seq(Entry)
  BY <1>1
<1>5. \A n : Replay(SubSeq(Logical, 1, name.last), n) \in SUBSET Clauses
  BY <1>4, ReplayTypes
<1>6. StateAt(name.last) \in [ExistingNamespaces -> SUBSET Clauses]
  BY <1>5 DEF StateAt
<1>7. StateAt(name.last) \in States
  BY <1>3, <1>6 DEF States
<1> QED BY <1>7 DEF Artifact, Checkpoint

LEMMA TypesInit == Init => TypeOK /\ InProgress
<1> SUFFICES ASSUME Init PROVE TypeOK /\ InProgress
  OBVIOUS
<1>1. ChainInv
  BY ChainInit
<1> QED
  BY <1>1, FS_EmptySet, RotationAssumption
  DEF Init, TypeOK, InProgress, ChainInv, FileTypes, Limits

LEMMA TypesStep == ChainInv /\ TypeOK /\ InProgress /\ [Next]_vars => TypeOK' /\ InProgress'
<1> SUFFICES ASSUME ChainInv, TypeOK, InProgress, [Next]_vars PROVE TypeOK' /\ InProgress'
  OBVIOUS
<1>1. ChainInv'
  BY ChainStep
<1>2. /\ (kb \in Knowledge)' /\ (active \in Seq(Entry))' /\ (segments \in SUBSET Segment)'
      /\ (Len(active) <= MaxJournalEntries)' /\ (Cardinality(segments) <= MaxSegments)'
  BY <1>1 DEF ChainInv, FileTypes, Limits
<1>3. /\ PreviousEnd \in Nat /\ Len(active) \in Nat /\ Len(Logical) = PreviousEnd + Len(active)
      /\ active \in Seq(Entry) /\ Cardinality(segments) \in Nat
  BY EndIsGreatest, LogicalIsSequence, FS_CardinalityType DEF ChainInv, FileTypes, Limits
<1> USE DEF TypeOK, InProgress
<1>4. ASSUME NEW req \in Requests, Mutate(req) PROVE TypeOK' /\ InProgress'
  BY <1>2, <1>4 DEF Mutate, locals
<1>5. ASSUME NEW n \in Namespaces, Note(n) PROVE TypeOK' /\ InProgress'
  BY <1>2, <1>5 DEF Note, locals
<1>6. CASE CallCompact
  BY <1>2, <1>6 DEF CallCompact, journalFiles
<1>7. CASE Interrupt
  BY <1>2, <1>7, FS_EmptySet, RotationAssumption DEF Interrupt, Leave, journalFiles
<1>8. CASE Return
  BY <1>2, <1>8, FS_EmptySet DEF Return, Leave, journalFiles
<1>9. CASE Verify
  BY <1>2, <1>9, FS_EmptySet DEF Verify, Leave, journalFiles
<1>10. CASE Repair
  <2>1. ASSUME NEW s \in Uncovered(known)
        PROVE  Artifact(s.name, Recovered, NoInstant) \in Checkpoint
    <3>1. s \in segments /\ s.name \in Name /\ s.name.last \in 0..Len(Logical)
      BY SegmentWithin DEF Uncovered, Segment
    <3> QED BY <3>1, ArtifactTypes
  <2>2. \A x : IsFiniteSet(checkpoints \cup {x}) /\ IsFiniteSet(known \cup {x})
    BY FS_AddElement
  <2> QED BY <1>2, <1>10, <2>1, <2>2, FS_EmptySet DEF Repair, Leave, locals
<1>11. CASE Replayed
  <2>1. \A k : Cardinality({c \in known : c.segment.last <= k}) \in Nat
    <3> TAKE k
    <3>1. {c \in known : c.segment.last <= k} \in SUBSET known
      OBVIOUS
    <3> QED BY <3>1, FS_Subset, FS_CardinalityType
  <2>2. \A c \in known : c.segment.last \in Nat
    BY DEF Checkpoint, Name
  <2>3. (answer \in Answer \cup {Absent})'
    <3> DEFINE count(k) == Cardinality({c \in known : c.segment.last <= k})
    <3>1. PICK prior \in Priors :
            \/ answer' = [rotated |-> TRUE, sequence |-> prior.segment.last,
                          segmentCount |-> count(prior.segment.last)]
            \/ answer' = Absent
      BY <1>11 DEF Replayed, Leave
    <3>2. prior.segment.last \in Nat
      BY <2>2 DEF Priors
    <3>3. \A k : count(k) \in Nat
      BY <2>1
    <3> DEFINE n == count(prior.segment.last)
    <3>4. n \in Nat
      BY <3>3
    <3> HIDE DEF n
    <3>5. [rotated |-> TRUE, sequence |-> prior.segment.last, segmentCount |-> n] \in Answer
      BY <3>2, <3>4 DEF Answer
    <3> QED BY <3>1, <3>5 DEF n
  <2> QED BY <1>2, <1>11, <2>3, FS_EmptySet DEF Replayed, Leave, journalFiles
<1>12. CASE NothingToRotate
  BY <1>2, <1>3, <1>12 DEF NothingToRotate, Answer, journalFiles
<1>13. CASE Prepare
  <2> DEFINE name == [first |-> PreviousEnd + 1, last |-> PreviousEnd + Len(active),
                      digest |-> active]
  <2>1. name \in Name /\ name.last \in 0..Len(Logical)
    BY <1>3 DEF Name
  <2>2. request \in Compactions
    BY <1>13 DEF Prepare
  <2>3. Artifact(name, request.id, request.at) \in Checkpoint
    BY <2>1, <2>2, CompactionFields, ArtifactTypes
  <2>4. [rotated |-> TRUE, sequence |-> name.last,
         segmentCount |-> Cardinality(segments) + 1] \in Answer
    BY <1>3 DEF Answer
  <2> QED BY <1>2, <1>13, <2>3, <2>4, FS_EmptySet DEF Prepare, Leave, journalFiles
<1>14. CASE Rotate
  <2>1. request.id \in CheckpointIds \cup {Implicit}
    BY <1>14, CompactionFields, RotationAssumption DEF Rotate
  <2>2. draft.segment.last \in Nat
    BY <1>14 DEF Rotate, Checkpoint, Name
  <2> QED BY <1>2, <1>14, <2>1, <2>2 DEF Rotate, locals
<1>15. CASE Publish
  BY <1>2, <1>15, FS_AddElement DEF Publish, locals
<1>16. CASE UNCHANGED vars
  BY <1>2, <1>16 DEF vars, locals, journalFiles
<1> QED
  BY <1>4, <1>5, <1>6, <1>7, <1>8, <1>9, <1>10, <1>11, <1>12, <1>13, <1>14, <1>15, <1>16
  DEF Next, Compact

LEMMA TypesAlways == Spec => [](TypeOK /\ InProgress)
BY ChainAlways, TypesInit, TypesStep, PTL DEF Spec

\* Every checkpoint that is read, recovered, drafted or published has its type, and no
\* file outgrows its limit.
THEOREM RotationTypes == Spec => []TypeOK
BY TypesAlways, PTL
-----------------------------------------------------------------------------
(* Retries                                                                 *)

SegmentOf(c) == \E s \in segments : s.name = c.segment

UpTo(some, k) == {s \in some : s.name.last <= k}

\* Each end of a segment is remembered.
Sealed == DOMAIN sealedBy = {s.name.last : s \in segments}

\* A checkpoint belongs to a segment, which has no other, and has the id its segment
\* was sealed under unless a repair wrote it.
Matched ==
  /\ \A c \in checkpoints :
       SegmentOf(c) /\ c.id \in {Recovered, sealedBy[c.segment.last]}
  /\ \A c, d \in checkpoints : c.segment = d.segment => c = d

\* An id of a caller has one checkpoint, and of the segments sealed under it all but
\* the last were left to a repair.
Attributed ==
  /\ \A c, d \in checkpoints : c.id \in CheckpointIds /\ c.id = d.id => c = d
  /\ \A j, k \in DOMAIN sealedBy :
       j < k /\ sealedBy[j] \in CheckpointIds /\ sealedBy[j] = sealedBy[k] =>
         \E c \in checkpoints : c.segment.last = j /\ c.id = Recovered

\* What a call knows of the checkpoints, and what it is going to answer.
Answering ==
  /\ step \in {"repair", "decide", "rotate"} => checkpoints \subseteq known
  /\ step \in {"rotate", "publish"} =>
       /\ request.id # Implicit => \A c \in checkpoints : c.id # request.id
       /\ draft.id = request.id
       /\ answer.sequence = draft.segment.last
  /\ step = "rotate" => answer.segmentCount = Cardinality(segments) + 1
  /\ step = "publish" =>
       /\ SegmentOf(draft)
       /\ \A c \in checkpoints : c.segment # draft.segment
       /\ sealedBy[draft.segment.last] = request.id
       /\ draft.segment.last = PreviousEnd
       /\ answer.segmentCount = Cardinality(segments)
  /\ step = "done" /\ ~request.dryRun /\ answer.rotated =>
       /\ answer.sequence \in DOMAIN sealedBy
       /\ sealedBy[answer.sequence] = request.id
       /\ answer.segmentCount = Cardinality(UpTo(segments, answer.sequence))
       /\ \E c \in checkpoints : c.segment.last = answer.sequence /\ c.id = request.id

RetryInv == Sealed /\ Matched /\ Attributed /\ Answering

LEMMA OneLast ==
  ASSUME ChainInv, NEW s \in segments, NEW t \in segments, s.name.last = t.name.last
  PROVE  s = t
<1>1. /\ s.name.last \in Nat /\ s.name.last \in s.name.first..s.name.last
      /\ s.name.last \in t.name.first..t.name.last
  BY SegmentFields DEF ChainInv
<1> QED BY <1>1 DEF ChainInv, Tiled

\* When none is missing, there are as many checkpoints as segments up to any position.
LEMMA CheckpointCount ==
  ASSUME ChainInv, Matched, Uncovered(checkpoints) = {}, NEW k
  PROVE  Cardinality({c \in checkpoints : c.segment.last <= k}) = Cardinality(UpTo(segments, k))
<1> DEFINE S == UpTo(segments, k)
           T == {c \in checkpoints : c.segment.last <= k}
           f == [s \in S |-> CHOOSE c \in checkpoints : c.segment = s.name]
<1>1. \A s \in S : s \in segments /\ s.name.last <= k
  BY DEF UpTo
<1>2. \A s \in S : f[s] \in checkpoints /\ f[s].segment = s.name
  BY <1>1 DEF Uncovered
<1>3. f \in [S -> T]
  BY <1>1, <1>2
<1>4. ASSUME NEW s \in S, NEW t \in S, f[s] = f[t] PROVE s = t
  <2>1. s.name.last = t.name.last
    BY <1>2, <1>4
  <2> QED BY <1>1, <2>1, OneLast
<1>5. ASSUME NEW c \in T PROVE \E s \in S : f[s] = c
  <2>1. PICK s \in segments : s.name = c.segment
    BY DEF Matched, SegmentOf
  <2>2. s \in S
    BY <2>1 DEF UpTo
  <2>3. f[s] \in checkpoints /\ f[s].segment = c.segment
    BY <1>2, <2>1, <2>2
  <2> QED BY <2>2, <2>3 DEF Matched
<1>6. S \in SUBSET segments
  BY DEF UpTo
<1>7. IsFiniteSet(S)
  BY <1>6, FS_Subset DEF ChainInv, Limits
<1> HIDE DEF S, T, f
<1>8. f \in Bijection(S, T)
  BY <1>3, <1>4, <1>5, Fun_IsBij
<1>9. ExistsBijection(S, T)
  BY <1>8 DEF ExistsBijection
<1>10. Cardinality(T) = Cardinality(S)
  BY <1>7, <1>9, FS_Bijection
<1> QED BY <1>10 DEF S, T

LEMMA RetryInit == Init => RetryInv
BY DEF Init, RetryInv, Sealed, Matched, Attributed, Answering

\* A step that changes neither segments nor checkpoints.
LEMMA RetryKept ==
  ASSUME RetryInv, UNCHANGED <<segments, checkpoints, sealedBy>>, Answering'
  PROVE  RetryInv'
<1>1. Sealed'
  BY DEF RetryInv, Sealed
<1>2. Matched'
  BY DEF RetryInv, Matched, SegmentOf
<1>3. Attributed'
  BY DEF RetryInv, Attributed
<1> QED BY <1>1, <1>2, <1>3 DEF RetryInv

\* The segment of a checkpoint is among those remembered.
LEMMA CheckpointSealed ==
  ASSUME Sealed, Matched, NEW c \in checkpoints
  PROVE  SegmentOf(c) /\ c.segment.last \in DOMAIN sealedBy
BY DEF Sealed, Matched, SegmentOf

\* The new segment ends behind all others; those sealed under its id before were left
\* to a repair, for otherwise the call would have found a checkpoint of that id.
LEMMA RetryRotate ==
  ASSUME ChainInv, TypeOK, Covering, RetryInv, Rotate
  PROVE  RetryInv'
<1> DEFINE k == draft.segment.last
           new == [name |-> draft.segment, entries |-> active]
<1>1. /\ segments' = segments \cup {new}
      /\ sealedBy' = [j \in DOMAIN sealedBy \cup {k} |-> IF j = k THEN request.id ELSE sealedBy[j]]
      /\ step' = "publish" /\ step = "rotate"
      /\ UNCHANGED <<checkpoints, request, known, draft, answer, failures>>
  BY DEF Rotate, locals
<1>2. Sealing /\ PreviousEnd' = PreviousEnd + Len(active)
  BY RotateSeals, SealingEnds DEF ChainInv
<1>3. /\ PreviousEnd \in Nat /\ Len(active) \in Nat \ {0}
      /\ \A s \in segments : s.name.last \in Nat /\ s.name.last <= PreviousEnd
  BY <1>2, EndIsGreatest, SegmentFields DEF ChainInv, FileTypes, Sealing
<1>4. k = PreviousEnd + Len(active)
  BY <1>1 DEF ChainInv, DraftSound
<1>5. /\ \A j \in DOMAIN sealedBy : j \in Nat /\ j < k
      /\ \A s \in segments : s.name.last # k
  BY <1>3, <1>4 DEF RetryInv, Sealed
<1>6. new.name = draft.segment /\ new \in segments' /\ new \notin segments
  BY <1>1, <1>5
<1>7. \A c \in checkpoints : SegmentOf(c) /\ c.segment.last \in DOMAIN sealedBy
  BY CheckpointSealed DEF RetryInv
<1>8. ~request.dryRun /\ known = checkpoints /\ Uncovered(checkpoints) = {}
  BY <1>1 DEF ChainInv, DraftSound, Covering, RetryInv, Answering
<1> HIDE DEF k
<1>9. Sealed'
  BY <1>1, <1>6 DEF RetryInv, Sealed, k
<1>10. Matched'
  BY <1>1, <1>5, <1>7 DEF RetryInv, Matched, SegmentOf
<1>11. Attributed'
  <2>1. ASSUME NEW j \in DOMAIN sealedBy, sealedBy[j] \in CheckpointIds, sealedBy[j] = request.id
        PROVE  \E c \in checkpoints : c.segment.last = j /\ c.id = Recovered
    <3>1. PICK s \in segments : s.name.last = j
      BY DEF RetryInv, Sealed
    <3>2. PICK c \in checkpoints : c.segment = s.name
      BY <1>8 DEF Uncovered
    <3>3. request.id # Implicit
      BY <2>1, RotationAssumption
    <3>4. c.id # request.id /\ c.id \in {Recovered, sealedBy[j]}
      BY <1>1, <3>1, <3>2, <3>3 DEF RetryInv, Answering, Matched
    <3> QED BY <2>1, <3>1, <3>2, <3>4
  <2>2. ASSUME NEW i \in DOMAIN sealedBy', NEW j \in DOMAIN sealedBy', i < j,
               sealedBy'[i] \in CheckpointIds, sealedBy'[i] = sealedBy'[j]
        PROVE  \E c \in checkpoints : c.segment.last = i /\ c.id = Recovered
    <3>1. k \in Nat
      BY <1>3, <1>4
    <3>2. i \in DOMAIN sealedBy /\ i # k
      BY <1>1, <1>5, <2>2, <3>1
    <3>3. sealedBy'[i] = sealedBy[i]
      BY <1>1, <3>2
    <3>4. CASE j = k
      BY <1>1, <2>1, <2>2, <3>2, <3>3, <3>4
    <3>5. CASE j # k
      <4>1. j \in DOMAIN sealedBy /\ sealedBy'[j] = sealedBy[j]
        BY <1>1, <3>5
      <4> QED BY <2>2, <3>2, <3>3, <4>1 DEF RetryInv, Attributed
    <3> QED BY <3>4, <3>5
  <2> QED BY <1>1, <2>2 DEF RetryInv, Attributed
<1>12. Cardinality(segments') = Cardinality(segments) + 1
  BY <1>1, <1>6, FS_AddElement DEF ChainInv, Limits
<1>13. SegmentOf(draft)'
  BY <1>1, <1>6 DEF SegmentOf
<1>14. \A c \in checkpoints' : c.segment # draft'.segment
  BY <1>1, <1>5, <1>7 DEF SegmentOf, k
<1>15. Answering'
  BY <1>1, <1>2, <1>4, <1>12, <1>13, <1>14 DEF RetryInv, Answering, k
<1> QED BY <1>9, <1>10, <1>11, <1>15 DEF RetryInv

\* The checkpoint of the segment just sealed is the one that was missing.
LEMMA RetryPublish ==
  ASSUME ChainInv, TypeOK, RetryInv, Publish
  PROVE  RetryInv'
<1>1. /\ checkpoints' = checkpoints \cup {draft} /\ step' = "done" /\ step = "publish"
      /\ UNCHANGED <<segments, sealedBy, request, known, draft, answer, failures>>
  BY DEF Publish, locals
<1>2. /\ draft.id = request.id /\ SegmentOf(draft)
      /\ request.id # Implicit => \A c \in checkpoints : c.id # request.id
      /\ \A c \in checkpoints : c.segment # draft.segment
      /\ sealedBy[draft.segment.last] = request.id
      /\ draft.segment.last = PreviousEnd
      /\ answer.sequence = draft.segment.last
      /\ answer.segmentCount = Cardinality(segments)
  BY <1>1 DEF RetryInv, Answering
<1>3. Sealed'
  BY <1>1 DEF RetryInv, Sealed
<1>4. Matched'
  BY <1>1, <1>2 DEF RetryInv, Matched, SegmentOf
<1>5. Attributed'
  BY <1>1, <1>2, RotationAssumption DEF RetryInv, Attributed
<1>6. UpTo(segments, PreviousEnd) = segments
  BY EndIsGreatest DEF ChainInv, UpTo
<1>7. PreviousEnd \in DOMAIN sealedBy
  BY <1>2 DEF RetryInv, Sealed, SegmentOf
<1>8. Answering'
  BY <1>1, <1>2, <1>6, <1>7 DEF Answering
<1> QED BY <1>3, <1>4, <1>5, <1>8 DEF RetryInv

\* A retry is answered from the one checkpoint of its id.
LEMMA RetryReplayed ==
  ASSUME ChainInv, InProgress, Covering, RetryInv, Replayed
  PROVE  RetryInv'
<1>1. step = "decide" /\ UNCHANGED <<segments, checkpoints, sealedBy>>
  BY DEF Replayed, journalFiles
<1>2. PICK prior \in Priors :
        \/ /\ answer' = [rotated |-> TRUE, sequence |-> prior.segment.last,
                         segmentCount |-> Cardinality({c \in known :
                           c.segment.last <= prior.segment.last})]
           /\ step' = "done" /\ request' = request
        \/ step' = "idle"
  BY DEF Replayed, Leave
<1>3. ASSUME step' = "done", ~request.dryRun
      PROVE  /\ prior.segment.last \in DOMAIN sealedBy
             /\ sealedBy[prior.segment.last] = request.id
             /\ prior \in checkpoints /\ prior.id = request.id
             /\ Cardinality({c \in known : c.segment.last <= prior.segment.last})
                  = Cardinality(UpTo(segments, prior.segment.last))
  <2>1. known = checkpoints /\ Uncovered(checkpoints) = {}
    BY <1>1, <1>3 DEF Covering, RetryInv, Answering
  <2>2. prior \in checkpoints /\ prior.id = request.id /\ request.id # Implicit
    BY <2>1 DEF Priors
  <2>3. request.id # Recovered
    BY <1>1, <2>2, CompactionFields, RotationAssumption DEF InProgress
  <2>4. prior.segment.last \in DOMAIN sealedBy /\ sealedBy[prior.segment.last] = request.id
    BY <2>2, <2>3, CheckpointSealed DEF RetryInv, Matched
  <2> QED BY <2>1, <2>2, <2>4, CheckpointCount DEF RetryInv
<1>4. Answering'
  BY <1>1, <1>2, <1>3 DEF Answering
<1> QED BY <1>1, <1>4, RetryKept

LEMMA RetryPrepare ==
  ASSUME ChainInv, TypeOK, Covering, RetryInv, Prepare
  PROVE  RetryInv'
<1> DEFINE name == [first |-> PreviousEnd + 1, last |-> PreviousEnd + Len(active),
                    digest |-> active]
<1>1. /\ step = "decide" /\ checkpoints \subseteq known /\ Priors = {}
      /\ UNCHANGED <<segments, checkpoints, sealedBy>>
  BY DEF Prepare, RetryInv, Answering, journalFiles
<1>2. CASE step' = "rotate"
  <2>1. /\ draft' = Artifact(name, request.id, request.at)
        /\ answer' = [rotated |-> TRUE, sequence |-> name.last,
                      segmentCount |-> Cardinality(segments) + 1]
        /\ UNCHANGED <<request, known>>
    BY <1>2 DEF Prepare, Leave
  <2>2. draft'.id = request.id /\ draft'.segment = name
    BY <2>1 DEF Artifact
  <2>3. request.id # Implicit => \A c \in checkpoints : c.id # request.id
    BY <1>1 DEF Priors
  <2>4. Answering'
    BY <1>1, <1>2, <2>1, <2>2, <2>3 DEF Answering
  <2> QED BY <1>1, <2>4, RetryKept
<1>3. CASE step' = "done"
  <2>1. UNCHANGED <<request, known>> /\ request.dryRun
    BY <1>3 DEF Prepare, Leave
  <2>2. Answering'
    BY <1>3, <2>1 DEF Answering
  <2> QED BY <1>1, <2>2, RetryKept
<1>4. CASE step' = "idle"
  <2>1. Answering'
    BY <1>4 DEF Answering
  <2> QED BY <1>1, <2>1, RetryKept
<1> QED BY <1>2, <1>3, <1>4 DEF Prepare, Leave

\* A checkpoint that is repaired has an id no caller supplies.
LEMMA RetryRepair ==
  ASSUME ChainInv, TypeOK, Covering, RetryInv, Repair
  PROVE  RetryInv'
<1>1. step = "repair" /\ checkpoints \subseteq known
  BY DEF Repair, RetryInv, Answering
<1>2. UNCHANGED <<segments, sealedBy>>
  BY DEF Repair
<1>3. CASE UNCHANGED checkpoints
  <2>1. \/ step' = "idle"
        \/ step' = "decide" /\ known' = known
        \/ step' = "repair" /\ known \subseteq known'
    <3>1. CASE step' = "decide" /\ UNCHANGED locals
      BY <3>1 DEF locals
    <3>2. CASE step' = step /\ \E s \in Uncovered(known) :
                 known' = known \cup {Artifact(s.name, Recovered, NoInstant)}
      BY <1>1, <3>2
    <3>3. Leave => step' = "idle"
      BY DEF Leave
    <3>4. \/ step' = "decide" /\ UNCHANGED locals
          \/ step' = step /\ \E s \in Uncovered(known) :
               known' = known \cup {Artifact(s.name, Recovered, NoInstant)}
          \/ Leave
      BY Zenon DEF Repair
    <3> QED BY <3>1, <3>2, <3>3, <3>4
  <2>2. Answering'
    BY <1>1, <1>3, <2>1 DEF Answering
  <2> QED BY <1>2, <1>3, <2>2, RetryKept
<1>4. ASSUME NEW s \in Uncovered(known),
             checkpoints' = checkpoints \cup {Artifact(s.name, Recovered, NoInstant)},
             known' = known \cup {Artifact(s.name, Recovered, NoInstant)}, step' = step
      PROVE  RetryInv'
  <2> DEFINE recovered == Artifact(s.name, Recovered, NoInstant)
  <2>1. recovered.segment = s.name /\ recovered.id = Recovered
    BY DEF Artifact
  <2>2. s \in segments /\ \A c \in checkpoints : c.segment # s.name
    BY <1>1 DEF Uncovered
  <2>3. checkpoints' = checkpoints \cup {recovered} /\ known' = known \cup {recovered}
    BY <1>4
  <2> HIDE DEF recovered
  <2>4. Sealed'
    BY <1>2 DEF RetryInv, Sealed
  <2>5. Matched'
    BY <1>2, <2>1, <2>2, <2>3 DEF RetryInv, Matched, SegmentOf
  <2>6. Attributed'
    BY <1>2, <2>1, <2>3, RotationAssumption DEF RetryInv, Attributed
  <2>7. Answering'
    BY <1>1, <1>4, <2>3 DEF Answering
  <2> QED BY <2>4, <2>5, <2>6, <2>7 DEF RetryInv
<1> QED BY <1>3, <1>4 DEF Repair

LEMMA RetryStep ==
  ASSUME ChainInv, TypeOK, InProgress, Covering, RetryInv, [Next]_vars
  PROVE  RetryInv'
<1>1. ASSUME (\E req \in Requests : Mutate(req)) \/ (\E n \in Namespaces : Note(n))
      PROVE  RetryInv'
  <2>1. step' = "idle" /\ step = "idle" /\ UNCHANGED <<segments, checkpoints, sealedBy>>
    BY <1>1 DEF Mutate, Note
  <2>2. Answering'
    BY <2>1 DEF Answering
  <2> QED BY <2>1, <2>2, RetryKept
<1>2. CASE CallCompact
  <2>1. Answering'
    BY <1>2 DEF CallCompact, Answering
  <2> QED BY <1>2, <2>1, RetryKept DEF CallCompact, journalFiles
<1>3. CASE Interrupt
  <2>1. Answering'
    BY <1>3 DEF Interrupt, Leave, Answering
  <2> QED BY <1>3, <2>1, RetryKept DEF Interrupt, journalFiles
<1>4. CASE Return
  <2>1. Answering'
    BY <1>4 DEF Return, Leave, Answering
  <2> QED BY <1>4, <2>1, RetryKept DEF Return, journalFiles
<1>5. CASE Verify
  <2>1. Answering'
    BY <1>5 DEF Verify, Leave, Answering, journalFiles
  <2> QED BY <1>5, <2>1, RetryKept DEF Verify, journalFiles
<1>6. CASE NothingToRotate
  <2>1. answer'.rotated = FALSE /\ step' = "done"
    BY <1>6 DEF NothingToRotate
  <2>2. Answering'
    BY <2>1 DEF Answering
  <2> QED BY <1>6, <2>2, RetryKept DEF NothingToRotate, journalFiles
<1>7. CASE UNCHANGED vars
  <2>1. UNCHANGED <<active, segments, checkpoints, step, request, known, draft, answer,
                    failures, sealedBy>>
    BY <1>7 DEF vars, journalFiles, locals
  <2>2. PreviousEnd' = PreviousEnd
    BY <2>1, SameFiles
  <2>3. Answering'
    BY <2>1, <2>2 DEF RetryInv, Answering, SegmentOf
  <2> QED BY <2>1, <2>3, RetryKept
<1> QED
  BY <1>1, <1>2, <1>3, <1>4, <1>5, <1>6, <1>7, RetryRepair, RetryReplayed, RetryPrepare,
     RetryRotate, RetryPublish
  DEF Next, Compact

\* RotationsAnswered for any limits, calls and interruptions: however often rotations
\* are cut off and retried, an id of a caller has one checkpoint, it seals again only
\* what a repair has taken the id from, and everybody who is told of a rotation finds
\* the checkpoint of his id.
THEOREM RetriesAreAnswered == Spec => []RotationsAnswered
<1>1. ChainInv /\ TypeOK /\ InProgress /\ Covering /\ RetryInv /\ [Next]_vars => RetryInv'
  BY RetryStep
<1>2. RetryInv => RotationsAnswered
  BY DEF RetryInv, Attributed, Answering, RotationsAnswered, UpTo
<1>3. Init => Covering
  BY ExactInit
<1>4. ChainInv /\ Covering /\ [Next]_vars => Covering'
  BY CoveringStep
<1> QED BY <1>1, <1>2, <1>3, <1>4, RetryInit, ChainAlways, TypesAlways, PTL DEF Spec
=============================================================================
