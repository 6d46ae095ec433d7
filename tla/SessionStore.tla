---------------------------- MODULE SessionStore ----------------------------
(***************************************************************************)
(* The conversations of src/sessions/store.ts in one namespace: a file of  *)
(* lines per session, the quarantined copies of unreadable files and the   *)
(* namespace's index.  Stop hooks (src/autocapture/capture.ts) hand over   *)
(* a tail of a transcript, imports a whole one; users forget sessions.     *)
(* Writers hold the namespace's lock, which is assumed to exclude: FileLock *)
(* shows what the code's lock does.  Choosing the turns, listing and       *)
(* reading hold none.  A writer may be killed or fail at any system call,  *)
(* and an append cut off leaves any prefix of its text.                    *)
(*                                                                         *)
(* A turn is its position in the transcript of its session, where turns    *)
(* may stand out of the order of their times.  An entry of the index       *)
(* stands for what is derived from the header and the turns it was written *)
(* for: their number, their last time and their windows.                   *)
(***************************************************************************)
EXTENDS Integers, Sequences, FiniteSets, SequencesExt

CONSTANTS
  Procs,          \* hooks, imports and the processes that forget
  Keys,           \* session keys, in their order
  Transcript,     \* key -> what is said there: [user, text, time, size]
  Beginning,      \* key -> how many turns precede the first call
  Captured,       \* the keys a stop hook writes; the others are imported
  CapBytes,       \* REMBERO_SESSION_CAP_BYTES
  Budget,         \* transcriptWindowBytes: what a hook hands over
  WindowTurns, WindowGap, WindowBytes,  \* the limits of a window
  MaxFailures,    \* bound: writers killed or failing in a behaviour
  MaxDamages,     \* bound: captured sessions' headers made unreadable from outside
  MaxForgets,     \* bound: calls that forget
  MaxTroubles,    \* bound: failures, damages and calls that forget together
  NoFile, NoIndex, Free

ASSUME SessionAssumption ==
  /\ Keys \subseteq Nat /\ Keys # {}
  /\ IsFiniteSet(Keys)
  /\ Captured \subseteq Keys
  /\ \A k \in Keys : Transcript[k] \in
       Seq([user : BOOLEAN, text : STRING, time : Nat, size : Nat]) \ {<<>>}
  /\ Beginning \in [Keys -> Nat]
  /\ \A k \in Keys : Beginning[k] \in 1..Len(Transcript[k])
  /\ {CapBytes, Budget, WindowTurns, WindowGap, WindowBytes, MaxFailures, MaxDamages,
      MaxForgets, MaxTroubles} \subseteq Nat
  /\ WindowTurns > 0
  /\ Free \notin Procs
  /\ NoFile \notin [start : Nat, lines : Seq(Int), ended : BOOLEAN]
  /\ \A S \in SUBSET Keys : NoIndex \notin [S -> [start : Nat, turns : Seq(Nat), bytes : Nat]]

VARIABLES
  said,      \* key -> how many turns of its transcript exist
  file,      \* key -> its header's startedAt, its lines, whether the last one ends
  copies,    \* key -> the quarantined files
  index,     \* index.json
  lock,      \* who holds the namespace's lock
  pc,        \* process -> its next step
  job,       \* process -> the call it is in
  failures, damages, forgets,
  stale      \* history: the keys whose last write did not reach the index

disk == <<file, copies, index>>
calls == <<lock, pc, job>>
bounds == <<failures, damages, forgets>>
vars == <<said, disk, calls, bounds, stale>>

Header == 0
Torn == -1

Steps == {"idle", "waiting", "inspect", "append", "evict",
          "evictCopies", "index", "forgetCopies", "forgetFile", "forgetIndex",
          "clear", "release"}

Idle == [call |-> "none", key |-> CHOOSE k \in Keys : TRUE, start |-> 0, turns |-> <<>>,
         entries |-> <<>>, victims |-> {}]

Untroubled == failures + damages + forgets < MaxTroubles

-----------------------------------------------------------------------------
(* What a file holds.                                                        *)

Exists(k) == file[k] # NoFile
Lines(k) == IF Exists(k) THEN file[k].lines ELSE <<>>

\* inspectSessionFile: a file without lines is as good as absent.
Readable(k) == Lines(k) # <<>> /\ Head(Lines(k)) = Header
Unreadable(k) == Lines(k) # <<>> /\ Head(Lines(k)) # Header

\* The members of s that are in S, in their order.
Picked(s, S) ==
  LET picked[n \in 0..Len(s)] ==
        IF n = 0 THEN <<>>
        ELSE IF s[n] \in S THEN Append(picked[n - 1], s[n]) ELSE picked[n - 1]
  IN picked[Len(s)]

\* Lines that are not turns are ignored.
TurnsIn(lines) == Picked(lines, Nat \ {Header})
Stored(k) == IF Readable(k) THEN TurnsIn(Lines(k)) ELSE <<>>

Text(k, t) == Transcript[k][t].text
Time(k, t) == Transcript[k][t].time
Texts(k, turns) == {Text(k, t) : t \in ToSet(turns)}

\* byStartedAt
Older(entries, k, l) == \/ entries[k].start < entries[l].start
                        \/ entries[k].start = entries[l].start /\ k < l

\* The turn opens a new window after window w.
OpensWindow(k, w, t) ==
  \/ Len(w) >= WindowTurns
  \/ Time(k, t) - Time(k, Last(w)) \notin (-WindowGap)..WindowGap
  \/ FoldLeft(LAMBDA sum, s : sum + Transcript[k][s].size, 0, w)
       + Transcript[k][t].size > WindowBytes

\* Mutation of WithTurn: the newest window comes first.
WithTurnNewestFirst(k, ws, t) ==
  IF ws = <<>> \/ OpensWindow(k, Head(ws), t) THEN <<<<t>>>> \o ws
  ELSE [ws EXCEPT ![1] = Append(@, t)]

\* The windows once a turn is added to them.
WithTurn(k, ws, t) ==
  IF ws = <<>> \/ OpensWindow(k, Last(ws), t) THEN Append(ws, <<t>>)
  ELSE [ws EXCEPT ![Len(ws)] = Append(@, t)]

\* windowSessionTurns
Windows(k, turns) ==
  LET after[n \in 0..Len(turns)] ==
        IF n = 0 THEN <<>> ELSE WithTurn(k, after[n - 1], turns[n])
  IN after[Len(turns)]

-----------------------------------------------------------------------------
(* The index.                                                                *)

\* entryFor, of a readable session.
Entry(k) == [start |-> file[k].start, turns |-> Stored(k), bytes |-> Len(Lines(k))]

\* readIndex: an entry without a file is left out, a missing index rebuilt.
Listing ==
  IF index = NoIndex THEN [k \in {k \in Keys : Readable(k)} |-> Entry(k)]
  ELSE [k \in {k \in DOMAIN index : Exists(k)} |-> index[k]]

\* The bytes of the entries, each counted by its number in its session.
Total(entries) ==
  Cardinality(UNION {{k} \X (1..entries[k].bytes) : k \in DOMAIN entries})

Without(entries, keys) == [k \in DOMAIN entries \ keys |-> entries[k]]
Fits(entries) == Total(entries) <= CapBytes

\* Mutation of Victims: the session just written is not counted.
VictimsBeforeAppend(entries, own) ==
  LET others == DOMAIN entries \ {own} IN
  {k \in others : ~Fits(Without(entries, {own} \cup {l \in others : Older(entries, l, k)}))}

\* The sessions dropped to fit the cap: never the one just written, and of the others
\* each that is still too much when the older ones are gone.
Victims(entries, own) ==
  LET others == DOMAIN entries \ {own} IN
  {k \in others : ~Fits(Without(entries, {l \in others : Older(entries, l, k)}))}

\* They are dropped one by one, the oldest first.
Oldest(entries, keys) == CHOOSE k \in keys : \A l \in keys \ {k} : Older(entries, k, l)

\* The time of the last turn an entry knows.
LastTime(k, entries) ==
  IF k \notin DOMAIN entries THEN 0
  ELSE IF entries[k].turns = <<>> THEN entries[k].start
  ELSE Time(k, Last(entries[k].turns))

\* The time below which a hook drops turns.
Floor(k) == LastTime(k, Listing)

Init ==
  /\ said = Beginning
  /\ file = [k \in Keys |-> NoFile]
  /\ copies = [k \in Keys |-> <<>>]
  /\ index = NoIndex
  /\ lock = Free
  /\ pc = [p \in Procs |-> "idle"]
  /\ job = [p \in Procs |-> Idle]
  /\ failures = 0 /\ damages = 0 /\ forgets = 0
  /\ stale = {}

\* The conversation goes on.
Say(k) ==
  /\ said[k] < Len(Transcript[k])
  /\ said' = [said EXCEPT ![k] = @ + 1]
  /\ UNCHANGED <<disk, calls, bounds, stale>>

-----------------------------------------------------------------------------
(* A call begins, outside the lock.                                          *)

Begin(p, call, k, start, turns) ==
  /\ pc[p] = "idle"
  /\ pc' = [pc EXCEPT ![p] = "waiting"]
  /\ job' = [job EXCEPT ![p] =
               [Idle EXCEPT !.call = call, !.key = k, !.start = start, !.turns = turns]]
  /\ UNCHANGED <<said, disk, lock, failures, damages, stale>>

\* Mutation of InTimeOrder: as the transcript has them.
InTranscriptOrder(k, S) ==
  {s \in [1..Cardinality(S) -> S] : \A i, j \in DOMAIN s : i < j => s[i] < s[j]}

\* The one ordering of the turns by time, turns of one time as the transcript has them.
InTimeOrder(k, S) ==
  {s \in [1..Cardinality(S) -> S] : \A i, j \in DOMAIN s : i < j =>
     \/ Time(k, s[i]) < Time(k, s[j])
     \/ Time(k, s[i]) = Time(k, s[j]) /\ s[i] < s[j]}

\* The newest of the turns that fit the budget, on which a turn larger than all of
\* it does not count.
WithinBudget(k, S) ==
  LET Size(t) == Transcript[k][t].size
      Counting(t) == {u \in S : u >= t /\ Size(u) <= Budget}
  IN {t \in S : Cardinality(UNION {{u} \X (1..Size(u)) : u \in Counting(t)}) <= Budget}

\* The hook reads back from the end of the transcript to where a user speaks, or
\* further: how far, the noise between the turns decides.  It leaves out the turns
\* older than the last one stored; turns of that very time stay.
Capture(p, k) ==
  /\ k \in Captured
  /\ pc[p] = "idle"
  /\ \E from \in 1..said[k] :
       LET window == from..said[k]
           floor == Floor(k)
           kept == WithinBudget(k, {t \in window : Time(k, t) >= floor})
       IN /\ \E t \in window : Transcript[k][t].user
          /\ kept # {}
          /\ \E start \in {Time(k, t) : t \in window}, turns \in InTimeOrder(k, kept) :
               /\ \A t \in window : start <= Time(k, t)
               /\ Begin(p, "append", k, start, turns)
  /\ UNCHANGED forgets

Import(p, k) ==
  /\ k \notin Captured
  /\ UNCHANGED forgets
  /\ Begin(p, "append", k, Time(k, 1), [t \in 1..said[k] |-> t])

Forget(p, k) ==
  /\ Untroubled /\ forgets < MaxForgets
  /\ forgets' = forgets + 1
  /\ Begin(p, "forget", k, 0, <<>>)

Clear(p) ==
  /\ Untroubled /\ forgets < MaxForgets
  /\ forgets' = forgets + 1
  /\ Begin(p, "clear", Idle.key, 0, <<>>)

Lock(p) ==
  /\ pc[p] = "waiting"
  /\ lock = Free
  /\ lock' = p
  /\ pc' = [pc EXCEPT ![p] = CASE job[p].call = "append" -> "inspect"
                               [] job[p].call = "forget" -> "forgetCopies"
                               [] job[p].call = "clear" -> "clear"]
  /\ UNCHANGED <<said, disk, job, bounds, stale>>

\* After 250 ms the call fails, having changed nothing.
TimeOut(p) ==
  /\ pc[p] = "waiting"
  /\ lock \notin {Free, p}
  /\ pc' = [pc EXCEPT ![p] = "idle"]
  /\ job' = [job EXCEPT ![p] = Idle]
  /\ UNCHANGED <<said, disk, lock, bounds, stale>>

\* The lock is freed: by its owner, or as stale when its owner died.
Release(p) ==
  /\ pc[p] = "release"
  /\ pc' = [pc EXCEPT ![p] = "idle"]
  /\ job' = [job EXCEPT ![p] = Idle]
  /\ lock' = IF lock = p THEN Free ELSE lock
  /\ UNCHANGED <<said, disk, bounds, stale>>

\* The holder of the lock dies or one of its system calls fails.
Fails(p) ==
  /\ Untroubled /\ failures < MaxFailures
  /\ failures' = failures + 1
  /\ pc' = [pc EXCEPT ![p] = "idle"]
  /\ job' = [job EXCEPT ![p] = Idle]
  /\ lock' = IF lock = p THEN Free ELSE lock

Killed(p) ==
  /\ pc[p] \notin {"idle", "waiting", "release"}
  /\ Fails(p)
  /\ stale' = IF pc[p] \in {"evict", "evictCopies", "index"}
              THEN stale \cup {job[p].key} ELSE stale
  /\ UNCHANGED <<said, disk, damages, forgets>>

-----------------------------------------------------------------------------
(* appendTurns, under the lock.                                              *)

\* Mutation of Fresh: only the last stored turn is recognised.
FreshAfterLast(k, turns) ==
  Picked(turns, {t \in ToSet(turns) :
                   Stored(k) = <<>> \/ Text(k, t) # Text(k, Last(Stored(k)))})

\* The lines of the batch the file does not hold.  A repeat inside the batch
\* is kept: it was said twice.
Fresh(k, turns) ==
  Picked(turns, {t \in ToSet(turns) : Text(k, t) \notin Texts(k, Stored(k))})

\* The lines to append.
ToAppend(k, turns) == (IF Readable(k) THEN <<>> ELSE <<Header>>) \o Fresh(k, turns)

\* Mutation of Quarantine: always the same name.
QuarantineOverwriting(k) ==
  /\ file' = [file EXCEPT ![k] = NoFile]
  /\ copies' = [copies EXCEPT ![k] = <<Lines(k)>>]

\* A quarantined copy takes a name of its own.
Quarantine(k) ==
  /\ file' = [file EXCEPT ![k] = NoFile]
  /\ copies' = [copies EXCEPT ![k] = Append(@, Lines(k))]

Inspect(p) ==
  LET k == job[p].key IN
  /\ pc[p] = "inspect"
  /\ IF Unreadable(k) THEN Quarantine(k) ELSE UNCHANGED <<file, copies>>
  /\ job' = [job EXCEPT ![p].turns = ToAppend(k, @)]
  /\ pc' = [pc EXCEPT ![p] = "append"]
  /\ UNCHANGED <<said, index, lock, bounds, stale>>

\* Mutation of NeedsNewline: the last line is taken to be ended.
NewlineNever(k) == FALSE

\* endsWithNewline: a write cut off may have left the last line without its end.
NeedsNewline(k) == Exists(k) /\ ~file[k].ended

\* The file's lines with more text after them; without a newline between the two
\* the first new line is spliced into the unfinished one.
Joined(k, lines, newline) ==
  IF lines = <<>> \/ newline \/ Lines(k) = <<>> \/ file[k].ended THEN Lines(k) \o lines
  ELSE Front(Lines(k)) \o <<Torn>> \o Tail(lines)

\* Mutation of Refreshed: an entry the index has is kept.
RefreshedKeepingOld(k) ==
  LET own == IF Readable(k) THEN {k} ELSE {} IN
  [l \in DOMAIN Listing \cup own |-> IF l \in DOMAIN Listing THEN Listing[l] ELSE Entry(l)]

\* The index's entries with this session's own read from its file.
Refreshed(k) ==
  LET own == IF Readable(k) THEN {k} ELSE {}
      listed == Listing
  IN [l \in (DOMAIN listed \ {k}) \cup own |-> IF l = k THEN Entry(k) ELSE listed[l]]

\* A file keeps the header it has.
Grown(k, start, lines, ended) ==
  [start |-> IF Readable(k) THEN file[k].start ELSE start,
   lines |-> Joined(k, lines, NeedsNewline(k)), ended |-> ended]

\* The lines are written and the index is worked out again.
AppendTurns(p) ==
  \E k \in {job[p].key} :
    /\ pc[p] = "append"
    /\ file' = IF job[p].turns = <<>> THEN file
               ELSE [file EXCEPT ![k] = Grown(k, job[p].start, job[p].turns, TRUE)]
    /\ UNCHANGED index
    /\ LET entries == Refreshed(k)'
           victims == IF Fits(entries) THEN {} ELSE Victims(entries, k)
       IN /\ job' = [job EXCEPT ![p].entries = entries, ![p].victims = victims]
          /\ pc' = [pc EXCEPT ![p] = IF victims = {} THEN "index" ELSE "evict"]
    /\ UNCHANGED <<said, copies, lock, bounds, stale>>

\* The text stops after n lines, at their end or before it, or inside the next.
AppendCut(p) ==
  LET k == job[p].key IN
  /\ pc[p] = "append"
  /\ \E n \in 0..Len(job[p].turns) - 1, rest \in {<<>>, <<Torn>>}, ended \in BOOLEAN :
       LET lines == SubSeq(job[p].turns, 1, n) \o rest IN
       /\ ended => rest = <<>>
       /\ lines = <<>> => ended
       /\ file' = [file EXCEPT ![k] = Grown(k, job[p].start, lines, ended)]
  /\ Fails(p)
  /\ stale' = stale \cup {k}
  /\ UNCHANGED <<said, copies, index, damages, forgets>>

Unlink(k) == file' = [file EXCEPT ![k] = NoFile]

Evict(p) ==
  /\ pc[p] = "evict"
  /\ Unlink(Oldest(job[p].entries, job[p].victims))
  /\ pc' = [pc EXCEPT ![p] = "evictCopies"]
  /\ UNCHANGED <<said, copies, index, lock, job, bounds, stale>>

EvictCopies(p) ==
  LET victim == Oldest(job[p].entries, job[p].victims)
      rest == job[p].victims \ {victim}
  IN
  /\ pc[p] = "evictCopies"
  /\ copies' = [copies EXCEPT ![victim] = <<>>]
  /\ job' = [job EXCEPT ![p].victims = rest]
  /\ pc' = [pc EXCEPT ![p] = IF rest = {} THEN "index" ELSE "evict"]
  /\ UNCHANGED <<said, file, index, lock, bounds, stale>>

\* The index is replaced by a rename, rebuilt entries included.
WriteIndex(k, entries) ==
  /\ index' = entries
  /\ stale' = IF index = NoIndex THEN {} ELSE stale \ {k}

IndexAppend(p) ==
  LET entries == job[p].entries IN
  /\ pc[p] = "index"
  /\ WriteIndex(job[p].key, [k \in {k \in DOMAIN entries : k = job[p].key \/ Exists(k)}
                               |-> entries[k]])
  /\ pc' = [pc EXCEPT ![p] = "release"]
  /\ UNCHANGED <<said, file, copies, lock, job, bounds>>

-----------------------------------------------------------------------------
(* deleteSession and deleteNamespace, under the lock.                        *)

\* The copies go first, whether or not the file is still there.
ForgetCopies(p) ==
  LET k == job[p].key IN
  /\ pc[p] = "forgetCopies"
  /\ copies' = [copies EXCEPT ![k] = <<>>]
  /\ pc' = [pc EXCEPT ![p] = IF Exists(k) THEN "forgetFile" ELSE "release"]
  /\ UNCHANGED <<said, file, index, lock, job, bounds, stale>>

ForgetFile(p) ==
  /\ pc[p] = "forgetFile"
  /\ Unlink(job[p].key)
  /\ pc' = [pc EXCEPT ![p] = "forgetIndex"]
  /\ UNCHANGED <<said, copies, index, lock, job, bounds, stale>>

ForgetIndex(p) ==
  LET k == job[p].key IN
  /\ pc[p] = "forgetIndex"
  /\ WriteIndex(k, [l \in DOMAIN Listing \ {k} |-> Listing[l]])
  /\ pc' = [pc EXCEPT ![p] = "release"]
  /\ UNCHANGED <<said, file, copies, lock, job, bounds>>

\* rm -r removes the directory's entries in any order.
RemoveTree(files, quarantined, withIndex) ==
  /\ file' = [k \in Keys |-> IF k \in files THEN NoFile ELSE file[k]]
  /\ copies' = [k \in Keys |-> IF k \in quarantined THEN <<>> ELSE copies[k]]
  /\ index' = IF withIndex THEN NoIndex ELSE index

ClearNamespace(p) ==
  /\ pc[p] = "clear"
  /\ RemoveTree(Keys, Keys, TRUE)
  /\ stale' = {}
  /\ pc' = [pc EXCEPT ![p] = "release"]
  /\ UNCHANGED <<said, lock, job, bounds>>

ClearCut(p) ==
  /\ pc[p] = "clear"
  /\ \E files, quarantined \in SUBSET Keys, withIndex \in BOOLEAN :
       RemoveTree(files, quarantined, withIndex)
  /\ Fails(p)
  /\ stale' = IF index' = NoIndex THEN {} ELSE stale
  /\ UNCHANGED <<said, damages, forgets>>

-----------------------------------------------------------------------------
\* The header of a captured session made unreadable by hand or by the disk, while
\* nobody writes.
Damage(k) ==
  /\ k \in Captured
  /\ lock = Free
  /\ Untroubled /\ damages < MaxDamages
  /\ Readable(k)
  /\ damages' = damages + 1
  /\ file' = [file EXCEPT ![k].lines = <<Torn>> \o Tail(@)]
  /\ stale' = stale \cup {k}
  /\ UNCHANGED <<said, copies, index, calls, failures, forgets>>

Appending(p) ==
  \/ \E k \in Keys : Capture(p, k) \/ Import(p, k)
  \/ Inspect(p) \/ AppendTurns(p) \/ AppendCut(p)
  \/ Evict(p) \/ EvictCopies(p) \/ IndexAppend(p)

Forgetting(p) ==
  \/ \E k \in Keys : Forget(p, k)
  \/ ForgetCopies(p) \/ ForgetFile(p) \/ ForgetIndex(p)
  \/ Clear(p) \/ ClearNamespace(p) \/ ClearCut(p)

Next ==
  \/ \E k \in Keys : Say(k) \/ Damage(k)
  \/ \E p \in Procs :
       Appending(p) \/ Forgetting(p) \/ Lock(p) \/ TimeOut(p) \/ Release(p) \/ Killed(p)

Spec == Init /\ [][Next]_vars

-----------------------------------------------------------------------------
Line == {Header, Torn} \cup UNION {1..Len(Transcript[k]) : k \in Keys}

TypeOK ==
  /\ said \in [Keys -> Nat]
  /\ \A k \in Keys :
       /\ said[k] <= Len(Transcript[k])
       /\ Exists(k) => file[k] \in [start : Nat, lines : Seq(Line), ended : BOOLEAN]
       /\ copies[k] \in Seq(Seq(Line))
  /\ index # NoIndex => /\ DOMAIN index \subseteq Keys
                        /\ \A k \in DOMAIN index :
                             index[k] \in [start : Nat, turns : Seq(Nat), bytes : Nat]
  /\ lock \in Procs \cup {Free}
  /\ pc \in [Procs -> Steps]
  /\ \A p \in Procs : pc[p] \notin {"idle", "waiting"} => lock = p
  /\ stale \subseteq Keys

\* When an append answers, every turn of its batch can be read, whatever torn
\* lines an earlier crash left in the file (endsWithNewline, inspectSessionFile).
AnswerStored ==
  \A p \in Procs :
    pc[p] \in {"evict", "evictCopies", "index"} =>
      LET k == job[p].key IN Texts(k, TurnsIn(job[p].turns)) \subseteq Texts(k, Stored(k))

\* Overlapping tails handed over by several hooks, and retries of appends cut
\* off, store a text no more often than it was said (withNamespaceLock, the
\* hashes of appendTurnsUnlocked).
StoredOnce ==
  \A k \in Keys :
    LET turns == Stored(k) IN
    \A t \in ToSet(turns) :
      Cardinality({i \in DOMAIN turns : Text(k, turns[i]) = Text(k, t)})
        <= Cardinality({u \in 1..said[k] : Text(k, u) = Text(k, t)})

\* The floor of a session by the index, its file there or not.
Mark(k) == LastTime(k, IF index = NoIndex THEN Listing ELSE index)

\* No step of an append, done or cut off, raises the time below which hooks drop
\* turns over a turn of its batch that is not stored: the next window brings it
\* again (sessionTurnsToWrite, readIndex, whose rebuilt entries see half an append).
CutsRecoverable ==
  [][\A p \in Procs : \A k \in Captured :
       pc'[p] # pc[p] /\ job[p].call = "append" /\ job[p].key = k =>
         \A t \in ToSet(TurnsIn(job[p].turns)) :
           Time(k, t) < Mark(k)' => \/ Time(k, t) < Mark(k)
                                    \/ Text(k, t) \in Texts(k, Stored(k))']_vars

\* While nobody writes, the listing shows exactly the readable sessions, as they
\* are, but for those whose last write was cut off before the index.
IndexExact ==
  lock = Free =>
    \A k \in Keys \ stale :
      /\ k \in DOMAIN Listing <=> Readable(k)
      /\ Readable(k) => Listing[k] = Entry(k)

\* When an append is done, the sessions the index knows exactly fit the cap, or only
\* its own is left; if it dropped sessions it dropped the oldest others, no more
\* than needed, and left neither a file nor a quarantined copy of them
\* (refreshIndex).  Until the next append a lost index may bring back more.
DroppedOldest(k, own, all) ==
  /\ k # own
  /\ \A l \in DOMAIN index \ {own} : Older(all, k, l)
  /\ ~Exists(k) /\ copies[k] = <<>>
  /\ \/ \E l \in DOMAIN all \ DOMAIN index : Older(all, k, l)
     \/ ~Fits([l \in DOMAIN index \cup {k} |-> all[l]])

CapHonoured ==
  \A p \in Procs : pc[p] = "release" /\ job[p].call = "append" =>
    LET exact == {k \in Keys \ stale : Readable(k)} IN
    /\ Fits([k \in exact |-> Entry(k)]) \/ exact = {job[p].key}
    /\ \A k \in DOMAIN job[p].entries \ DOMAIN index :
         DroppedOldest(k, job[p].key, job[p].entries)

\* No step loses a stored turn, from the file and its quarantined copies
\* together, unless it forgets or drops that session (quarantine).
Kept(k) == ToSet(TurnsIn(Lines(k))) \cup UNION {ToSet(TurnsIn(c)) : c \in ToSet(copies[k])}
Removing(p, k) ==
  \/ pc[p] \in {"forgetCopies", "forgetFile"} /\ job[p].key = k
  \/ pc[p] \in {"evict", "evictCopies"} /\ Oldest(job[p].entries, job[p].victims) = k
  \/ pc[p] = "clear"
TurnsKept ==
  [][\A k \in Keys : \/ UNCHANGED <<file[k], copies[k]>>
                     \/ Kept(k) \subseteq Kept(k)'
                     \/ \E p \in Procs : Removing(p, k)]_disk

\* Windows that were handed out keep their numbers and their turns: a write
\* extends the last one or opens new ones.
WindowsStable ==
  [][\A k \in Keys : file'[k] # file[k] /\ Readable(k) /\ Readable(k)' =>
       LET old == Windows(k, Stored(k))
           new == Windows(k, Stored(k)')
       IN old # <<>> => /\ Len(old) <= Len(new)
                        /\ IsPrefix(Front(old), new)
                        /\ IsPrefix(Last(old), new[Len(old)])]_file
=============================================================================
