------------------------------ MODULE FileLock ------------------------------
(***************************************************************************)
(* The cross-process lock of src/store/store.ts, MemoryStore.withLock: a   *)
(* lock file created with O_EXCL, stamped with the owner's pid, reclaimed  *)
(* by a waiter that finds it older than LOCK_STALE_MS with no live owner,  *)
(* and removed by its owner after a device/inode comparison.  One step per *)
(* system call, so that every interleaving of the calls of several         *)
(* processes is a behaviour.  src/sessions/store.ts holds a second copy    *)
(* that differs in one respect (Retry): the variable copy says which of    *)
(* the two the processes run.  Every waiter judges and reclaims a stale    *)
(* file, as in the code, and what follows from two of them doing so is     *)
(* part of the model.                                                      *)
(*                                                                         *)
(* A lock file is named by the process that created it: a process has at   *)
(* most one call of withLock in progress for a lock, and a file that was   *)
(* unlinked never returns to its path, so when the path names a file of p  *)
(* it names the one p created last.  Time appears as facts that become     *)
(* true: a file is old (age > LOCK_STALE_MS), a wait has expired.  The age *)
(* a waiter has read of a file is lost when the creator of that file makes *)
(* its next one; in the code it is kept until the waiter judges.           *)
(***************************************************************************)
EXTENDS Naturals

CONSTANTS
  Procs,       \* operating system processes; one that dies does not return
  CanCrash,    \* whether a process may be killed while it uses the lock
  CanOutlast,  \* whether a live process may keep its lock past LOCK_STALE_MS
  NoFile

ASSUME FileLockAssumption ==
  /\ CanCrash \in BOOLEAN
  /\ CanOutlast \in BOOLEAN
  /\ NoFile \notin Procs

VARIABLES
  copy,      \* the copy of the code that runs: "store" or "sessions"
  lockFile,  \* the file the path .<name>.lock names, or NoFile
  stamped,   \* processes whose last lock file holds their pid
  old,       \* processes whose last lock file is past LOCK_STALE_MS
  saw,       \* process -> the file its last lstat described
  expired,   \* processes whose deadline has passed
  pc         \* process -> the system call it makes next

lockVars == <<copy, lockFile, stamped, old, saw, expired, pc>>

Steps == {"idle", "create", "stamp", "look", "owner", "wait", "reclaim",
          "inside", "compare", "remove", "dead"}

Waiting == {"create", "look", "owner", "wait", "reclaim"}

Goto(p, step) == pc' = [pc EXCEPT ![p] = step]

\* `continue`: store.ts goes straight to the next create, sessions/store.ts
\* tests the deadline first.
Retry(p) == Goto(p, IF copy = "sessions" THEN "wait" ELSE "create")

LockInit ==
  /\ copy \in {"store", "sessions"}
  /\ lockFile = NoFile
  /\ stamped = {}
  /\ old = {}
  /\ saw = [p \in Procs |-> NoFile]
  /\ expired = {}
  /\ pc = [p \in Procs |-> "idle"]

\* withLock is called: the deadline is set and the retry loop entered.
Call(p) ==
  /\ pc[p] = "idle"
  /\ expired' = expired \ {p}
  /\ Goto(p, "create")
  /\ UNCHANGED <<copy, lockFile, stamped, old, saw>>

\* openSync(lockPath, 'wx') creates the file ...
Create(p) ==
  /\ pc[p] = "create"
  /\ lockFile = NoFile
  /\ lockFile' = p
  /\ stamped' = stamped \ {p}
  /\ old' = old \ {p}
  /\ Goto(p, "stamp")
  /\ UNCHANGED <<copy, saw, expired>>

\* ... or fails with EEXIST.
CreateExists(p) ==
  /\ pc[p] = "create"
  /\ lockFile # NoFile
  /\ Goto(p, "look")
  /\ UNCHANGED <<copy, lockFile, stamped, old, saw, expired>>

\* writeFileSync(acquired, {pid, createdAt}): through the descriptor, so it
\* reaches the created file whatever the path names by now.
Stamp(p) ==
  /\ pc[p] = "stamp"
  /\ stamped' = stamped \cup {p}
  /\ Goto(p, "inside")
  /\ UNCHANGED <<copy, lockFile, old, saw, expired>>

\* The write fails (disk full): the path is unlinked and the call throws.
StampFails(p) ==
  /\ pc[p] = "stamp"
  /\ lockFile' = NoFile
  /\ Goto(p, "idle")
  /\ UNCHANGED <<copy, stamped, old, saw, expired>>

\* lstatSync(lockPath) after EEXIST; ENOENT goes back to the create.
Look(p) ==
  /\ pc[p] = "look"
  /\ saw' = [saw EXCEPT ![p] = lockFile]
  /\ IF lockFile = NoFile THEN Retry(p) ELSE Goto(p, "owner")
  /\ UNCHANGED <<copy, lockFile, stamped, old, expired>>

\* Mutation of OwnerAlive: an empty lock file counts as owned.
EmptyFileOwned ==
  lockFile # NoFile /\ (lockFile \in stamped => pc[lockFile] # "dead")

\* readFileSync(lockPath) and process.kill(pid, 0): the file the path names
\* now, which need not be the one lstat described.  Empty or missing: no owner.
OwnerAlive == lockFile \in stamped /\ pc[lockFile] # "dead"

\* The staleness decision: age from the lstat, ownership from the read.
JudgeOwner(p) ==
  /\ pc[p] = "owner"
  /\ Goto(p, IF saw[p] \in old /\ ~OwnerAlive
             THEN "reclaim" ELSE "wait")
  /\ UNCHANGED <<copy, lockFile, stamped, old, saw, expired>>

\* unlinkSync(lockPath) of a file judged stale: whatever the path names now.
Reclaim(p) ==
  /\ pc[p] = "reclaim"
  /\ lockFile' = NoFile
  /\ Retry(p)
  /\ UNCHANGED <<copy, stamped, old, saw, expired>>

\* Mutation of GiveUpOrRetry: the deadline is not tested.
RetryForEver(p) ==
  /\ pc[p] = "wait"
  /\ Goto(p, "create")
  /\ UNCHANGED <<copy, lockFile, stamped, old, saw, expired>>

\* Past the deadline the call throws; before it, it sleeps and retries.
GiveUpOrRetry(p) ==
  /\ pc[p] = "wait"
  /\ Goto(p, IF p \in expired THEN "idle" ELSE "create")
  /\ UNCHANGED <<copy, lockFile, stamped, old, saw, expired>>

\* The protected operation returns or throws; the descriptor is closed.
Leave(p) ==
  /\ pc[p] = "inside"
  /\ Goto(p, "compare")
  /\ UNCHANGED <<copy, lockFile, stamped, old, saw, expired>>

\* finally: lstatSync(lockPath) and the device/inode comparison.
Compare(p) ==
  /\ pc[p] = "compare"
  /\ Goto(p, IF lockFile = p THEN "remove" ELSE "idle")
  /\ UNCHANGED <<copy, lockFile, stamped, old, saw, expired>>

\* unlinkSync(lockPath) of the file found to be the process's own.
Unlink(p) ==
  /\ pc[p] = "remove"
  /\ lockFile' = NoFile
  /\ Goto(p, "idle")
  /\ UNCHANGED <<copy, stamped, old, saw, expired>>

\* The process is killed between two system calls: its file stays behind.
Crash(p) ==
  /\ CanCrash
  /\ pc[p] \notin {"idle", "dead"}
  /\ Goto(p, "dead")
  /\ UNCHANGED <<copy, lockFile, stamped, old, saw, expired>>

\* The file the path names passes LOCK_STALE_MS.
Age ==
  /\ lockFile # NoFile
  /\ pc[lockFile] = "dead" \/ CanOutlast
  /\ old' = old \cup {lockFile}
  /\ UNCHANGED <<copy, lockFile, stamped, saw, expired, pc>>

\* Date.now() reaches the deadline of p's wait.
Expire(p) ==
  /\ pc[p] \in Waiting
  /\ expired' = expired \cup {p}
  /\ UNCHANGED <<copy, lockFile, stamped, old, saw, pc>>

\* The system calls withLock itself makes, the protected operation excepted.
Protocol(p) ==
  \/ Create(p) \/ CreateExists(p) \/ Stamp(p) \/ StampFails(p) \/ Look(p)
  \/ JudgeOwner(p) \/ Reclaim(p) \/ GiveUpOrRetry(p) \/ Compare(p) \/ Unlink(p)

LockNext ==
  \/ \E p \in Procs : Call(p) \/ Protocol(p) \/ Leave(p) \/ Crash(p) \/ Expire(p)
  \/ Age

LockSpec == LockInit /\ [][LockNext]_lockVars

\* The operating system schedules every runnable process and its clock runs;
\* nothing is assumed of how long the protected operation takes.
LockFairness ==
  /\ \A p \in Procs : WF_lockVars(Protocol(p)) /\ WF_lockVars(Expire(p))
  /\ WF_lockVars(Age)

LockFairSpec == LockSpec /\ LockFairness
-----------------------------------------------------------------------------
LockTypeOK ==
  /\ copy \in {"store", "sessions"}
  /\ lockFile \in Procs \cup {NoFile}
  /\ stamped \subseteq Procs
  /\ old \subseteq Procs
  /\ saw \in [Procs -> Procs \cup {NoFile}]
  /\ expired \subseteq Procs
  /\ pc \in [Procs -> Steps]

\* No two processes are ever inside the operation withLock protects
\* ("Cross-process writers are serialized", README.md:446).  It does not hold:
\* two waiters can judge the same abandoned file stale, and the unlink of the
\* second then removes the file the first has created in its place.
MutualExclusion ==
  \A p, q \in Procs : pc[p] = "inside" /\ pc[q] = "inside" => p = q

\* In sessions/store.ts a call does not wait without end: it gets in, or it
\* throws at its deadline, however long the present owner stays, however often
\* others take the lock and even if its owner is dead ("a lock being created
\* and removed under us must not spin without end", sessions/store.ts:968).
WaitEnds ==
  \A p \in Procs :
    copy = "sessions" /\ pc[p] = "create" ~> pc[p] \in {"inside", "idle", "dead"}

\* In both copies a call that never ends is one that others overtake for ever:
\* `continue` skips the deadline of store.ts only when the file it met was
\* removed, so a process spins only while the lock is taken again and again.
SpinsOnlyOvertaken ==
  \A p \in Procs :
    <>[](pc[p] \in Waiting) => []<>(\E q \in Procs : pc[q] = "stamp")

\* The lock of a killed process does not block the store for ever: while some
\* process keeps meeting it, the abandoned file is removed in the end.
AbandonedLockFreed ==
  \A p, q \in Procs :
    []<>(pc[p] = "owner") =>
      (lockFile = q /\ pc[q] = "dead") ~> lockFile # q
=============================================================================
