--------------------------- MODULE MigrationRunner ---------------------------
(***************************************************************************)
(* migrations/runner.py: every API instance that boots runs run_pending,   *)
(* which takes a lock in Redis, or waits for the lock to clear, and then   *)
(* applies the migrations that db.schema_migrations does not list as       *)
(* applied.  app_factory.run_startup_sequence decides whether the instance *)
(* goes on to serve.  Instances die, migrations fail, Redis comes and goes *)
(* and the lock expires; a replica that restarts is a new instance.        *)
(***************************************************************************)
EXTENDS Naturals

CONSTANTS
  Instance,   \* API processes, each booted once
  Count,      \* how many migrations MIGRATIONS lists, in order
  Optional,   \* the migrations whose OutOfDiskSpace boot goes on without
  Slow,       \* whether the lock may expire while its owner is at work
  None        \* no instance

ASSUME CountIsNat == Count \in Nat
ASSUME OptionalKnown == Optional \subseteq 1..Count
ASSUME SlowFlag == Slow \in BOOLEAN
ASSUME NoneApart == None \notin Instance

Migration == 1..Count

VARIABLES
  lock,     \* schema_migrations:lock, the id of its owner
  applied,  \* the migrations recorded as applied in db.schema_migrations
  done,     \* the migrations whose function has run to its end
  pc,       \* where each instance stands
  via,      \* how it came to run: the lock, a failed SET, no Redis, a wait
  known,    \* applied_ids as the instance read them
  at,       \* the migration the instance has come to
  result,   \* how its pass through the list ended
  smooth    \* nothing has failed, died or expired so far

vars == <<lock, applied, done, pc, via, known, at, result, smooth>>

-----------------------------------------------------------------------------
Ended == {"serving", "refused", "crashed"}
Working == {"read", "next", "run", "record", "failed"}

Go(i, label) == pc' = [pc EXCEPT ![i] = label]

Init ==
  /\ lock = None
  /\ applied \in {1..n : n \in 0..Count}   \* an earlier release applied some
  /\ done = applied
  /\ pc = [i \in Instance |-> "new"]
  /\ via = [i \in Instance |-> "none"]
  /\ known = [i \in Instance |-> {}]
  /\ at = [i \in Instance |-> 1]
  /\ result = [i \in Instance |-> "none"]
  /\ smooth = TRUE

-----------------------------------------------------------------------------
(* The lock                                                                *)

\* SET key id NX EX 600.
Acquire(i) ==
  /\ pc[i] = "new"
  /\ \/ /\ lock = None
        /\ lock' = i
        /\ via' = [via EXCEPT ![i] = "lock"]
        /\ Go(i, "read")
     \/ /\ lock # None
        /\ via' = [via EXCEPT ![i] = "wait"]
        /\ Go(i, "wait")
        /\ UNCHANGED lock
  /\ UNCHANGED <<applied, done, known, at, result, smooth>>

\* No pool: run unlocked, nothing to release.  Or SET raises, whether or not
\* Redis carried it out: run unlocked, release what may be there.
AcquireFails(i) ==
  /\ pc[i] = "new"
  /\ \/ /\ via' = [via EXCEPT ![i] = "no_redis"]
        /\ UNCHANGED lock
     \/ /\ via' = [via EXCEPT ![i] = "blind"]
        /\ lock' \in {lock, IF lock = None THEN i ELSE lock}
  /\ Go(i, "read")
  /\ smooth' = FALSE
  /\ UNCHANGED <<applied, done, known, at, result>>

\* Mutant: the answer of the poll is not looked at.
PollBlindly(i) ==
  /\ pc[i] = "wait"
  /\ Go(i, "read")
  /\ UNCHANGED <<lock, applied, done, via, known, at, result, smooth>>

\* _wait_for_lock_clear polls, and takes a failed poll for a clear lock.
Poll(i) ==
  /\ pc[i] = "wait"
  /\ lock = None
  /\ Go(i, "read")
  /\ UNCHANGED <<lock, applied, done, via, known, at, result, smooth>>

PollFails(i) ==
  /\ pc[i] = "wait"
  /\ Go(i, "read")
  /\ smooth' = FALSE
  /\ UNCHANGED <<lock, applied, done, via, known, at, result>>

\* After 120 s the instance refuses to start.
WaitTimesOut(i) ==
  /\ pc[i] = "wait"
  /\ Go(i, "refused")
  /\ UNCHANGED <<lock, applied, done, via, known, at, result, smooth>>

-----------------------------------------------------------------------------
(* _run_unlocked                                                           *)

\* Mutant: whoever waited trusts the winner to have applied everything.
ReadUnlessWaited(i) ==
  /\ pc[i] = "read"
  /\ known' = [known EXCEPT ![i] = IF via[i] = "wait" THEN Migration ELSE applied]
  /\ Go(i, "next")
  /\ UNCHANGED <<lock, applied, done, via, at, result, smooth>>

\* The one read of applied_ids.
ReadApplied(i) ==
  /\ pc[i] = "read"
  /\ known' = [known EXCEPT ![i] = applied]
  /\ Go(i, "next")
  /\ UNCHANGED <<lock, applied, done, via, at, result, smooth>>

\* Mutant: the loop runs one past the end of the list.
PendingPastEnd(i) == {m \in 1..(Count + 1) : m >= at[i] /\ m \notin known[i]}

\* What is left of MIGRATIONS for an instance.
Pending(i) == {m \in Migration : m >= at[i] /\ m \notin known[i]}

\* How an instance leaves run_pending: the winner releases the lock first.
Leave(i, r) ==
  /\ result' = [result EXCEPT ![i] = r]
  /\ Go(i, IF via[i] \in {"lock", "blind"} THEN "release"
           ELSE IF r = "raised" THEN "refused" ELSE "serving")

\* The next migration that is not known to be applied, or the end.
NextMigration(i) ==
  /\ pc[i] = "next"
  /\ \/ /\ Pending(i) # {}
        /\ \E m \in Pending(i) :
             /\ \A n \in Pending(i) : m <= n
             /\ at' = [at EXCEPT ![i] = m]
        /\ Go(i, "run")
        /\ UNCHANGED result
     \/ /\ Pending(i) = {}
        /\ Leave(i, "ok")
        /\ UNCHANGED at
  /\ UNCHANGED <<lock, applied, done, via, known, smooth>>

\* await migration_fn(db) returns.
RunMigration(i) ==
  /\ pc[i] = "run"
  /\ done' = done \cup {at[i]}
  /\ Go(i, "record")
  /\ UNCHANGED <<lock, applied, via, known, at, result, smooth>>

\* The upsert of {status: "applied"}.
RecordApplied(i) ==
  /\ pc[i] = "record"
  /\ applied' = applied \cup {at[i]}
  /\ at' = [at EXCEPT ![i] = @ + 1]
  /\ Go(i, "next")
  /\ UNCHANGED <<lock, done, via, known, result, smooth>>

\* ... or raises.
MigrationFails(i) ==
  /\ pc[i] = "run"
  /\ Go(i, "failed")
  /\ smooth' = FALSE
  /\ UNCHANGED <<lock, applied, done, via, known, at, result>>

\* Mutant: a failed migration is logged and the loop goes on.
RecordFailedAndGoOn(i) ==
  /\ pc[i] = "failed"
  /\ applied' = applied \ {at[i]}
  /\ at' = [at EXCEPT ![i] = @ + 1]
  /\ Go(i, "next")
  /\ UNCHANGED <<lock, done, via, known, result, smooth>>

\* The upsert of {status: "failed"} on the same document, and the raise;
\* run_startup_sequence swallows the OutOfDiskSpace of an optional one.
RecordFailed(i) ==
  /\ pc[i] = "failed"
  /\ applied' = applied \ {at[i]}
  /\ \/ Leave(i, "raised")
     \/ at[i] \in Optional /\ Leave(i, "swallowed")
  /\ UNCHANGED <<lock, done, via, known, at, smooth>>

\* The read or an upsert of db.schema_migrations raises, carried out or not.
DatabaseFails(i) ==
  /\ \/ /\ pc[i] = "read"
        /\ UNCHANGED applied
     \/ /\ pc[i] = "record"
        /\ applied' \in {applied, applied \cup {at[i]}}
     \/ /\ pc[i] = "failed"
        /\ applied' \in {applied, applied \ {at[i]}}
  /\ Leave(i, "raised")
  /\ smooth' = FALSE
  /\ UNCHANGED <<lock, done, via, known, at>>

-----------------------------------------------------------------------------
(* _release_redis_lock: GET, compare, DELETE                               *)

AfterRelease(i) == IF result[i] = "raised" THEN "refused" ELSE "serving"

\* Mutant: the release does not look whose lock it is.
OwnsAnyLock(i) == lock # None

OwnsLock(i) == lock = i

ReleaseGet(i) ==
  /\ pc[i] = "release"
  /\ Go(i, IF OwnsLock(i) THEN "delete" ELSE AfterRelease(i))
  /\ UNCHANGED <<lock, applied, done, via, known, at, result, smooth>>

ReleaseDelete(i) ==
  /\ pc[i] = "delete"
  /\ lock' = None
  /\ Go(i, AfterRelease(i))
  /\ UNCHANGED <<applied, done, via, known, at, result, smooth>>

\* An error of Redis is swallowed; the DELETE may still have been carried out.
ReleaseFails(i) ==
  /\ pc[i] \in {"release", "delete"}
  /\ lock' \in IF pc[i] = "delete" THEN {lock, None} ELSE {lock}
  /\ Go(i, AfterRelease(i))
  /\ smooth' = FALSE
  /\ UNCHANGED <<applied, done, via, known, at, result>>

-----------------------------------------------------------------------------
\* The lock's TTL: 600 s, which the owner outlives only if it is slow.
Expire ==
  /\ lock # None
  /\ Slow \/ pc[lock] \in Ended
  /\ lock' = None
  /\ smooth' = FALSE
  /\ UNCHANGED <<applied, done, pc, via, known, at, result>>

Crash(i) ==
  /\ pc[i] \notin Ended \cup {"new"}
  /\ Go(i, "crashed")
  /\ smooth' = FALSE
  /\ UNCHANGED <<lock, applied, done, via, known, at, result>>

Lock(i) == Acquire(i) \/ AcquireFails(i) \/ Poll(i) \/ PollFails(i) \/ WaitTimesOut(i)
Run(i) == \/ ReadApplied(i) \/ NextMigration(i) \/ RunMigration(i)
          \/ RecordApplied(i) \/ MigrationFails(i) \/ RecordFailed(i)
          \/ DatabaseFails(i)
Release(i) == ReleaseGet(i) \/ ReleaseDelete(i) \/ ReleaseFails(i)

Next ==
  \/ \E i \in Instance : Lock(i) \/ Run(i) \/ Release(i) \/ Crash(i)
  \/ Expire

Spec == Init /\ [][Next]_vars

-----------------------------------------------------------------------------
TypeOK ==
  /\ lock \in Instance \cup {None}
  /\ applied \in SUBSET Migration
  /\ done \in SUBSET Migration
  /\ pc \in [Instance -> {"new", "wait", "release", "delete"} \cup Working \cup Ended]
  /\ via \in [Instance -> {"none", "lock", "wait", "no_redis", "blind"}]
  /\ known \in [Instance -> SUBSET Migration]
  /\ at \in [Instance -> 1..(Count + 1)]
  /\ result \in [Instance -> {"none", "ok", "raised", "swallowed"}]
  /\ smooth \in BOOLEAN
  /\ \A i \in Instance : pc[i] \in {"run", "record", "failed"} => at[i] \in Migration

\* "Two simultaneously-booting replicas can't race on migration writes": as
\* long as nothing has failed, died or expired, one instance at most runs a
\* migration, and those that waited skip them all.
MigrationsExclusive ==
  smooth => \A i, j \in Instance :
    pc[i] \in {"run", "record"} /\ pc[j] \in {"run", "record"} => i = j

\* A migration runs only on data that every migration before it has been
\* over, whatever failed, died or expired: "attempt each migration in order".
MigrationsInOrder ==
  \A i \in Instance : pc[i] = "run" => \A m \in Migration : m < at[i] => m \in done

\* An instance that serves, unless boot swallowed a full disk, serves data
\* that every migration has been over.
ServesMigratedData ==
  \A i \in Instance : pc[i] = "serving" /\ result[i] # "swallowed" => done = Migration

\* Nobody deletes the lock of another instance, not even one that ran
\* unlocked because its SET had failed.
LockKeptByOthers ==
  [][\A i \in Instance :
       lock = i /\ lock' # i => pc[i] \in Ended \/ pc'[i] # pc[i]]_vars

\* "The FastAPI lifespan will fail fast rather than bring up an app against
\* a half-migrated database."
NeverHalfMigrated ==
  \A i \in Instance : pc[i] = "serving" => done = Migration
=============================================================================
