----------------------- MODULE MigrationRunner_proofs -----------------------
(***************************************************************************)
(* Proofs about MigrationRunner, for any number of instances and of        *)
(* migrations.                                                             *)
(***************************************************************************)
EXTENDS MigrationRunner, TLAPS

LEMMA InitTyped == Init => TypeOK
  BY CountIsNat DEF Init, TypeOK, Migration, Working, Ended

\* Every action keeps the variables within their types.
LEMMA TypedNext == TypeOK /\ [Next]_vars => TypeOK'
<1> SUFFICES ASSUME TypeOK, [Next]_vars PROVE TypeOK'
  OBVIOUS
<1> USE CountIsNat DEF TypeOK, Migration, Working, Ended, Go
<1>1. ASSUME NEW i \in Instance, Acquire(i) PROVE TypeOK'
  BY <1>1 DEF Acquire
<1>2. ASSUME NEW i \in Instance, AcquireFails(i) PROVE TypeOK'
  BY <1>2 DEF AcquireFails
<1>3. ASSUME NEW i \in Instance, Poll(i) \/ PollFails(i) \/ WaitTimesOut(i) PROVE TypeOK'
  BY <1>3 DEF Poll, PollFails, WaitTimesOut
<1>4. ASSUME NEW i \in Instance, ReadApplied(i) PROVE TypeOK'
  BY <1>4 DEF ReadApplied
<1>5. ASSUME NEW i \in Instance, NextMigration(i) PROVE TypeOK'
  BY <1>5 DEF NextMigration, Pending, Leave
<1>6. ASSUME NEW i \in Instance, RunMigration(i) PROVE TypeOK'
  BY <1>6 DEF RunMigration
<1>7. ASSUME NEW i \in Instance, RecordApplied(i) PROVE TypeOK'
  <2>1. at[i] \in Migration /\ at[i] + 1 \in 1..(Count + 1)
    BY <1>7 DEF RecordApplied
  <2>2. at' \in [Instance -> 1..(Count + 1)]
    BY <1>7, <2>1 DEF RecordApplied
  <2> QED
    BY <1>7, <2>1, <2>2 DEF RecordApplied
<1>8. ASSUME NEW i \in Instance, MigrationFails(i) PROVE TypeOK'
  BY <1>8 DEF MigrationFails
<1>9. ASSUME NEW i \in Instance, RecordFailed(i) PROVE TypeOK'
  BY <1>9 DEF RecordFailed, Leave
<1>10. ASSUME NEW i \in Instance, DatabaseFails(i) PROVE TypeOK'
  BY <1>10 DEF DatabaseFails, Leave
<1>11. ASSUME NEW i \in Instance, Release(i) PROVE TypeOK'
  BY <1>11 DEF Release, ReleaseGet, ReleaseDelete, ReleaseFails, AfterRelease
<1>12. ASSUME NEW i \in Instance, Crash(i) PROVE TypeOK'
  BY <1>12 DEF Crash
<1>13. CASE Expire
  BY <1>13 DEF Expire
<1>14. CASE UNCHANGED vars
  BY <1>14 DEF vars
<1> QED
  BY <1>1, <1>2, <1>3, <1>4, <1>5, <1>6, <1>7, <1>8, <1>9, <1>10, <1>11, <1>12, <1>13,
     <1>14 DEF Next, Lock, Run

\* Every reachable state is well typed; no instance comes to a migration
\* that the list does not have.
THEOREM TypeCorrectMigrations == Spec => []TypeOK
  BY InitTyped, TypedNext, PTL DEF Spec

-----------------------------------------------------------------------------
(* The order of migrations, with every fault.                              *)

\* What an instance has behind it, by where it stands.
OrderInv ==
  /\ applied \subseteq done
  /\ \A i \in Instance :
       /\ known[i] \subseteq done
       /\ pc[i] \in {"new", "wait", "read"} => at[i] = 1
       /\ \A m \in Migration : m < at[i] => m \in done
       /\ pc[i] = "record" => at[i] \in done
       /\ result[i] = "ok" => done = Migration
       /\ pc[i] \in {"release", "delete"} => result[i] # "none"
       /\ pc[i] = "serving" => result[i] \in {"ok", "swallowed"}

LEMMA InitOrder == Init => OrderInv
  BY CountIsNat DEF Init, OrderInv, Migration

LEMMA OrderNext == TypeOK /\ OrderInv /\ [Next]_vars => OrderInv'
<1> SUFFICES ASSUME TypeOK, OrderInv, [Next]_vars PROVE OrderInv'
  OBVIOUS
<1> USE CountIsNat DEF TypeOK, OrderInv, Migration, Working, Ended, Go
<1>1. ASSUME NEW i \in Instance, Acquire(i) PROVE OrderInv'
  BY <1>1 DEF Acquire
<1>2. ASSUME NEW i \in Instance, AcquireFails(i) PROVE OrderInv'
  BY <1>2 DEF AcquireFails
<1>3. ASSUME NEW i \in Instance, Poll(i) \/ PollFails(i) \/ WaitTimesOut(i) PROVE OrderInv'
  BY <1>3 DEF Poll, PollFails, WaitTimesOut
<1>4. ASSUME NEW i \in Instance, ReadApplied(i) PROVE OrderInv'
  BY <1>4 DEF ReadApplied
<1>5. ASSUME NEW i \in Instance, NextMigration(i) PROVE OrderInv'
  <2>1. CASE Pending(i) = {}
    <3>1. ASSUME NEW m \in Migration PROVE m \in done
      <4>1. at[i] \in Nat /\ m \in Nat
        OBVIOUS
      <4>2. CASE m < at[i]
        BY <4>2
      <4>3. CASE m >= at[i]
        BY <4>3, <2>1 DEF Pending
      <4> QED
        BY <4>1, <4>2, <4>3
    <3> QED
      BY <1>5, <2>1, <3>1 DEF NextMigration, Leave
  <2>2. CASE Pending(i) # {}
    <3>1. PICK m \in Pending(i) : /\ \A n \in Pending(i) : m <= n
                                  /\ at' = [at EXCEPT ![i] = m]
      BY <1>5, <2>2 DEF NextMigration
    <3>2. \A n \in Migration : n < m => n \in done
      BY <3>1 DEF Pending
    <3> QED
      BY <1>5, <2>2, <3>1, <3>2 DEF NextMigration, Pending
  <2> QED
    BY <2>1, <2>2
<1>6. ASSUME NEW i \in Instance, RunMigration(i) PROVE OrderInv'
  BY <1>6 DEF RunMigration
<1>7. ASSUME NEW i \in Instance, RecordApplied(i) PROVE OrderInv'
  <2>1. at[i] \in Migration /\ at[i] \in done
    BY <1>7 DEF RecordApplied
  <2>2. \A m \in Migration : m < at[i] + 1 => m \in done
    <3> SUFFICES ASSUME NEW m \in Migration, m < at[i] + 1 PROVE m \in done
      OBVIOUS
    <3>1. m < at[i] \/ m = at[i]
      BY <2>1
    <3> QED
      BY <2>1, <3>1
  <2>3. \A j \in Instance : at'[j] = IF j = i THEN at[i] + 1 ELSE at[j]
    BY <1>7 DEF RecordApplied
  <2>4. \A j \in Instance : \A m \in Migration : m < at'[j] => m \in done
    BY <2>2, <2>3
  <2>5. applied' \subseteq done /\ done' = done /\ known' = known /\ result' = result
    BY <1>7, <2>1 DEF RecordApplied
  <2>6. \A j \in Instance : pc'[j] = IF j = i THEN "next" ELSE pc[j]
    BY <1>7 DEF RecordApplied
  <2> QED
    BY <2>3, <2>4, <2>5, <2>6
<1>8. ASSUME NEW i \in Instance, MigrationFails(i) PROVE OrderInv'
  BY <1>8 DEF MigrationFails
<1>9. ASSUME NEW i \in Instance, RecordFailed(i) PROVE OrderInv'
  <2>1. PICK r \in {"raised", "swallowed"} : Leave(i, r)
    BY <1>9 DEF RecordFailed
  <2> QED
    BY <1>9, <2>1 DEF RecordFailed, Leave
<1>10. ASSUME NEW i \in Instance, DatabaseFails(i) PROVE OrderInv'
  BY <1>10 DEF DatabaseFails, Leave
<1>11. ASSUME NEW i \in Instance, Release(i) PROVE OrderInv'
  BY <1>11 DEF Release, ReleaseGet, ReleaseDelete, ReleaseFails, AfterRelease
<1>12. ASSUME NEW i \in Instance, Crash(i) PROVE OrderInv'
  BY <1>12 DEF Crash
<1>13. CASE Expire
  BY <1>13 DEF Expire
<1>14. CASE UNCHANGED vars
  BY <1>14 DEF vars
<1> QED
  BY <1>1, <1>2, <1>3, <1>4, <1>5, <1>6, <1>7, <1>8, <1>9, <1>10, <1>11, <1>12, <1>13,
     <1>14 DEF Next, Lock, Run

\* A migration runs only on data every earlier migration has been over.
THEOREM OrderedMigrations == Spec => []MigrationsInOrder
<1>1. OrderInv => MigrationsInOrder
  BY DEF OrderInv, MigrationsInOrder
<1> QED
  BY <1>1, InitTyped, TypedNext, InitOrder, OrderNext, PTL DEF Spec

\* An instance serves fully migrated data unless boot swallowed an error.
THEOREM MigratedBeforeServing == Spec => []ServesMigratedData
<1>1. OrderInv => ServesMigratedData
  BY DEF OrderInv, ServesMigratedData
<1> QED
  BY <1>1, InitTyped, TypedNext, InitOrder, OrderNext, PTL DEF Spec

-----------------------------------------------------------------------------
(* One instance at a time, without faults.                                 *)

\* As long as nothing has gone wrong: the winner owns the lock from its SET
\* to its DELETE, the lock is given back only when everything is applied,
\* and so whoever waited has nothing left to run.
SmoothInv ==
  smooth =>
    /\ lock = None => applied = Migration \/ \A i \in Instance : pc[i] = "new"
    /\ \A i \in Instance :
         /\ pc[i] = "new" \/ via[i] \in {"lock", "wait"}
         /\ pc[i] \notin {"failed", "crashed"}
         /\ pc[i] \in {"read", "next", "run", "record", "release", "delete"}
              /\ via[i] = "lock" => lock = i
         /\ pc[i] = "read" /\ via[i] = "wait" => applied = Migration
         /\ pc[i] = "next" /\ via[i] = "wait" => known[i] = Migration
         /\ pc[i] \in {"run", "record", "release", "delete"} => via[i] = "lock"
         /\ pc[i] = "wait" => via[i] = "wait"
         /\ known[i] \subseteq applied
         /\ \A m \in Migration : m < at[i] => m \in applied
         /\ pc[i] \in {"release", "delete"} => applied = Migration

LEMMA InitSmooth == Init => SmoothInv
  BY CountIsNat DEF Init, SmoothInv, Migration

LEMMA SmoothNext == TypeOK /\ SmoothInv /\ [Next]_vars => SmoothInv'
<1> SUFFICES ASSUME TypeOK, SmoothInv, [Next]_vars, smooth' PROVE SmoothInv'
  BY DEF SmoothInv
<1> USE NoneApart DEF TypeOK, SmoothInv, Working, Ended, Go
<1>1. ASSUME NEW i \in Instance, Acquire(i) PROVE SmoothInv'
  BY <1>1 DEF Acquire
<1>2. ASSUME NEW i \in Instance, Poll(i) \/ WaitTimesOut(i) PROVE SmoothInv'
  <2>1. /\ smooth /\ pc[i] = "wait"
        /\ UNCHANGED <<lock, applied, via, known, at>>
        /\ Poll(i) => lock = None
    BY <1>2 DEF Poll, WaitTimesOut
  <2>2. \A j \in Instance : pc'[j] = pc[j] \/ (j = i /\ pc'[j] \in {"read", "refused"})
    BY <1>2 DEF Poll, WaitTimesOut
  <2>3. pc'[i] = "read" => applied = Migration
    BY <1>2, <2>1 DEF Poll, WaitTimesOut
  <2>4. lock' = None => applied' = Migration
    BY <2>1
  <2> QED
    BY <2>1, <2>2, <2>3, <2>4
<1>3. ASSUME NEW i \in Instance, ReadApplied(i) PROVE SmoothInv'
  BY <1>3 DEF ReadApplied
<1>4. ASSUME NEW i \in Instance, NextMigration(i) PROVE SmoothInv'
  <2>1. smooth
    BY <1>4 DEF NextMigration
  <2>2. CASE Pending(i) = {}
    <3>1. ASSUME NEW m \in Migration PROVE m \in applied
      <4>1. at[i] \in Nat /\ m \in Nat
        BY CountIsNat DEF Migration
      <4>2. CASE m < at[i]
        BY <4>2, <2>1
      <4>3. CASE m >= at[i]
        BY <4>3, <2>1, <2>2 DEF Pending
      <4> QED
        BY <4>1, <4>2, <4>3
    <3>2. applied = Migration
      BY <3>1
    <3> QED
      BY <1>4, <2>1, <2>2, <3>2 DEF NextMigration, Leave
  <2>3. CASE Pending(i) # {}
    <3>1. PICK m \in Pending(i) : /\ \A n \in Pending(i) : m <= n
                                  /\ at' = [at EXCEPT ![i] = m]
      BY <1>4, <2>3 DEF NextMigration
    <3>2. via[i] = "lock"
      BY <1>4, <2>1, <2>3 DEF NextMigration, Pending
    <3>3. \A n \in Migration : n < m => n \in applied
      BY <3>1, <2>1, CountIsNat DEF Pending, Migration
    <3> QED
      BY <1>4, <2>1, <2>3, <3>1, <3>2, <3>3 DEF NextMigration, Pending
  <2> QED
    BY <2>2, <2>3
<1>5. ASSUME NEW i \in Instance, RunMigration(i) PROVE SmoothInv'
  BY <1>5 DEF RunMigration
<1>6. ASSUME NEW i \in Instance, RecordApplied(i) PROVE SmoothInv'
  <2>1. smooth /\ at[i] \in Migration
    BY <1>6 DEF RecordApplied
  <2>2. \A m \in Migration : m < at[i] + 1 => m \in applied'
    <3> SUFFICES ASSUME NEW m \in Migration, m < at[i] + 1 PROVE m \in applied'
      OBVIOUS
    <3>1. m < at[i] \/ m = at[i]
      BY <2>1, CountIsNat DEF Migration
    <3> QED
      BY <1>6, <2>1, <3>1 DEF RecordApplied
  <2>3. applied' = applied \cup {at[i]} /\ applied \subseteq applied' /\ applied' \subseteq Migration
    BY <1>6, <2>1 DEF RecordApplied
  <2>4. \A j \in Instance : /\ at'[j] = IF j = i THEN at[i] + 1 ELSE at[j]
                            /\ pc'[j] = IF j = i THEN "next" ELSE pc[j]
    <3>1. /\ at' = [at EXCEPT ![i] = at[i] + 1] /\ DOMAIN at = Instance
          /\ pc' = [pc EXCEPT ![i] = "next"] /\ DOMAIN pc = Instance
      BY <1>6 DEF RecordApplied
    <3> HIDE DEF TypeOK, SmoothInv
    <3> QED
      BY <3>1
  <2>5. /\ lock' = lock /\ via' = via /\ known' = known
        /\ pc[i] = "record" /\ via[i] = "lock" /\ lock = i
    BY <1>6, <2>1 DEF RecordApplied
  <2>6. \A j \in Instance : \A m \in Migration : m < at'[j] => m \in applied'
    <3> SUFFICES ASSUME NEW j \in Instance, NEW m \in Migration, m < at'[j]
                 PROVE  m \in applied'
      OBVIOUS
    <3>1. CASE j = i
      BY <3>1, <2>2, <2>4
    <3>2. CASE j # i
      BY <3>2, <2>1, <2>3, <2>4
    <3> QED
      BY <3>1, <3>2
  <2>7. ASSUME applied = Migration PROVE applied' = Migration
    BY <2>3, <2>7
  <2>8. i # None
    BY NoneApart
  <2> QED
    BY <2>1, <2>3, <2>4, <2>5, <2>6, <2>7, <2>8
<1>7. ASSUME NEW i \in Instance, RecordFailed(i) PROVE SmoothInv'
  BY <1>7 DEF RecordFailed
<1>8. ASSUME NEW i \in Instance, ReleaseGet(i) \/ ReleaseDelete(i) PROVE SmoothInv'
  <2>1. /\ smooth /\ applied = Migration
        /\ UNCHANGED <<applied, via, known, at>>
        /\ via[i] = "lock" /\ lock = i
    BY <1>8 DEF ReleaseGet, ReleaseDelete
  <2>2. \A j \in Instance : pc'[j] = pc[j]
                             \/ (j = i /\ pc'[j] \in {"delete", "refused", "serving"})
    BY <1>8 DEF ReleaseGet, ReleaseDelete, AfterRelease
  <2>3. /\ lock' = lock \/ lock' = None
        /\ lock' = None => pc'[i] \in {"refused", "serving"}
    BY <1>8, <2>1 DEF ReleaseGet, ReleaseDelete, AfterRelease
  <2> QED
    BY <2>1, <2>2, <2>3
<1>9. ASSUME NEW i \in Instance,
             \/ AcquireFails(i) \/ PollFails(i) \/ MigrationFails(i)
             \/ DatabaseFails(i) \/ ReleaseFails(i) \/ Crash(i)
      PROVE  SmoothInv'
  BY <1>9 DEF AcquireFails, PollFails, MigrationFails, DatabaseFails, ReleaseFails, Crash
<1>10. CASE Expire
  BY <1>10 DEF Expire
<1>11. CASE UNCHANGED vars
  BY <1>11 DEF vars
<1> QED
  BY <1>1, <1>2, <1>3, <1>4, <1>5, <1>6, <1>7, <1>8, <1>9, <1>10, <1>11
     DEF Next, Lock, Run, Release

\* Without faults, one instance at most runs a migration.
THEOREM ExclusiveMigrations == Spec => []MigrationsExclusive
<1>1. SmoothInv => MigrationsExclusive
  BY DEF SmoothInv, MigrationsExclusive
<1> QED
  BY <1>1, InitTyped, TypedNext, InitSmooth, SmoothNext, PTL DEF Spec

-----------------------------------------------------------------------------
(* Whose lock is deleted.                                                  *)

\* Between the GET and the DELETE of its release an instance owns the lock.
DeleteInv == \A i \in Instance : pc[i] = "delete" => lock = i

LEMMA DeleteNext == ~Slow /\ TypeOK /\ DeleteInv /\ [Next]_vars => DeleteInv'
<1> SUFFICES ASSUME ~Slow, TypeOK, DeleteInv, [Next]_vars PROVE DeleteInv'
  OBVIOUS
<1> USE NoneApart DEF TypeOK, DeleteInv, Working, Ended, Go
<1>1. ASSUME NEW i \in Instance, Lock(i) PROVE DeleteInv'
  BY <1>1 DEF Lock, Acquire, AcquireFails, Poll, PollFails, WaitTimesOut
<1>2. ASSUME NEW i \in Instance, Run(i) PROVE DeleteInv'
  BY <1>2 DEF Run, ReadApplied, NextMigration, RunMigration, RecordApplied,
     MigrationFails, RecordFailed, DatabaseFails, Leave
<1>3. ASSUME NEW i \in Instance, Release(i) PROVE DeleteInv'
  BY <1>3 DEF Release, ReleaseGet, ReleaseDelete, ReleaseFails, AfterRelease, OwnsLock
<1>4. ASSUME NEW i \in Instance, Crash(i) PROVE DeleteInv'
  BY <1>4 DEF Crash
<1>5. CASE Expire
  BY <1>5 DEF Expire
<1>6. CASE UNCHANGED vars
  BY <1>6 DEF vars
<1> QED
  BY <1>1, <1>2, <1>3, <1>4, <1>5, <1>6 DEF Next

\* If no owner outlives its lock, a lock goes only when its owner releases
\* it or has ended.
THEOREM LocksAreKept ==
  ASSUME ~Slow
  PROVE  Spec => LockKeptByOthers
<1> DEFINE Kept == \A i \in Instance :
                     lock = i /\ lock' # i => pc[i] \in Ended \/ pc'[i] # pc[i]
<1>1. TypeOK /\ DeleteInv /\ [Next]_vars => [Kept]_vars
  <2> SUFFICES ASSUME TypeOK, DeleteInv, Next,
                      NEW i \in Instance, lock = i, lock' # i, pc[i] \notin Ended
               PROVE  pc'[i] # pc[i]
    OBVIOUS
  <2> USE NoneApart DEF TypeOK, DeleteInv, Working, Ended, Go
  <2>1. ASSUME NEW j \in Instance, Lock(j) PROVE FALSE
    BY <2>1 DEF Lock, Acquire, AcquireFails, Poll, PollFails, WaitTimesOut
  <2>2. ASSUME NEW j \in Instance, Run(j) \/ Crash(j) PROVE FALSE
    BY <2>2 DEF Run, ReadApplied, NextMigration, RunMigration, RecordApplied,
       MigrationFails, RecordFailed, DatabaseFails, Leave, Crash
  <2>3. ASSUME NEW j \in Instance, Release(j) PROVE pc'[i] # pc[i]
    BY <2>3 DEF Release, ReleaseGet, ReleaseDelete, ReleaseFails, AfterRelease
  <2>4. ASSUME Expire PROVE FALSE
    BY <2>4 DEF Expire
  <2> QED
    BY <2>1, <2>2, <2>3, <2>4 DEF Next
<1>2. Init => DeleteInv
  BY DEF Init, DeleteInv
<1>3. TypeOK /\ DeleteInv /\ [Next]_vars => DeleteInv'
  BY DeleteNext
<1> QED
  BY <1>1, <1>2, <1>3, InitTyped, TypedNext, PTL DEF Spec, LockKeptByOthers
=============================================================================
