-------------------------- MODULE Schedules_proofs --------------------------
(* Proofs about Schedules. The interesting one is RelocationExclusive; the *)
(* argument is laid out before Settled.                                    *)
EXTENDS Schedules, TLAPS

-----------------------------------------------------------------------------
(* What a request's command and snapshot are at each point of its code.    *)

RequestShape ==
  \A r \in Request :
    /\ pc[r] \in {"conflicts", "slot", "claim", "undo"} =>
         cmd[r] \in RelocateCommand /\ snap[r] \in Doc
    /\ pc[r] \in {"load", "write"} => cmd[r] \in UpdateCommand /\ cmd[r] \in Commands
    /\ pc[r] = "read" => cmd[r] \in Commands
    /\ pc[r] = "read" /\ cmd[r].op = "update" /\ cmd[r].pinned => snap[r] \in Doc
    /\ pc[r] = "write" => snap[r] \in Doc
    /\ pc[r] \in {"new", "load", "read", "conflicts", "slot"} => held[r] = 0
    /\ pc[r] \in {"claim", "undo"} => held[r] <= Len(snap[r].staff)

Typed == TypeOK /\ RequestShape

LEMMA TypedInit == Init => Typed
<1> SUFFICES ASSUME Init PROVE Typed
  OBVIOUS
<1>1. doc \in [Schedule -> Doc]
  <2>1. \A x \in Slot, st \in Staff :
          [slot |-> x, staff |-> st, version |-> 1, live |-> TRUE] \in Doc
    BY DEF Doc
  <2> QED
    BY <2>1 DEF Init
<1>2. TypeOK
  BY <1>1 DEF Init, TypeOK, Ended
<1>3. RequestShape
  BY DEF Init, RequestShape
<1> QED
  BY <1>2, <1>3 DEF Typed

\* The fields of a record decide which of the two kinds of command it is.
LEMMA CommandKinds ==
  ASSUME NEW k \in Commands
  PROVE  /\ k \in Command
         /\ k.op = "relocate" => k \in RelocateCommand
         /\ k.op = "update" => k \in UpdateCommand
         /\ k.op \in {"relocate", "update"}
         /\ k.sid \in Schedule
  BY Choices DEF Command, RelocateCommand, UpdateCommand

\* Writing fields of a document leaves a document.
LEMMA DocEdits ==
  ASSUME NEW d \in Doc
  PROVE  /\ \A x \in Slot : Moved(d, x) \in Doc
         /\ \A st \in Staff : Restaffed(d, st) \in Doc
         /\ \A v \in Nat : WithVersion(d, v) \in Doc
         /\ Bumped(d) \in Doc
         /\ \A l \in BOOLEAN : Alive(d, l) \in Doc
  BY DEF Doc, Moved, Restaffed, WithVersion, Bumped, Alive

LEMMA TypedNext == Typed /\ [Next]_vars => Typed'
<1> SUFFICES ASSUME Typed, [Next]_vars PROVE Typed'
  OBVIOUS
<1> USE DEF Typed, TypeOK, RequestShape, Ended, Go
<1>1. ASSUME NEW r \in Request, BeginRelocate(r) PROVE Typed'
  <2>1. PICK k \in Commands : k.op = "relocate" /\ cmd' = [cmd EXCEPT ![r] = k]
    BY <1>1 DEF BeginRelocate
  <2>2. k \in Command
    BY CommandKinds
  <2>3. overlapped' \in [Request -> SUBSET Request]
    BY <1>1 DEF BeginRelocate, Relocating, InFlight
  <2> QED
    BY <1>1, <2>1, <2>2, <2>3 DEF BeginRelocate
<1>2. ASSUME NEW r \in Request, RelocateRead(r) PROVE Typed'
  <2>1. cmd[r] \in RelocateCommand
    BY <1>2, CommandKinds DEF RelocateRead
  <2>2. doc[cmd[r].sid] \in Doc
    BY <2>1 DEF RelocateCommand
  <2>3. CASE doc[cmd[r].sid].live
    <3>1. /\ snap' = [snap EXCEPT ![r] = doc[cmd[r].sid]]
          /\ pc' = [pc EXCEPT ![r] = "conflicts"]
          /\ UNCHANGED <<doc, claims, cmd, held, overlapped, placed>>
          /\ pc[r] = "read"
      BY <1>2, <2>3 DEF RelocateRead
    <3>2. TypeOK'
      BY <2>2, <3>1
    <3>3. RequestShape'
      BY <2>1, <2>2, <3>1
    <3> QED
      BY <3>2, <3>3
  <2>4. CASE ~doc[cmd[r].sid].live
    BY <1>2, <2>4 DEF RelocateRead
  <2> QED
    BY <2>3, <2>4
<1>3. ASSUME NEW r \in Request, RelocateConflicts(r) PROVE Typed'
  BY <1>3 DEF RelocateConflicts
<1>4. ASSUME NEW r \in Request, RelocateSlotCheck(r) PROVE Typed'
  <2>1. Len(snap[r].staff) \in Nat
    BY <1>4, StaffLists DEF RelocateSlotCheck, Doc
  <2> QED
    BY <1>4, <2>1 DEF RelocateSlotCheck
<1>5. ASSUME NEW r \in Request, RelocateClaim(r) PROVE Typed'
  <2>1. Len(snap[r].staff) \in Nat
    BY <1>5, StaffLists DEF RelocateClaim, Doc
  <2>2. CASE claims[ClaimOf(r, held[r] + 1)] = None
    <3>1. /\ held' = [held EXCEPT ![r] = held[r] + 1]
          /\ claims' = [claims EXCEPT ![ClaimOf(r, held[r] + 1)] = r]
          /\ UNCHANGED <<doc, pc, cmd, snap, overlapped, placed>>
          /\ pc[r] = "claim" /\ held[r] < Len(snap[r].staff)
      BY <1>5, <2>2 DEF RelocateClaim
    <3>2. TypeOK'
      <4>1. held' \in [Request -> Nat]
        BY <3>1
      <4>2. claims' \in [Employee \X Slot -> Request \cup {None}]
        BY <3>1
      <4> QED
        BY <3>1, <4>1, <4>2
    <3>3. held[r] + 1 <= Len(snap[r].staff)
      BY <2>1, <3>1
    <3> QED
      BY <3>1, <3>2, <3>3
  <2>3. CASE claims[ClaimOf(r, held[r] + 1)] # None
    BY <1>5, <2>1, <2>3 DEF RelocateClaim
  <2> QED
    BY <2>2, <2>3
<1>6. ASSUME NEW r \in Request, RelocateSwap(r) PROVE Typed'
  <2>1. cmd[r].sid \in Schedule /\ cmd[r].slot \in Slot
    BY <1>6 DEF RelocateSwap, RelocateCommand
  <2>2. CASE SwapMatches(r)
    <3>1. doc[cmd[r].sid] \in Doc
      BY <2>1
    <3>2. Bumped(Moved(doc[cmd[r].sid], cmd[r].slot)) \in Doc
      BY <2>1, <3>1, DocEdits
    <3>3. doc' \in [Schedule -> Doc]
      BY <1>6, <2>2, <3>2 DEF RelocateSwap
    <3>4. /\ placed' = [placed EXCEPT ![cmd[r].sid] = r]
          /\ pc' = [pc EXCEPT ![r] = "ok"]
          /\ UNCHANGED <<claims, cmd, snap, held, overlapped>>
      BY <1>6, <2>2 DEF RelocateSwap
    <3>5. TypeOK'
      BY <3>3, <3>4
    <3>6. RequestShape'
      BY <3>4
    <3> QED
      BY <3>5, <3>6
  <2>3. CASE ~SwapMatches(r)
    BY <1>6, <2>3 DEF RelocateSwap
  <2> QED
    BY <2>2, <2>3
<1>7. ASSUME NEW r \in Request, RelocateUndo(r) PROVE Typed'
  BY <1>7 DEF RelocateUndo
<1>8. ASSUME NEW r \in Request, BeginUpdate(r) PROVE Typed'
  <2>1. PICK k \in Commands : /\ k.op = "update"
                              /\ cmd' = [cmd EXCEPT ![r] = k]
                              /\ pc' = [pc EXCEPT ![r] = IF k.pinned THEN "load" ELSE "read"]
    BY <1>8 DEF BeginUpdate
  <2>2. k \in Command /\ k \in UpdateCommand
    BY <2>1, CommandKinds
  <2> QED
    BY <1>8, <2>1, <2>2 DEF BeginUpdate
<1>9. ASSUME NEW r \in Request, UpdateLoad(r) PROVE Typed'
  <2>1. doc[cmd[r].sid] \in Doc
    BY <1>9 DEF UpdateLoad, UpdateCommand
  <2>2. CASE doc[cmd[r].sid].live
    <3>1. /\ snap' = [snap EXCEPT ![r] = doc[cmd[r].sid]]
          /\ pc' = [pc EXCEPT ![r] = "read"]
          /\ UNCHANGED <<doc, claims, cmd, held, overlapped, placed>>
          /\ pc[r] = "load"
      BY <1>9, <2>2 DEF UpdateLoad
    <3>2. TypeOK'
      BY <2>1, <3>1
    <3>3. RequestShape'
      BY <2>1, <3>1
    <3> QED
      BY <3>2, <3>3
  <2>3. CASE ~doc[cmd[r].sid].live
    BY <1>9, <2>3 DEF UpdateLoad
  <2> QED
    BY <2>2, <2>3
<1>10. ASSUME NEW r \in Request, UpdateRead(r) PROVE Typed'
  <2>1. cmd[r] \in UpdateCommand
    BY <1>10, CommandKinds DEF UpdateRead
  <2>2. doc[cmd[r].sid] \in Doc
    BY <2>1 DEF UpdateCommand
  <2>3. /\ pc[r] = "read" /\ UNCHANGED <<doc, claims, cmd, held, overlapped, placed>>
        /\ \/ /\ snap' = snap
              /\ pc' = [pc EXCEPT ![r] = "missing"] \/ pc' = [pc EXCEPT ![r] = "refused"]
           \/ /\ snap' = snap /\ cmd[r].pinned
              /\ pc' = [pc EXCEPT ![r] = "write"]
           \/ /\ snap' = [snap EXCEPT ![r] = doc[cmd[r].sid]]
              /\ pc' = [pc EXCEPT ![r] = "write"]
    BY <1>10 DEF UpdateRead
  <2>4. CASE /\ snap' = snap
             /\ pc' = [pc EXCEPT ![r] = "missing"] \/ pc' = [pc EXCEPT ![r] = "refused"]
    BY <2>3, <2>4
  <2>5. CASE snap' = snap /\ cmd[r].pinned /\ pc' = [pc EXCEPT ![r] = "write"]
    <3>1. cmd[r].op = "update" /\ cmd[r] \in Commands /\ snap[r] \in Doc
      BY <2>1, <2>3, <2>5 DEF UpdateCommand
    <3> QED
      BY <2>1, <2>3, <2>5, <3>1
  <2>6. CASE /\ snap' = [snap EXCEPT ![r] = doc[cmd[r].sid]]
             /\ pc' = [pc EXCEPT ![r] = "write"]
    <3>1. TypeOK'
      BY <2>2, <2>3, <2>6
    <3>2. RequestShape'
      BY <2>1, <2>2, <2>3, <2>6
    <3> QED
      BY <3>1, <3>2
  <2> QED
    BY <2>3, <2>4, <2>5, <2>6
<1>11. ASSUME NEW r \in Request, UpdateWrite(r) PROVE Typed'
  <2>1. cmd[r] \in UpdateCommand /\ snap[r] \in Doc
    BY <1>11 DEF UpdateWrite
  <2>2. Edited(r) \in Doc
    <3> DEFINE old == doc[cmd[r].sid]
               slot == IF cmd[r].slot = Keep THEN old.slot ELSE cmd[r].slot
               staff == IF cmd[r].staff = Keep THEN old.staff ELSE cmd[r].staff
    <3>1. old \in Doc /\ slot \in Slot /\ staff \in Staff /\ snap[r].version + 1 \in Nat
      BY <2>1 DEF UpdateCommand, Doc
    <3> QED
      BY <3>1, DocEdits DEF Edited
  <2>3. CASE WriteMatches(r)
    <3>1. /\ doc' = [doc EXCEPT ![cmd[r].sid] = Edited(r)]
          /\ placed' = [placed EXCEPT ![cmd[r].sid] = None]
          /\ pc' = [pc EXCEPT ![r] = "ok"]
          /\ UNCHANGED <<claims, cmd, snap, held, overlapped>>
      BY <1>11, <2>3 DEF UpdateWrite
    <3>2. doc' \in [Schedule -> Doc]
      BY <2>2, <3>1
    <3>3. TypeOK'
      BY <3>1, <3>2
    <3>4. RequestShape'
      BY <3>1
    <3> QED
      BY <3>3, <3>4
  <2>4. CASE ~WriteMatches(r)
    BY <1>11, <2>4 DEF UpdateWrite
  <2> QED
    BY <2>3, <2>4
<1>12. ASSUME NEW r \in Request, NEW s \in Schedule, Write(r, s) PROVE Typed'
  <2>1. pc' = [pc EXCEPT ![r] = "ok"] /\ UNCHANGED <<claims, cmd, snap, held, overlapped>>
    BY <1>12 DEF Write, BumpVersion, BulkWrite, ProjectMove, SoftDelete, Restore, OneStep
  <2>2. doc' \in [Schedule -> Doc]
    <3>1. doc[s] \in Doc
      OBVIOUS
    <3>2. /\ Bumped(doc[s]) \in Doc
          /\ Alive(doc[s], FALSE) \in Doc
          /\ Alive(doc[s], TRUE) \in Doc
      BY <3>1, DocEdits
    <3>3. \A x \in Slot :
            /\ Moved(doc[s], x) \in Doc
            /\ \A st \in Staff : Bumped(Restaffed(Moved(doc[s], x), st)) \in Doc
      BY <3>1, DocEdits
    <3>4. CASE BumpVersion(r, s)
      BY <3>4, <3>2 DEF BumpVersion
    <3>5. CASE \E x \in Slot, st \in Staff : BulkWrite(r, s, x, st)
      BY <3>5, <3>3 DEF BulkWrite
    <3>6. CASE \E x \in Slot : ProjectMove(r, s, x)
      BY <3>6, <3>3 DEF ProjectMove
    <3>7. CASE SoftDelete(r, s) \/ Restore(r, s)
      BY <3>7, <3>2 DEF SoftDelete, Restore
    <3> QED
      BY <1>12, <3>4, <3>5, <3>6, <3>7 DEF Write
  <2>3. placed' \in [Schedule -> Request \cup {None}]
    BY <1>12 DEF Write, BumpVersion, BulkWrite, ProjectMove, SoftDelete, Restore
  <2> QED
    BY <2>1, <2>2, <2>3
<1>13. ASSUME NEW r \in Request, Crash(r) PROVE Typed'
  BY <1>13 DEF Crash
<1>14. ASSUME NEW c \in Employee \X Slot, ExpireClaim(c) PROVE Typed'
  BY <1>14 DEF ExpireClaim
<1>15. CASE UNCHANGED vars
  BY <1>15 DEF vars
<1> QED
  BY <1>1, <1>2, <1>3, <1>4, <1>5, <1>6, <1>7, <1>8, <1>9, <1>10, <1>11,
     <1>12, <1>13, <1>14, <1>15 DEF Next, Relocate, Update

\* Every reachable state of the schedule store is well typed.
THEOREM TypeCorrect == Spec => []TypeOK
<1>1. Spec => []Typed
  BY TypedInit, TypedNext, PTL DEF Spec
<1>2. Typed => TypeOK
  BY DEF Typed
<1> QED
  BY <1>1, <1>2, PTL

-----------------------------------------------------------------------------
(* Versions. When every PUT is pinned, a version never goes back and names *)
(* one list of employees (and one slot, unless a project moves the date):  *)
(* so a snapshot whose version is still current is the current document.   *)

AllPinned == \A k \in Commands : k.op = "update" => k.pinned

\* The requests that rely on a snapshot they took earlier.
Relying(r) == \/ pc[r] \in {"conflicts", "slot", "claim", "write"}
              \/ pc[r] = "read" /\ cmd[r].op = "update" /\ cmd[r].pinned

NotOlder(new, old) ==
  /\ new.version >= old.version
  /\ new.version = old.version =>
       /\ new.staff = old.staff
       /\ ~ProjectSync => new.slot = old.slot

SnapshotsFresh ==
  \A r \in Request : Relying(r) => NotOlder(doc[cmd[r].sid], snap[r])

\* What each writer does to the fields of a document.
LEMMA EditedFields ==
  ASSUME NEW d \in Doc
  PROVE  /\ \A x \in Slot :
              /\ Moved(d, x).slot = x /\ Moved(d, x).staff = d.staff
              /\ Moved(d, x).version = d.version /\ Moved(d, x).live = d.live
         /\ \A st \in Staff :
              /\ Restaffed(d, st).slot = d.slot /\ Restaffed(d, st).staff = st
              /\ Restaffed(d, st).version = d.version /\ Restaffed(d, st).live = d.live
         /\ \A v \in Nat :
              /\ WithVersion(d, v).slot = d.slot /\ WithVersion(d, v).staff = d.staff
              /\ WithVersion(d, v).version = v /\ WithVersion(d, v).live = d.live
         /\ Bumped(d).slot = d.slot /\ Bumped(d).staff = d.staff
         /\ Bumped(d).version = d.version + 1 /\ Bumped(d).live = d.live
         /\ \A l \in BOOLEAN :
              /\ Alive(d, l).slot = d.slot /\ Alive(d, l).staff = d.staff
              /\ Alive(d, l).version = d.version /\ Alive(d, l).live = l
  BY DEF Doc, Moved, Restaffed, WithVersion, Bumped, Alive

LEMMA BumpedVersion ==
  ASSUME NEW d \in Doc
  PROVE  Bumped(d).version = d.version + 1
  BY EditedFields

LEMMA MovedVersion ==
  ASSUME NEW d \in Doc, NEW x \in Slot
  PROVE  /\ Moved(d, x) \in Doc
         /\ Moved(d, x).version = d.version
  BY DEF Doc, Moved

LEMMA RestaffedVersion ==
  ASSUME NEW d \in Doc, NEW st \in Staff
  PROVE  /\ Restaffed(d, st) \in Doc
         /\ Restaffed(d, st).version = d.version
  BY DEF Doc, Restaffed

\* The document a pinned update leaves has the next version.
LEMMA EditedVersion ==
  ASSUME Typed, NEW r \in Request, pc[r] = "write"
  PROVE  /\ cmd[r].sid \in Schedule
         /\ Edited(r) \in Doc
         /\ Edited(r).version = snap[r].version + 1
         /\ Edited(r).live = doc[cmd[r].sid].live
<1> DEFINE old == doc[cmd[r].sid]
           slot == IF cmd[r].slot = Keep THEN old.slot ELSE cmd[r].slot
           staff == IF cmd[r].staff = Keep THEN old.staff ELSE cmd[r].staff
<1>1. /\ cmd[r].sid \in Schedule /\ old \in Doc /\ slot \in Slot /\ staff \in Staff
      /\ snap[r].version + 1 \in Nat
  BY DEF Typed, TypeOK, RequestShape, UpdateCommand, Doc
<1>4. Edited(r) = WithVersion(Restaffed(Moved(old, slot), staff), snap[r].version + 1)
  BY DEF Edited
<1> HIDE DEF slot, staff, old
<1>2. Moved(old, slot) \in Doc /\ Moved(old, slot).live = old.live
  BY <1>1, DocEdits, EditedFields
<1>3. /\ Restaffed(Moved(old, slot), staff) \in Doc
      /\ Restaffed(Moved(old, slot), staff).live = old.live
  BY <1>1, <1>2, DocEdits, EditedFields
<1>5. ASSUME NEW d \in Doc, NEW v \in Nat
      PROVE  /\ WithVersion(d, v) \in Doc
             /\ WithVersion(d, v).version = v
             /\ WithVersion(d, v).live = d.live
  BY DocEdits, EditedFields
<1> DEFINE base == Restaffed(Moved(old, slot), staff)
           next == snap[r].version + 1
<1>7. base \in Doc /\ next \in Nat /\ Edited(r) = WithVersion(base, next)
  BY <1>1, <1>3, <1>4
<1>8. base.live = old.live
  BY <1>3
<1> HIDE DEF base, next
<1>9. /\ WithVersion(base, next) \in Doc
      /\ WithVersion(base, next).version = next
      /\ WithVersion(base, next).live = base.live
  BY <1>5, <1>7
<1>6. /\ Edited(r) \in Doc
      /\ Edited(r).version = snap[r].version + 1
      /\ Edited(r).live = old.live
  BY <1>7, <1>8, <1>9 DEF next
<1> QED
  BY <1>1, <1>6 DEF old

\* No step takes a version back, and a step that keeps it keeps the employees.
LEMMA VersionStep ==
  ASSUME AllPinned, Typed, [Next]_vars, NEW s \in Schedule
  PROVE  NotOlder(doc'[s], doc[s])
<1> DEFINE Goal == NotOlder(doc'[s], doc[s])
<1>0. doc[s] \in Doc /\ doc[s].version \in Nat
  BY DEF Typed, TypeOK, Doc
<1>1. CASE doc'[s] = doc[s]
  BY <1>0, <1>1 DEF NotOlder
<1>2. ASSUME NEW r \in Request, RelocateSwap(r) PROVE Goal
  <2>1. doc' = doc \/ doc' = [doc EXCEPT ![cmd[r].sid] =
                                Bumped(Moved(doc[cmd[r].sid], cmd[r].slot))]
    BY <1>2 DEF RelocateSwap
  <2>2. cmd[r].slot \in Slot
    BY <1>2 DEF RelocateSwap, Typed, RequestShape, RelocateCommand
  <2>3. Bumped(Moved(doc[s], cmd[r].slot)).version = doc[s].version + 1
    <3>1. /\ Moved(doc[s], cmd[r].slot) \in Doc
          /\ Moved(doc[s], cmd[r].slot).version = doc[s].version
      BY <1>0, <2>2, MovedVersion
    <3> QED
      BY <3>1, BumpedVersion
  <2>4. doc'[s] \in {doc[s], Bumped(Moved(doc[s], cmd[r].slot))}
    BY <2>1 DEF Typed, TypeOK
  <2> QED
    BY <1>0, <1>1, <2>3, <2>4 DEF NotOlder
<1>3. ASSUME NEW r \in Request, UpdateWrite(r) PROVE Goal
  <2>1. pc[r] = "write" /\ cmd[r].pinned
    BY <1>3 DEF UpdateWrite, AllPinned, Typed, RequestShape, UpdateCommand
  <2>2. CASE WriteMatches(r)
    <3>1. doc' = [doc EXCEPT ![cmd[r].sid] = Edited(r)]
      BY <1>3, <2>2 DEF UpdateWrite
    <3>2. snap[r].version = doc[cmd[r].sid].version
      BY <2>1, <2>2 DEF WriteMatches
    <3>3. CASE s = cmd[r].sid
      <4>1. doc'[s] = Edited(r)
        BY <3>1, <3>3 DEF Typed, TypeOK
      <4>2. doc'[s].version = doc[s].version + 1
        BY <2>1, <3>2, <3>3, <4>1, EditedVersion
      <4> QED
        BY <1>0, <4>2 DEF NotOlder
    <3>4. CASE s # cmd[r].sid
      BY <3>1, <3>4, <1>1 DEF Typed, TypeOK
    <3> QED
      BY <3>3, <3>4
  <2>3. CASE ~WriteMatches(r)
    BY <1>1, <1>3, <2>3 DEF UpdateWrite
  <2> QED
    BY <2>2, <2>3
<1>4. ASSUME NEW r \in Request, NEW u \in Schedule, Write(r, u) PROVE Goal
  <2>0. /\ Bumped(doc[s]).version = doc[s].version + 1
        /\ \A l \in BOOLEAN : NotOlder(Alive(doc[s], l), doc[s])
    BY <1>0, EditedFields DEF NotOlder
  <2>1. CASE BumpVersion(r, u)
    <3>1. doc'[s] \in {doc[s], Bumped(doc[s])}
      BY <2>1 DEF BumpVersion, Typed, TypeOK
    <3> QED
      BY <1>0, <1>1, <2>0, <3>1 DEF NotOlder
  <2>2. CASE \E x \in Slot, st \in Staff : BulkWrite(r, u, x, st)
    <3>1. PICK x \in Slot, st \in Staff : BulkWrite(r, u, x, st)
      BY <2>2
    <3>2. doc'[s] \in {doc[s], Bumped(Restaffed(Moved(doc[s], x), st))}
      BY <3>1 DEF BulkWrite, Typed, TypeOK
    <3>3. Moved(doc[s], x) \in Doc /\ Moved(doc[s], x).version = doc[s].version
      BY <1>0, MovedVersion
    <3>4. /\ Restaffed(Moved(doc[s], x), st) \in Doc
          /\ Restaffed(Moved(doc[s], x), st).version = doc[s].version
      BY <3>3, RestaffedVersion
    <3>5. Bumped(Restaffed(Moved(doc[s], x), st)).version = doc[s].version + 1
      BY <3>4, BumpedVersion
    <3> QED
      BY <1>0, <1>1, <3>2, <3>5 DEF NotOlder
  <2>3. CASE \E x \in Slot : ProjectMove(r, u, x)
    <3>1. PICK x \in Slot : ProjectMove(r, u, x)
      BY <2>3
    <3>2. doc'[s] \in {doc[s], Moved(doc[s], x)}
      BY <3>1 DEF ProjectMove, Typed, TypeOK
    <3>3. Moved(doc[s], x).version = doc[s].version /\ Moved(doc[s], x).staff = doc[s].staff
      BY <1>0, EditedFields
    <3>4. ProjectSync
      BY <3>1 DEF ProjectMove
    <3> QED
      BY <1>0, <1>1, <3>2, <3>3, <3>4 DEF NotOlder
  <2>4. CASE SoftDelete(r, u) \/ Restore(r, u)
    <3>1. \E l \in BOOLEAN : doc'[s] \in {doc[s], Alive(doc[s], l)}
      BY <2>4 DEF SoftDelete, Restore, Typed, TypeOK
    <3> QED
      BY <1>1, <2>0, <3>1
  <2> QED
    BY <1>4, <2>1, <2>2, <2>3, <2>4 DEF Write
<1>5. ASSUME NEW r \in Request,
             \/ BeginRelocate(r) \/ RelocateRead(r) \/ RelocateConflicts(r)
             \/ RelocateSlotCheck(r) \/ RelocateClaim(r) \/ RelocateUndo(r)
             \/ BeginUpdate(r) \/ UpdateLoad(r) \/ UpdateRead(r) \/ Crash(r)
      PROVE  Goal
  <2>1. doc' = doc
    BY <1>5 DEF BeginRelocate, RelocateRead, RelocateConflicts, RelocateSlotCheck,
                RelocateClaim, RelocateUndo, BeginUpdate, UpdateLoad, UpdateRead, Crash
  <2> QED
    BY <1>1, <2>1
<1>6. ASSUME NEW c \in Employee \X Slot, ExpireClaim(c) PROVE Goal
  BY <1>1, <1>6 DEF ExpireClaim
<1>7. CASE UNCHANGED vars
  BY <1>1, <1>7 DEF vars
<1> QED
  BY <1>2, <1>3, <1>4, <1>5, <1>6, <1>7 DEF Next, Relocate, Update

\* What makes a snapshot stay fresh: the request keeps it, or takes a new one.
LEMMA SnapshotStep ==
  ASSUME Typed, [Next]_vars, NEW r \in Request, Relying(r)'
  PROVE  /\ cmd'[r].sid \in Schedule
         /\ \/ Relying(r) /\ snap'[r] = snap[r] /\ cmd'[r] = cmd[r]
            \/ snap'[r] = doc'[cmd'[r].sid] /\ snap'[r] \in Doc
<1> USE DEF Typed, TypeOK
<1>0. cmd'[r].sid \in Schedule
  <2>1. Typed'
    BY TypedNext
  <2> QED
    BY <2>1, CommandKinds DEF Relying, RequestShape, RelocateCommand, UpdateCommand
<1> DEFINE Kept == Relying(r) /\ snap'[r] = snap[r] /\ cmd'[r] = cmd[r]
           Taken == snap'[r] = doc'[cmd'[r].sid] /\ snap'[r] \in Doc
<1>1. ASSUME NEW q \in Request, RelocateRead(q) PROVE Kept \/ Taken
  <2>1. cmd[q] \in RelocateCommand /\ doc[cmd[q].sid] \in Doc
    BY <1>1, CommandKinds DEF RelocateRead, RequestShape, RelocateCommand
  <2> QED
    BY <1>1, <2>1 DEF RelocateRead, Relying, Go
<1>2. ASSUME NEW q \in Request, UpdateLoad(q) PROVE Kept \/ Taken
  <2>1. cmd[q] \in UpdateCommand /\ doc[cmd[q].sid] \in Doc
    BY <1>2 DEF UpdateLoad, RequestShape, UpdateCommand
  <2> QED
    BY <1>2, <2>1 DEF UpdateLoad, Relying, Go
<1>3. ASSUME NEW q \in Request, UpdateRead(q) PROVE Kept \/ Taken
  <2>1. cmd[q] \in UpdateCommand /\ doc[cmd[q].sid] \in Doc
    BY <1>3, CommandKinds DEF UpdateRead, RequestShape, UpdateCommand
  <2> QED
    BY <1>3, <2>1 DEF UpdateRead, Relying, Go
<1>4. ASSUME NEW q \in Request,
             \/ RelocateConflicts(q) \/ RelocateSlotCheck(q) \/ RelocateClaim(q)
             \/ RelocateSwap(q) \/ RelocateUndo(q) \/ UpdateWrite(q) \/ Crash(q)
      PROVE  Kept
  BY <1>4 DEF RelocateConflicts, RelocateSlotCheck, RelocateClaim, RelocateSwap,
              RelocateUndo, UpdateWrite, Crash, Relying, Go
<1>5. ASSUME NEW q \in Request, BeginRelocate(q) \/ BeginUpdate(q) PROVE Kept
  <2>1. CASE q # r
    BY <1>5, <2>1 DEF BeginRelocate, BeginUpdate, Relying, Go
  <2>2. CASE q = r /\ BeginRelocate(q)
    BY <2>2 DEF BeginRelocate, Relying, Go
  <2>3. CASE q = r /\ BeginUpdate(q)
    BY <2>3 DEF BeginUpdate, Relying, Go
  <2> QED
    BY <1>5, <2>1, <2>2, <2>3
<1>6. ASSUME NEW q \in Request, NEW s \in Schedule, Write(q, s) PROVE Kept
  BY <1>6 DEF Write, BumpVersion, BulkWrite, ProjectMove, SoftDelete, Restore,
              OneStep, Relying, Go
<1>7. ASSUME NEW c \in Employee \X Slot, ExpireClaim(c) PROVE Kept
  BY <1>7 DEF ExpireClaim, Relying
<1>8. ASSUME UNCHANGED vars PROVE Kept
  BY <1>8 DEF vars, Relying
<1> QED
  BY <1>0, <1>1, <1>2, <1>3, <1>4, <1>5, <1>6, <1>7, <1>8 DEF Next, Relocate, Update

\* A snapshot a request relies on is never ahead of the document, and is the
\* document itself (but for a moved date) while their versions agree.
LEMMA FreshNext == AllPinned /\ Typed /\ SnapshotsFresh /\ [Next]_vars => SnapshotsFresh'
<1> SUFFICES ASSUME AllPinned, Typed, SnapshotsFresh, [Next]_vars,
                    NEW r \in Request, Relying(r)'
             PROVE  NotOlder(doc'[cmd'[r].sid], snap'[r])
  BY DEF SnapshotsFresh
<1> DEFINE s == cmd'[r].sid
<1>1. s \in Schedule
  BY SnapshotStep
<1>2. Typed'
  BY TypedNext
<1>3. doc[s] \in Doc /\ doc'[s] \in Doc
  BY <1>1, <1>2 DEF Typed, TypeOK
<1>4. CASE Relying(r) /\ snap'[r] = snap[r] /\ cmd'[r] = cmd[r]
  <2>1. NotOlder(doc'[s], doc[s])
    BY <1>1, VersionStep
  <2>2. NotOlder(doc[s], snap[r])
    BY <1>4 DEF SnapshotsFresh
  <2>3. snap[r] \in Doc
    BY <1>4 DEF Relying, Typed, RequestShape
  <2>4. doc[s].version \in Nat /\ doc'[s].version \in Nat /\ snap[r].version \in Nat
    BY <1>3, <2>3 DEF Doc
  <2> HIDE DEF s
  <2>5. NotOlder(doc'[s], snap[r])
    BY <2>1, <2>2, <2>4 DEF NotOlder
  <2> QED
    BY <1>4, <2>5 DEF s
<1>5. CASE snap'[r] = doc'[s] /\ snap'[r] \in Doc
  BY <1>5 DEF NotOlder, Doc
<1> QED
  BY <1>4, <1>5, SnapshotStep

LEMMA FreshInit == Init => SnapshotsFresh
  BY DEF Init, SnapshotsFresh, Relying

\* When every PUT sends expected_version, no writer takes a version back:
\* update writes its read version plus one only while that version is current.
THEOREM VersionsGrow ==
  ASSUME AllPinned
  PROVE  Spec => VersionsOnlyGrow
<1>1. Typed /\ [Next]_vars => [\A s \in Schedule : doc'[s].version >= doc[s].version]_vars
  BY VersionStep DEF NotOlder
<1>2. Spec => []Typed
  BY TypedInit, TypedNext, PTL DEF Spec
<1> QED
  BY <1>1, <1>2, PTL DEF Spec, VersionsOnlyGrow

\* When every PUT sends expected_version and no project moves a date, a PUT
\* that succeeds overwrites the slot and the employees its client had loaded.
THEOREM PinnedWritesAreCurrent ==
  ASSUME AllPinned, ~ProjectSync
  PROVE  Spec => PinnedWriteSawCurrent
<1> DEFINE Current(r) == /\ doc[cmd[r].sid].slot = snap[r].slot
                         /\ doc[cmd[r].sid].staff = snap[r].staff
<1>1. ASSUME Typed, SnapshotsFresh, [Next]_vars, NEW r \in Request,
             pc[r] = "write", pc'[r] = "ok", cmd[r].pinned
      PROVE  Current(r)
  <2>1. UpdateWrite(r)
    <3>1. ASSUME NEW q \in Request, Relocate(q) \/ Update(q) \/ Crash(q)
          PROVE  UpdateWrite(r)
      BY <1>1, <3>1 DEF Relocate, Update, BeginRelocate, RelocateRead, RelocateConflicts,
         RelocateSlotCheck, RelocateClaim, RelocateSwap, RelocateUndo, BeginUpdate,
         UpdateLoad, UpdateRead, UpdateWrite, Crash, Go, Typed, TypeOK
    <3>2. ASSUME NEW q \in Request, NEW s \in Schedule, Write(q, s) PROVE FALSE
      BY <1>1, <3>2 DEF Write, BumpVersion, BulkWrite, ProjectMove, SoftDelete, Restore,
         OneStep, Go, Typed, TypeOK
    <3>3. ASSUME NEW c \in Employee \X Slot, ExpireClaim(c) PROVE FALSE
      BY <1>1, <3>3 DEF ExpireClaim
    <3>4. ASSUME UNCHANGED vars PROVE FALSE
      BY <1>1, <3>4 DEF vars
    <3> QED
      BY <1>1, <3>1, <3>2, <3>3, <3>4 DEF Next
  <2>2. WriteMatches(r)
    BY <1>1, <2>1 DEF UpdateWrite, Go, Typed, TypeOK
  <2>3. doc[cmd[r].sid].version = snap[r].version
    BY <1>1, <2>2 DEF WriteMatches
  <2>4. NotOlder(doc[cmd[r].sid], snap[r])
    BY <1>1 DEF SnapshotsFresh, Relying
  <2> QED
    BY <2>3, <2>4 DEF NotOlder
<1>2. Typed /\ SnapshotsFresh /\ [Next]_vars =>
        [\A r \in Request : pc[r] = "write" /\ pc'[r] = "ok" /\ cmd[r].pinned
           => LET d == doc[cmd[r].sid] IN
                d.slot = snap[r].slot /\ d.staff = snap[r].staff]_vars
  BY <1>1
<1>3. Spec => [](Typed /\ SnapshotsFresh)
  <2>1. Init => Typed /\ SnapshotsFresh
    BY TypedInit, FreshInit
  <2>2. Typed /\ SnapshotsFresh /\ [Next]_vars => (Typed /\ SnapshotsFresh)'
    BY TypedNext, FreshNext
  <2> QED
    BY <2>1, <2>2, PTL DEF Spec
<1> QED
  BY <1>2, <1>3, PTL DEF Spec, PinnedWriteSawCurrent

-----------------------------------------------------------------------------
(* Claims. A claim belongs to a request that inserted it and has not given *)
(* it back, so a request that answered 409 owns none.                      *)

Owns(q, c) == /\ pc[q] \in {"claim", "undo", "ok", "crashed"}
              /\ pc[q] \in {"claim", "undo"} =>
                   \E i \in 1..held[q] : c = <<snap[q].staff[i], cmd[q].slot>>

ClaimsOwned ==
  \A c \in Employee \X Slot, q \in Request : claims[c] = q => Owns(q, c)

LEMMA ClaimsOwnedNext == Typed /\ ClaimsOwned /\ [Next]_vars => ClaimsOwned'
<1> SUFFICES ASSUME Typed, ClaimsOwned, [Next]_vars, NEW c \in Employee \X Slot,
                    NEW q \in Request, claims'[c] = q
             PROVE  Owns(q, c)'
  BY DEF ClaimsOwned
<1>0. claims[c] = q => Owns(q, c)
  BY DEF ClaimsOwned
<1> USE DEF Typed, TypeOK
\* An owner that keeps what it inserted may end, or go on to take it back.
<1>1. ASSUME claims[c] = q, UNCHANGED <<cmd, snap, held>>,
             pc'[q] \in {pc[q], "ok", "crashed"} \/ (pc[q] = "claim" /\ pc'[q] = "undo")
      PROVE  Owns(q, c)'
  BY <1>0, <1>1 DEF Owns
<1>2. ASSUME NEW r \in Request, RelocateClaim(r) PROVE Owns(q, c)'
  <2> DEFINE k == ClaimOf(r, held[r] + 1)
  <2>1. CASE claims[k] = None
    <3>1. /\ pc' = pc /\ cmd' = cmd /\ snap' = snap
          /\ claims' = [claims EXCEPT ![k] = r]
          /\ held' = [held EXCEPT ![r] = held[r] + 1]
          /\ pc[r] = "claim"
      BY <1>2, <2>1 DEF RelocateClaim
    <3>2. held[r] \in Nat /\ held'[r] = held[r] + 1
      BY <3>1
    <3>3. CASE c = k
      <4>1. q = r
        BY <3>1, <3>3
      <4>2. held'[r] \in 1..held'[r]
        BY <3>2
      <4>3. c = <<snap'[r].staff[held'[r]], cmd'[r].slot>>
        BY <3>1, <3>2, <3>3 DEF ClaimOf
      <4> QED
        BY <3>1, <4>1, <4>2, <4>3 DEF Owns
    <3>4. CASE c # k
      <4>1. Owns(q, c)
        BY <1>0, <3>1, <3>4
      <4>2. held[q] \in Nat /\ held'[q] \in {held[q], held[q] + 1}
        BY <3>1
      <4>3. 1..held[q] \subseteq 1..held'[q]
        BY <4>2
      <4> QED
        BY <3>1, <4>1, <4>3 DEF Owns
    <3> QED
      BY <3>3, <3>4
  <2>2. CASE claims[k] # None
    BY <1>1, <1>2, <2>2 DEF RelocateClaim, Go
  <2> QED
    BY <2>1, <2>2
<1>3. ASSUME NEW r \in Request, RelocateUndo(r) PROVE Owns(q, c)'
  <2>1. /\ pc[r] = "undo" /\ pc' = [pc EXCEPT ![r] = "refused"]
        /\ UNCHANGED <<cmd, snap, held>>
        /\ claims'[c] = IF c \in Inserted(r) THEN None ELSE claims[c]
    BY <1>3 DEF RelocateUndo, Go
  <2>2. claims[c] = q /\ c \notin Inserted(r)
    BY <2>1, Distinguished
  <2>3. q # r
    BY <1>0, <2>1, <2>2 DEF Owns, Inserted, ClaimOf
  <2> QED
    BY <1>1, <2>1, <2>2, <2>3
\* A request that is not claiming yet owns nothing.
<1>4. ASSUME NEW r \in Request,
             \/ BeginRelocate(r) \/ BeginUpdate(r) \/ RelocateRead(r)
             \/ UpdateLoad(r) \/ UpdateRead(r)
      PROVE  Owns(q, c)'
  <2>1. /\ pc[r] \in {"new", "read", "load"} /\ claims' = claims /\ held' = held
        /\ \A p \in Request \ {r} : /\ pc'[p] = pc[p] /\ cmd'[p] = cmd[p]
                                    /\ snap'[p] = snap[p]
    BY <1>4 DEF BeginRelocate, BeginUpdate, RelocateRead, UpdateLoad, UpdateRead, Go
  <2>2. q # r
    BY <1>0, <2>1 DEF Owns
  <2> QED
    BY <1>0, <2>1, <2>2 DEF Owns
<1>5. ASSUME NEW r \in Request, RelocateConflicts(r) \/ RelocateSlotCheck(r) \/ UpdateWrite(r)
      PROVE  Owns(q, c)'
  <2>1. /\ pc[r] \in {"conflicts", "slot", "write"} /\ claims' = claims
        /\ UNCHANGED <<cmd, snap, held>>
        /\ \A p \in Request \ {r} : pc'[p] = pc[p]
    BY <1>5 DEF RelocateConflicts, RelocateSlotCheck, UpdateWrite, Go
  <2>2. q # r
    BY <1>0, <2>1 DEF Owns
  <2> QED
    BY <1>1, <2>1, <2>2
<1>6. ASSUME NEW r \in Request, RelocateSwap(r) PROVE Owns(q, c)'
  BY <1>1, <1>6 DEF RelocateSwap, Go
<1>7. ASSUME NEW r \in Request, NEW s \in Schedule, Write(r, s) PROVE Owns(q, c)'
  <2>1. /\ claims' = claims /\ UNCHANGED <<cmd, snap, held>>
        /\ pc' = [pc EXCEPT ![r] = "ok"]
    BY <1>7 DEF Write, BumpVersion, BulkWrite, ProjectMove, SoftDelete, Restore, OneStep, Go
  <2> QED
    BY <1>1, <2>1
<1>8. ASSUME NEW r \in Request, Crash(r) PROVE Owns(q, c)'
  BY <1>1, <1>8 DEF Crash, Go
<1>9. ASSUME NEW d \in Employee \X Slot, ExpireClaim(d) PROVE Owns(q, c)'
  BY <1>1, <1>9, Distinguished DEF ExpireClaim
<1>10. CASE UNCHANGED vars
  BY <1>1, <1>10 DEF vars
<1> QED
  BY <1>2, <1>3, <1>4, <1>5, <1>6, <1>7, <1>8, <1>9, <1>10 DEF Next, Relocate, Update

\* A relocate that answered 409 holds no claim, in every reachable state.
THEOREM ClaimsTakenBack == Spec => []RefusedHoldsNoClaims
<1>1. Init => Typed /\ ClaimsOwned
  BY TypedInit, Distinguished DEF Init, ClaimsOwned
<1>2. Typed /\ ClaimsOwned /\ [Next]_vars => (Typed /\ ClaimsOwned)'
  BY TypedNext, ClaimsOwnedNext
<1>3. Typed /\ ClaimsOwned => RefusedHoldsNoClaims
  BY DEF Typed, TypeOK, ClaimsOwned, Owns, RefusedHoldsNoClaims
<1> QED
  BY <1>1, <1>2, <1>3, PTL DEF Spec

-----------------------------------------------------------------------------
(* Two live schedules that relocate placed never share an employee and a   *)
(* slot (RelocationExclusive), for every number of requests and employees. *)
(*                                                                         *)
(* The argument: when relocate r swaps a schedule into a slot, look at any *)
(* other schedule in that slot that a relocate q placed and that shares an *)
(* employee e with r's. Had q's write been there when r ran its slot query *)
(* r would have been refused, so q wrote after it and the two requests     *)
(* overlapped (Rivals). A claim of q outlives every request q overlapped   *)
(* (PlacedClaims), so q still owns the claim on e's slot. But r owns it    *)
(* too (HeldOwned). That r claimed for the employees it places is the      *)
(* freshness of its snapshot, which needs pinned updates.                  *)

Settled(q) == \A p \in overlapped[q] : pc[p] \in Ended

Concurrent == \A r, q \in Relocating : r # q => r \in overlapped[q]

HeldOwned ==
  \A r \in Request :
    pc[r] \in {"claim", "undo"} =>
      \A i \in 1..held[r] : claims[<<snap[r].staff[i], cmd[r].slot>>] = r

PlacedBy ==
  \A s \in Schedule, q \in Request :
    placed[s] = q =>
      /\ pc[q] = "ok" /\ cmd[q] \in RelocateCommand /\ snap[q] \in Doc
      /\ doc[s].slot = cmd[q].slot /\ doc[s].staff = snap[q].staff

PlacedClaims ==
  \A s \in Schedule, q \in Request :
    placed[s] = q =>
      \/ \A i \in 1..Len(snap[q].staff) : claims[<<snap[q].staff[i], cmd[q].slot>>] = q
      \/ Settled(q)

Sharing(st, su) == Range(st) \cap Range(su) # {}

Rivals ==
  \A r, q \in Request, s \in Schedule :
    /\ pc[r] = "claim" /\ placed[s] = q /\ s # cmd[r].sid /\ doc[s].live
    /\ doc[s].slot = cmd[r].slot /\ Sharing(doc[s].staff, snap[r].staff)
    => r \in overlapped[q]

\* The inductive invariant.
IInv ==
  /\ Typed /\ SnapshotsFresh /\ Concurrent /\ HeldOwned
  /\ PlacedBy /\ PlacedClaims /\ Rivals /\ RelocationExclusive

LEMMA IInvInit == Init => IInv
<1> SUFFICES ASSUME Init PROVE IInv
  OBVIOUS
<1>1. Typed /\ SnapshotsFresh
  BY TypedInit, FreshInit
<1>2. Concurrent /\ HeldOwned
  BY DEF Init, Concurrent, Relocating, InFlight, HeldOwned
<1>3. PlacedBy /\ PlacedClaims /\ Rivals /\ RelocationExclusive
  BY Distinguished DEF Init, PlacedBy, PlacedClaims, Rivals, RelocationExclusive
<1> QED
  BY <1>1, <1>2, <1>3 DEF IInv

-----------------------------------------------------------------------------
(* What a step leaves alone.                                               *)

\* The claims of a relocate are claims.
LEMMA ClaimDomain ==
  ASSUME NEW d \in Doc, NEW i \in 1..Len(d.staff), NEW x \in Slot
  PROVE  <<d.staff[i], x>> \in Employee \X Slot
<1>1. d.staff \in Seq(Employee)
  BY StaffLists DEF Doc
<1> QED
  BY <1>1

\* A request that has ended is not touched any more.
LEMMA EndedStays ==
  ASSUME Typed, [Next]_vars, NEW q \in Request, pc[q] \in Ended
  PROVE  /\ pc'[q] = pc[q] /\ cmd'[q] = cmd[q] /\ snap'[q] = snap[q]
         /\ overlapped'[q] = overlapped[q]
<1> USE DEF Typed, TypeOK, Ended, Go
<1> DEFINE Goal == /\ pc'[q] = pc[q] /\ cmd'[q] = cmd[q] /\ snap'[q] = snap[q]
                   /\ overlapped'[q] = overlapped[q]
<1>1. ASSUME NEW r \in Request, BeginRelocate(r) PROVE Goal
  <2>1. q # r /\ q \notin Relocating
    BY <1>1 DEF BeginRelocate, Relocating, InFlight
  <2> QED
    BY <1>1, <2>1 DEF BeginRelocate
<1>2. ASSUME NEW r \in Request,
             \/ RelocateRead(r) \/ RelocateConflicts(r) \/ RelocateSlotCheck(r)
             \/ RelocateClaim(r) \/ RelocateSwap(r) \/ RelocateUndo(r)
      PROVE  Goal
  BY <1>2 DEF RelocateRead, RelocateConflicts, RelocateSlotCheck, RelocateClaim,
              RelocateSwap, RelocateUndo
<1>3. ASSUME NEW r \in Request, Update(r) \/ Crash(r) PROVE Goal
  BY <1>3 DEF Update, BeginUpdate, UpdateLoad, UpdateRead, UpdateWrite, Crash, InFlight
<1>4. ASSUME NEW r \in Request, NEW s \in Schedule, Write(r, s) PROVE Goal
  BY <1>4 DEF Write, BumpVersion, BulkWrite, ProjectMove, SoftDelete, Restore, OneStep
<1>5. ASSUME NEW c \in Employee \X Slot, ExpireClaim(c) PROVE Goal
  BY <1>5 DEF ExpireClaim
<1>6. CASE UNCHANGED vars
  BY <1>6 DEF vars
<1> QED
  BY <1>1, <1>2, <1>3, <1>4, <1>5, <1>6 DEF Next, Relocate

\* Only BeginRelocate makes a request relocate or overlap another.
LEMMA RelocatingStep ==
  ASSUME Typed, [Next]_vars
  PROVE  \/ Relocating' \subseteq Relocating /\ overlapped' = overlapped
         \/ \E r \in Request : BeginRelocate(r)
<1> USE DEF Typed, TypeOK, Ended, Go, Relocating, InFlight
<1> DEFINE Goal == Relocating' \subseteq Relocating /\ overlapped' = overlapped
<1>1. ASSUME NEW r \in Request, RelocateRead(r) PROVE Goal
  BY <1>1 DEF RelocateRead
<1>2. ASSUME NEW r \in Request,
             \/ RelocateConflicts(r) \/ RelocateSlotCheck(r)
             \/ RelocateClaim(r) \/ RelocateSwap(r) \/ RelocateUndo(r)
      PROVE  Goal
  BY <1>2 DEF RelocateConflicts, RelocateSlotCheck, RelocateClaim,
              RelocateSwap, RelocateUndo, RequestShape, RelocateCommand
<1>3. ASSUME NEW r \in Request, BeginUpdate(r) PROVE Goal
  <2>1. cmd'[r].op = "update" /\ overlapped' = overlapped
    BY <1>3 DEF BeginUpdate
  <2>2. \A q \in Request \ {r} : pc'[q] = pc[q] /\ cmd'[q] = cmd[q]
    BY <1>3 DEF BeginUpdate
  <2> QED
    BY <2>1, <2>2
<1>4. ASSUME NEW r \in Request, UpdateLoad(r) \/ UpdateRead(r) \/ UpdateWrite(r)
      PROVE  Goal
  BY <1>4 DEF UpdateLoad, UpdateRead, UpdateWrite
<1>5. ASSUME NEW r \in Request, Crash(r) PROVE Goal
  BY <1>5 DEF Crash
<1>6. ASSUME NEW r \in Request, NEW s \in Schedule, Write(r, s) PROVE Goal
  <2>1. pc' = [pc EXCEPT ![r] = "ok"] /\ UNCHANGED <<cmd, overlapped>>
    BY <1>6 DEF Write, BumpVersion, BulkWrite, ProjectMove, SoftDelete, Restore, OneStep
  <2> QED
    BY <2>1
<1>7. ASSUME NEW c \in Employee \X Slot, ExpireClaim(c) PROVE Goal
  BY <1>7 DEF ExpireClaim
<1>8. CASE UNCHANGED vars
  BY <1>8 DEF vars
<1> QED
  BY <1>1, <1>2, <1>3, <1>4, <1>5, <1>6, <1>7, <1>8 DEF Next, Relocate, Update

LEMMA ConcurrentNext == Typed /\ Concurrent /\ [Next]_vars => Concurrent'
<1> SUFFICES ASSUME Typed, Concurrent, [Next]_vars,
                    NEW r \in Relocating', NEW q \in Relocating', r # q
             PROVE  r \in overlapped'[q]
  BY DEF Concurrent
<1>0. r \in Request /\ q \in Request
  BY DEF Relocating, InFlight
<1>1. CASE Relocating' \subseteq Relocating /\ overlapped' = overlapped
  BY <1>1 DEF Concurrent
<1>2. ASSUME NEW p \in Request, BeginRelocate(p) PROVE r \in overlapped'[q]
  <2>1. Relocating' \subseteq Relocating \cup {p}
    BY <1>2 DEF BeginRelocate, Relocating, InFlight, Go, Typed, TypeOK
  <2>2. p \notin Relocating
    BY <1>2 DEF BeginRelocate, Relocating, InFlight
  <2>3. /\ overlapped'[p] = Relocating
        /\ \A u \in Relocating : overlapped'[u] = overlapped[u] \cup {p}
    BY <1>2, <2>2 DEF BeginRelocate, Relocating, InFlight
  <2> QED
    BY <2>1, <2>2, <2>3 DEF Concurrent
<1> QED
  BY <1>1, <1>2, RelocatingStep

-----------------------------------------------------------------------------
(* Who owns a claim.                                                       *)

\* A claim changes hands only when its owner takes it back, or when the owner
\* and everyone it overlapped have ended.
LEMMA ClaimStep ==
  ASSUME Typed, HeldOwned, [Next]_vars,
         NEW c \in Employee \X Slot, NEW q \in Request, claims[c] = q
  PROVE  \/ claims'[c] = q
         \/ pc[q] \in Ended /\ Settled(q)
         \/ pc[q] = "undo" /\ RelocateUndo(q)
<1> USE DEF Typed, TypeOK
<1> DEFINE Goal == \/ claims'[c] = q
                   \/ pc[q] \in Ended /\ Settled(q)
                   \/ pc[q] = "undo" /\ RelocateUndo(q)
<1>0. q # None
  BY Distinguished
<1>1. ASSUME NEW r \in Request, RelocateClaim(r) PROVE Goal
  <2>1. claims' = claims \/ \E d \in {c2 \in Employee \X Slot : claims[c2] = None} :
                              claims' = [claims EXCEPT ![d] = r]
    <3>1. held[r] + 1 \in 1..Len(snap[r].staff) /\ snap[r] \in Doc /\ cmd[r].slot \in Slot
      <4>1. snap[r] \in Doc /\ cmd[r] \in RelocateCommand /\ held[r] < Len(snap[r].staff)
        BY <1>1 DEF RelocateClaim, RequestShape
      <4>2. Len(snap[r].staff) \in Nat
        BY <4>1, StaffLists DEF Doc
      <4> QED
        BY <4>1, <4>2 DEF RelocateCommand
    <3>2. ClaimOf(r, held[r] + 1) \in Employee \X Slot
      BY <3>1, ClaimDomain DEF ClaimOf
    <3> QED
      BY <1>1, <3>2 DEF RelocateClaim
  <2> QED
    BY <1>0, <2>1
<1>2. ASSUME NEW r \in Request, RelocateUndo(r) PROVE Goal
  <2>1. /\ pc[r] = "undo"
        /\ claims'[c] = IF c \in Inserted(r) THEN None ELSE claims[c]
    BY <1>2 DEF RelocateUndo
  <2>2. c \in Inserted(r) => claims[c] = r
    BY <2>1 DEF HeldOwned, Inserted, ClaimOf
  <2> QED
    BY <1>2, <2>1, <2>2
<1>3. ASSUME NEW r \in Request,
             \/ BeginRelocate(r) \/ RelocateRead(r) \/ RelocateConflicts(r)
             \/ RelocateSlotCheck(r) \/ RelocateSwap(r) \/ Update(r) \/ Crash(r)
      PROVE  Goal
  BY <1>3 DEF BeginRelocate, RelocateRead, RelocateConflicts, RelocateSlotCheck,
              RelocateSwap, Update, BeginUpdate, UpdateLoad, UpdateRead, UpdateWrite, Crash
<1>4. ASSUME NEW r \in Request, NEW s \in Schedule, Write(r, s) PROVE Goal
  BY <1>4 DEF Write, BumpVersion, BulkWrite, ProjectMove, SoftDelete, Restore, OneStep
<1>5. ASSUME NEW d \in Employee \X Slot, ExpireClaim(d) PROVE Goal
  BY <1>5 DEF ExpireClaim, Settled
<1>6. CASE UNCHANGED vars
  BY <1>6 DEF vars
<1> QED
  BY <1>1, <1>2, <1>3, <1>4, <1>5, <1>6 DEF Next, Relocate

\* A request that claims or takes back has just passed the slot query, has
\* just inserted one more claim, or keeps its list.
LEMMA HoldingStep ==
  ASSUME Typed, [Next]_vars, NEW q \in Request, pc'[q] \in {"claim", "undo"}
  PROVE  \/ held'[q] = 0
         \/ RelocateClaim(q) /\ held'[q] = held[q] + 1
         \/ /\ pc[q] \in {"claim", "undo"} /\ ~RelocateUndo(q)
            /\ cmd'[q] = cmd[q] /\ snap'[q] = snap[q] /\ held'[q] = held[q]
<1> USE DEF Typed, TypeOK, Go
<1> DEFINE Kept == /\ pc[q] \in {"claim", "undo"} /\ ~RelocateUndo(q)
                   /\ cmd'[q] = cmd[q] /\ snap'[q] = snap[q] /\ held'[q] = held[q]
           Goal == \/ held'[q] = 0
                   \/ RelocateClaim(q) /\ held'[q] = held[q] + 1
                   \/ Kept
<1>0. ASSUME RelocateUndo(q) PROVE FALSE
  BY <1>0 DEF RelocateUndo
<1>1. ASSUME NEW r \in Request, RelocateClaim(r) PROVE Goal
  <2>1. CASE q = r
    BY <1>0, <1>1, <2>1 DEF RelocateClaim
  <2>2. CASE q # r
    BY <1>0, <1>1, <2>2 DEF RelocateClaim
  <2> QED
    BY <2>1, <2>2
<1>2. ASSUME NEW r \in Request, RelocateSlotCheck(r) PROVE Goal
  BY <1>0, <1>2 DEF RelocateSlotCheck, RequestShape
<1>3. ASSUME NEW r \in Request,
             BeginRelocate(r) \/ RelocateRead(r) \/ RelocateConflicts(r)
      PROVE  Goal
  BY <1>0, <1>3 DEF BeginRelocate, RelocateRead, RelocateConflicts
<1>4. ASSUME NEW r \in Request, RelocateSwap(r) \/ RelocateUndo(r) \/ Crash(r) PROVE Goal
  BY <1>0, <1>4 DEF RelocateSwap, RelocateUndo, Crash
<1>5. ASSUME NEW r \in Request, Update(r) PROVE Goal
  BY <1>0, <1>5 DEF Update, BeginUpdate, UpdateLoad, UpdateRead, UpdateWrite
<1>6. ASSUME NEW r \in Request, NEW s \in Schedule, Write(r, s) PROVE Goal
  BY <1>0, <1>6 DEF Write, BumpVersion, BulkWrite, ProjectMove, SoftDelete, Restore, OneStep
<1>7. ASSUME NEW c \in Employee \X Slot, ExpireClaim(c) PROVE Goal
  BY <1>0, <1>7 DEF ExpireClaim
<1>8. CASE UNCHANGED vars
  BY <1>0, <1>8 DEF vars
<1> QED
  BY <1>1, <1>2, <1>3, <1>4, <1>5, <1>6, <1>7, <1>8 DEF Next, Relocate

LEMMA HeldOwnedNext == Typed /\ HeldOwned /\ [Next]_vars => HeldOwned'
<1> SUFFICES ASSUME Typed, HeldOwned, [Next]_vars,
                    NEW q \in Request, pc'[q] \in {"claim", "undo"}, NEW i \in 1..held'[q]
             PROVE  claims'[<<snap'[q].staff[i], cmd'[q].slot>>] = q
  BY DEF HeldOwned
<1> DEFINE c == <<snap'[q].staff[i], cmd'[q].slot>>
<1>1. Typed'
  BY TypedNext
<1>2. c \in Employee \X Slot
  <2>1. snap'[q] \in Doc /\ cmd'[q] \in RelocateCommand /\ held'[q] <= Len(snap'[q].staff)
    BY <1>1 DEF Typed, RequestShape
  <2>2. Len(snap'[q].staff) \in Nat /\ held'[q] \in Nat
    BY <1>1, <2>1, StaffLists DEF Doc, Typed, TypeOK
  <2>3. i \in 1..Len(snap'[q].staff)
    BY <2>1, <2>2
  <2> QED
    BY <2>1, <2>3, ClaimDomain DEF RelocateCommand
<1>3. CASE held'[q] = 0
  BY <1>3
<1>4. CASE RelocateClaim(q) /\ held'[q] = held[q] + 1
  <2>1. /\ cmd' = cmd /\ snap' = snap /\ held[q] \in Nat /\ pc[q] = "claim"
        /\ claims' = [claims EXCEPT ![ClaimOf(q, held[q] + 1)] = q]
    BY <1>4 DEF RelocateClaim, Typed, TypeOK
  <2>2. CASE i = held[q] + 1
    BY <1>2, <2>1, <2>2 DEF ClaimOf, Typed, TypeOK
  <2>3. CASE i # held[q] + 1
    <3>1. i \in 1..held[q]
      BY <1>4, <2>1, <2>3
    <3>2. claims[c] = q
      BY <2>1, <3>1 DEF HeldOwned
    <3> QED
      BY <1>2, <2>1, <3>2 DEF Typed, TypeOK
  <2> QED
    BY <2>2, <2>3
<1>5. CASE /\ pc[q] \in {"claim", "undo"} /\ ~RelocateUndo(q)
           /\ cmd'[q] = cmd[q] /\ snap'[q] = snap[q] /\ held'[q] = held[q]
  <2>1. claims[c] = q
    BY <1>5 DEF HeldOwned
  <2>2. pc[q] \notin Ended
    BY <1>5 DEF Ended
  <2> QED
    BY <1>2, <1>5, <2>1, <2>2, ClaimStep
<1> QED
  BY <1>3, <1>4, <1>5, HoldingStep

-----------------------------------------------------------------------------
(* Where relocate put a schedule.                                          *)

\* A successful swap by q, which puts schedule s where q claimed it.
Swapped(q, s) ==
  /\ pc[q] = "claim" /\ held[q] = Len(snap[q].staff) /\ pc'[q] = "ok"
  /\ \A r \in Request \ {q} : pc'[r] = pc[r]
  /\ cmd[q] \in RelocateCommand /\ cmd[q].sid = s
  /\ UNCHANGED <<claims, cmd, snap, overlapped>>
  /\ doc'[s].slot = cmd[q].slot
  /\ doc[s].staff = snap[q].staff /\ doc'[s].staff = snap[q].staff

\* A schedule stays where it was placed, and as it was, or has just been placed.
LEMMA PlacedStep ==
  ASSUME AllPinned, Typed, SnapshotsFresh, [Next]_vars,
         NEW s \in Schedule, NEW q \in Request, placed'[s] = q
  PROVE  \/ /\ placed[s] = q
            /\ doc'[s].slot = doc[s].slot /\ doc'[s].staff = doc[s].staff
            /\ doc'[s].live => doc[s].live
         \/ Swapped(q, s)
<1> USE DEF Typed, TypeOK
<1> DEFINE Same == /\ placed[s] = q
                   /\ doc'[s].slot = doc[s].slot /\ doc'[s].staff = doc[s].staff
                   /\ doc'[s].live => doc[s].live
<1>0. q # None /\ doc[s] \in Doc
  BY Distinguished
<1>1. ASSUME doc' = doc, placed' = placed PROVE Same
  BY <1>1
<1>2. ASSUME NEW r \in Request, RelocateSwap(r) PROVE Same \/ Swapped(q, s)
  <2>1. CASE ~SwapMatches(r)
    BY <1>1, <1>2, <2>1 DEF RelocateSwap
  <2>2. CASE SwapMatches(r)
    <3>1. /\ pc[r] = "claim" /\ held[r] = Len(snap[r].staff)
          /\ doc' = [doc EXCEPT ![cmd[r].sid] = Bumped(Moved(doc[cmd[r].sid], cmd[r].slot))]
          /\ placed' = [placed EXCEPT ![cmd[r].sid] = r]
          /\ pc' = [pc EXCEPT ![r] = "ok"]
          /\ UNCHANGED <<claims, cmd, snap, overlapped>>
      BY <1>2, <2>2 DEF RelocateSwap, Go
    <3>2. CASE s # cmd[r].sid
      BY <3>1, <3>2
    <3>3. CASE s = cmd[r].sid
      <4>1. r = q
        BY <3>1, <3>3
      <4>2. cmd[q] \in RelocateCommand /\ cmd[q].slot \in Slot
        BY <3>1, <4>1 DEF RequestShape, RelocateCommand
      <4>3. doc[s].staff = snap[q].staff
        BY <2>2, <3>1, <3>3, <4>1 DEF SwapMatches, SnapshotsFresh, Relying, NotOlder
      <4>4. doc'[s] = Bumped(Moved(doc[s], cmd[q].slot))
        BY <3>1, <3>3, <4>1
      <4>5. Moved(doc[s], cmd[q].slot) \in Doc
        BY <1>0, <4>2, DocEdits
      <4>6. doc'[s].slot = cmd[q].slot /\ doc'[s].staff = doc[s].staff
        BY <1>0, <4>2, <4>4, <4>5, EditedFields
      <4> QED
        BY <3>1, <3>3, <4>1, <4>2, <4>3, <4>6 DEF Swapped
    <3> QED
      BY <3>2, <3>3
  <2> QED
    BY <2>1, <2>2
<1>3. ASSUME NEW r \in Request, UpdateWrite(r) PROVE Same
  <2>1. CASE WriteMatches(r)
    <3>1. /\ doc' = [doc EXCEPT ![cmd[r].sid] = Edited(r)]
          /\ placed' = [placed EXCEPT ![cmd[r].sid] = None]
      BY <1>3, <2>1 DEF UpdateWrite
    <3>2. s # cmd[r].sid
      BY <1>0, <3>1
    <3> QED
      BY <3>1, <3>2
  <2>2. CASE ~WriteMatches(r)
    BY <1>1, <1>3, <2>2 DEF UpdateWrite
  <2> QED
    BY <2>1, <2>2
<1>4. ASSUME NEW r \in Request, NEW u \in Schedule, Write(r, u) PROVE Same
  <2>1. CASE BumpVersion(r, u)
    <3>1. /\ placed' = placed
          /\ doc'[s] \in {doc[s], Bumped(doc[s])}
      BY <2>1 DEF BumpVersion
    <3>2. /\ Bumped(doc[s]).slot = doc[s].slot /\ Bumped(doc[s]).staff = doc[s].staff
          /\ Bumped(doc[s]).live = doc[s].live
      BY <1>0, EditedFields
    <3> QED
      BY <3>1, <3>2
  <2>2. CASE SoftDelete(r, u)
    <3>1. placed' = placed /\ doc'[s] \in {doc[s], Alive(doc[s], FALSE)}
      BY <2>2 DEF SoftDelete
    <3>2. /\ Alive(doc[s], FALSE).slot = doc[s].slot
          /\ Alive(doc[s], FALSE).staff = doc[s].staff
          /\ Alive(doc[s], FALSE).live = FALSE
      BY <1>0 DEF Alive, Doc
    <3> QED
      BY <3>1, <3>2
  <2>3. ASSUME placed' = [placed EXCEPT ![u] = None], NEW d, doc' = [doc EXCEPT ![u] = d]
        PROVE  Same
    BY <1>0, <2>3
  <2>4. CASE \E x \in Slot, st \in Staff : BulkWrite(r, u, x, st)
    BY <2>3, <2>4 DEF BulkWrite
  <2>5. CASE \E x \in Slot : ProjectMove(r, u, x)
    BY <2>3, <2>5 DEF ProjectMove
  <2>6. CASE Restore(r, u)
    BY <2>3, <2>6 DEF Restore
  <2> QED
    BY <1>4, <2>1, <2>2, <2>4, <2>5, <2>6 DEF Write
<1>5. ASSUME NEW r \in Request,
             \/ BeginRelocate(r) \/ RelocateRead(r) \/ RelocateConflicts(r)
             \/ RelocateSlotCheck(r) \/ RelocateClaim(r) \/ RelocateUndo(r)
             \/ BeginUpdate(r) \/ UpdateLoad(r) \/ UpdateRead(r) \/ Crash(r)
      PROVE  Same
  BY <1>1, <1>5 DEF BeginRelocate, RelocateRead, RelocateConflicts, RelocateSlotCheck,
              RelocateClaim, RelocateUndo, BeginUpdate, UpdateLoad, UpdateRead, Crash
<1>6. ASSUME NEW c \in Employee \X Slot, ExpireClaim(c) PROVE Same
  BY <1>1, <1>6 DEF ExpireClaim
<1>7. CASE UNCHANGED vars
  BY <1>1, <1>7 DEF vars
<1> QED
  BY <1>2, <1>3, <1>4, <1>5, <1>6, <1>7 DEF Next, Relocate, Update

LEMMA PlacedByNext ==
  AllPinned /\ Typed /\ SnapshotsFresh /\ PlacedBy /\ [Next]_vars => PlacedBy'
<1> SUFFICES ASSUME AllPinned, Typed, SnapshotsFresh, PlacedBy, [Next]_vars,
                    NEW s \in Schedule, NEW q \in Request, placed'[s] = q
             PROVE  /\ pc'[q] = "ok" /\ cmd'[q] \in RelocateCommand /\ snap'[q] \in Doc
                    /\ doc'[s].slot = cmd'[q].slot /\ doc'[s].staff = snap'[q].staff
  BY DEF PlacedBy
<1>1. CASE /\ placed[s] = q
           /\ doc'[s].slot = doc[s].slot /\ doc'[s].staff = doc[s].staff
  <2>1. pc[q] \in Ended
    BY <1>1 DEF PlacedBy, Ended
  <2> QED
    BY <1>1, <2>1, EndedStays DEF PlacedBy
<1>2. CASE Swapped(q, s)
  BY <1>2 DEF Swapped, Typed, RequestShape
<1> QED
  BY <1>1, <1>2, PlacedStep

\* Once everyone a request overlapped has ended, this stays so.
LEMMA SettledStays ==
  ASSUME Typed, [Next]_vars, NEW q \in Request, pc[q] \in Ended, Settled(q)
  PROVE  \A p \in overlapped'[q] : pc'[p] \in Ended
<1>1. overlapped'[q] = overlapped[q] /\ overlapped[q] \subseteq Request
  BY EndedStays DEF Typed, TypeOK
<1>2. ASSUME NEW p \in overlapped[q] PROVE pc'[p] \in Ended
  BY <1>1, <1>2, EndedStays DEF Settled
<1> QED
  BY <1>1, <1>2

LEMMA PlacedClaimsNext ==
  /\ AllPinned /\ Typed /\ SnapshotsFresh /\ HeldOwned
  /\ PlacedBy /\ PlacedClaims /\ [Next]_vars
  => PlacedClaims'
<1> SUFFICES ASSUME AllPinned, Typed, SnapshotsFresh, HeldOwned, PlacedBy, PlacedClaims,
                    [Next]_vars, NEW s \in Schedule, NEW q \in Request, placed'[s] = q
             PROVE  \/ \A i \in 1..Len(snap'[q].staff) :
                         claims'[<<snap'[q].staff[i], cmd'[q].slot>>] = q
                    \/ \A p \in overlapped'[q] : pc'[p] \in Ended
  BY DEF PlacedClaims, Settled
<1>1. CASE placed[s] = q
  <2>1. pc[q] = "ok" /\ pc[q] \in Ended /\ snap[q] \in Doc /\ cmd[q].slot \in Slot
    BY <1>1 DEF PlacedBy, Ended, RelocateCommand
  <2>2. CASE Settled(q)
    BY <2>1, <2>2, SettledStays
  <2>3. CASE /\ ~Settled(q)
             /\ \A i \in 1..Len(snap[q].staff) : claims[<<snap[q].staff[i], cmd[q].slot>>] = q
    <3>1. ASSUME NEW i \in 1..Len(snap[q].staff)
          PROVE  claims'[<<snap[q].staff[i], cmd[q].slot>>] = q
      <4>1. <<snap[q].staff[i], cmd[q].slot>> \in Employee \X Slot
        BY <2>1, ClaimDomain
      <4> QED
        BY <2>1, <2>3, <4>1, ClaimStep
    <3> QED
      BY <2>1, <3>1, EndedStays
  <2> QED
    BY <1>1, <2>2, <2>3 DEF PlacedClaims
<1>2. CASE Swapped(q, s)
  BY <1>2 DEF Swapped, HeldOwned
<1> QED
  BY <1>1, <1>2, PlacedStep

-----------------------------------------------------------------------------
(* Rivals.                                                                 *)

\* A request that claims was claiming already or has just found the slot free.
LEMMA ClaimingStep ==
  ASSUME Typed, [Next]_vars, NEW r \in Request, pc'[r] = "claim"
  PROVE  /\ cmd'[r] = cmd[r] /\ snap'[r] = snap[r]
         /\ \/ pc[r] = "claim"
            \/ /\ pc[r] = "slot" /\ doc' = doc
               /\ \A t \in Booked(cmd[r].sid, Range(snap[r].staff)) :
                    <<doc[t].slot, cmd[r].slot>> \notin Overlap
<1> USE DEF Typed, TypeOK, Go
<1> DEFINE Still == cmd'[r] = cmd[r] /\ snap'[r] = snap[r] /\ pc[r] = "claim"
           Free == /\ pc[r] = "slot" /\ doc' = doc
                   /\ \A t \in Booked(cmd[r].sid, Range(snap[r].staff)) :
                        <<doc[t].slot, cmd[r].slot>> \notin Overlap
           Goal == Still \/ (cmd'[r] = cmd[r] /\ snap'[r] = snap[r] /\ Free)
<1>1. ASSUME NEW q \in Request, RelocateSlotCheck(q) PROVE Goal
  <2>1. CASE q = r
    BY <1>1, <2>1 DEF RelocateSlotCheck
  <2>2. CASE q # r
    BY <1>1, <2>2 DEF RelocateSlotCheck
  <2> QED
    BY <2>1, <2>2
<1>2. ASSUME NEW q \in Request,
             \/ BeginRelocate(q) \/ RelocateRead(q) \/ RelocateConflicts(q)
             \/ RelocateClaim(q) \/ RelocateSwap(q) \/ RelocateUndo(q) \/ Crash(q)
      PROVE  Still
  BY <1>2 DEF BeginRelocate, RelocateRead, RelocateConflicts, RelocateClaim,
              RelocateSwap, RelocateUndo, Crash
<1>3. ASSUME NEW q \in Request, Update(q) PROVE Still
  BY <1>3 DEF Update, BeginUpdate, UpdateLoad, UpdateRead, UpdateWrite
<1>4. ASSUME NEW q \in Request, NEW s \in Schedule, Write(q, s) PROVE Still
  BY <1>4 DEF Write, BumpVersion, BulkWrite, ProjectMove, SoftDelete, Restore, OneStep
<1>5. ASSUME NEW c \in Employee \X Slot, ExpireClaim(c) PROVE Still
  BY <1>5 DEF ExpireClaim
<1>6. CASE UNCHANGED vars
  BY <1>6 DEF vars
<1> QED
  BY <1>1, <1>2, <1>3, <1>4, <1>5, <1>6 DEF Next, Relocate

LEMMA RivalsNext ==
  /\ AllPinned /\ Typed /\ SnapshotsFresh /\ Concurrent /\ PlacedBy /\ Rivals
  /\ [Next]_vars
  => Rivals'
<1> SUFFICES ASSUME AllPinned, Typed, SnapshotsFresh, Concurrent, PlacedBy, Rivals,
                    [Next]_vars,
                    NEW r \in Request, NEW q \in Request, NEW s \in Schedule,
                    pc'[r] = "claim", placed'[s] = q, s # cmd'[r].sid, doc'[s].live,
                    doc'[s].slot = cmd'[r].slot, Sharing(doc'[s].staff, snap'[r].staff)
             PROVE  r \in overlapped'[q]
  BY DEF Rivals, Sharing
<1>1. cmd'[r] = cmd[r] /\ snap'[r] = snap[r]
  BY ClaimingStep
<1>2. CASE Swapped(q, s)
  <2>1. pc[r] = "claim" /\ r # q
    BY <1>2 DEF Swapped
  <2>2. r \in Relocating /\ q \in Relocating
    BY <1>2, <2>1 DEF Swapped, Relocating, InFlight, Ended, Typed, RequestShape, RelocateCommand
  <2> QED
    BY <1>2, <2>1, <2>2 DEF Concurrent, Swapped
<1>3. CASE /\ placed[s] = q
           /\ doc'[s].slot = doc[s].slot /\ doc'[s].staff = doc[s].staff
           /\ doc'[s].live => doc[s].live
  <2>1. overlapped'[q] = overlapped[q]
    BY <1>3, EndedStays DEF PlacedBy, Ended
  <2>2. CASE pc[r] = "claim"
    BY <1>1, <1>3, <2>1, <2>2 DEF Rivals
  <2>3. ASSUME \A t \in Booked(cmd[r].sid, Range(snap[r].staff)) :
                 <<doc[t].slot, cmd[r].slot>> \notin Overlap
        PROVE  FALSE
    <3>1. s \in Booked(cmd[r].sid, Range(snap[r].staff))
      BY <1>1, <1>3 DEF Booked, Sharing
    <3>2. doc[s].slot = cmd[r].slot /\ doc[s].slot \in Slot
      BY <1>1, <1>3 DEF Typed, TypeOK, Doc
    <3> QED
      BY <2>3, <3>1, <3>2, SlotRelations
  <2> QED
    BY <2>2, <2>3, ClaimingStep
<1> QED
  BY <1>2, <1>3, PlacedStep

-----------------------------------------------------------------------------
(* The theorems.                                                           *)

\* A swap does not put a schedule beside one that relocate placed before.
LEMMA NoRivalPlaced ==
  ASSUME IInv, NEW q \in Request, NEW p \in Request, NEW s \in Schedule, NEW t \in Schedule,
         Swapped(q, s), placed[t] = p, t # s, doc[t].live, doc[t].slot = cmd[q].slot,
         Sharing(doc[t].staff, snap[q].staff)
  PROVE  FALSE
<1>1. pc[q] = "claim" /\ cmd[q].sid = s /\ held[q] = Len(snap[q].staff)
  BY DEF Swapped
<1>2. q \in overlapped[p]
  BY <1>1 DEF IInv, Rivals
<1>3. ~Settled(p)
  BY <1>1, <1>2 DEF Settled, Ended
<1>4. \A i \in 1..Len(snap[p].staff) : claims[<<snap[p].staff[i], cmd[p].slot>>] = p
  BY <1>3 DEF IInv, PlacedClaims
<1>5. \A i \in 1..Len(snap[q].staff) : claims[<<snap[q].staff[i], cmd[q].slot>>] = q
  BY <1>1 DEF IInv, HeldOwned
<1>6. pc[p] = "ok" /\ doc[t].staff = snap[p].staff /\ doc[t].slot = cmd[p].slot
      /\ snap[p] \in Doc
  BY DEF IInv, PlacedBy
<1>7. snap[q] \in Doc
  BY <1>1 DEF IInv, Typed, RequestShape
<1>8. PICK e : e \in Range(snap[p].staff) /\ e \in Range(snap[q].staff)
  BY <1>6 DEF Sharing
<1>9. snap[p].staff \in Seq(Employee) /\ snap[q].staff \in Seq(Employee)
  BY <1>6, <1>7, StaffLists DEF Doc
<1>10. PICK i \in 1..Len(snap[p].staff), j \in 1..Len(snap[q].staff) :
         e = snap[p].staff[i] /\ e = snap[q].staff[j]
  BY <1>8, <1>9 DEF Range
<1>11. claims[<<e, cmd[q].slot>>] = p /\ claims[<<e, cmd[q].slot>>] = q
  BY <1>4, <1>5, <1>6, <1>10
<1> QED
  BY <1>1, <1>6, <1>11

LEMMA ExclusiveNext ==
  ASSUME AllPinned, IInv, [Next]_vars
  PROVE  RelocationExclusive'
<1> SUFFICES ASSUME NEW s \in Schedule, NEW t \in Schedule, s # t,
                    doc'[s].live, doc'[t].live, placed'[s] # None, placed'[t] # None,
                    doc'[s].slot = doc'[t].slot, Sharing(doc'[s].staff, doc'[t].staff)
             PROVE  FALSE
  BY DEF RelocationExclusive, Sharing
<1>1. Typed' /\ Typed
  BY TypedNext DEF IInv
<1>2. PICK q \in Request, p \in Request : placed'[s] = q /\ placed'[t] = p
  BY <1>1 DEF Typed, TypeOK
<1> DEFINE Old(u, r) == /\ placed[u] = r
                        /\ doc'[u].slot = doc[u].slot /\ doc'[u].staff = doc[u].staff
                        /\ doc'[u].live => doc[u].live
<1>3. (Old(s, q) \/ Swapped(q, s)) /\ (Old(t, p) \/ Swapped(p, t))
  BY <1>2, PlacedStep DEF IInv
<1>4. CASE Old(s, q) /\ Old(t, p)
  BY <1>4, <1>2, Distinguished DEF IInv, RelocationExclusive, Sharing
<1>5. CASE Swapped(q, s) /\ Old(t, p)
  <2>1. Sharing(doc[t].staff, snap[q].staff)
    BY <1>5 DEF Swapped, Sharing
  <2>2. doc[t].slot = cmd[q].slot
    BY <1>5 DEF Swapped
  <2> QED
    BY <1>5, <2>1, <2>2, NoRivalPlaced
<1>6. CASE Old(s, q) /\ Swapped(p, t)
  <2>1. Sharing(doc[s].staff, snap[p].staff)
    BY <1>6 DEF Swapped, Sharing
  <2>2. doc[s].slot = cmd[p].slot
    BY <1>6 DEF Swapped
  <2> QED
    BY <1>6, <2>1, <2>2, NoRivalPlaced
<1>7. CASE Swapped(q, s) /\ Swapped(p, t)
  BY <1>7 DEF Swapped
<1> QED
  BY <1>3, <1>4, <1>5, <1>6, <1>7

LEMMA IInvNext == ASSUME AllPinned PROVE IInv /\ [Next]_vars => IInv'
<1> SUFFICES ASSUME IInv, [Next]_vars PROVE IInv'
  OBVIOUS
<1>1. Typed' /\ SnapshotsFresh'
  BY TypedNext, FreshNext DEF IInv
<1>2. Concurrent' /\ HeldOwned'
  BY ConcurrentNext, HeldOwnedNext DEF IInv
<1>3. PlacedBy' /\ PlacedClaims' /\ Rivals'
  BY PlacedByNext, PlacedClaimsNext, RivalsNext DEF IInv
<1>4. RelocationExclusive'
  BY ExclusiveNext
<1> QED
  BY <1>1, <1>2, <1>3, <1>4 DEF IInv

\* When every PUT is pinned, two live schedules that relocate placed on the
\* same slot share no employee.
THEOREM ExclusiveRelocation ==
  ASSUME AllPinned
  PROVE  Spec => []RelocationExclusive
<1>1. IInv /\ [Next]_vars => IInv'
  BY IInvNext
<1>2. IInv => RelocationExclusive
  BY DEF IInv
<1> QED
  BY <1>1, <1>2, IInvInit, PTL DEF Spec

\* When every PUT is pinned, the employees of the schedule a relocate swaps
\* are those it claimed the slot for.
THEOREM RelocationMovesClaimed ==
  ASSUME AllPinned
  PROVE  Spec => RelocatesWhatItClaimed
<1>1. IInv /\ [Next]_vars =>
        [\A s \in Schedule : placed'[s] \notin {None, placed[s]} =>
           doc[s].staff = snap[placed'[s]].staff]_vars
  <2> SUFFICES ASSUME IInv, [Next]_vars, NEW s \in Schedule,
                      placed'[s] \notin {None, placed[s]}
               PROVE  doc[s].staff = snap[placed'[s]].staff
    OBVIOUS
  <2>1. placed'[s] \in Request
    BY TypedNext DEF IInv, Typed, TypeOK
  <2>2. Swapped(placed'[s], s)
    BY <2>1, PlacedStep DEF IInv
  <2> QED
    BY <2>2 DEF Swapped
<1>2. IInv /\ [Next]_vars => IInv'
  BY IInvNext
<1> QED
  BY <1>1, <1>2, IInvInit, PTL DEF Spec, RelocatesWhatItClaimed
=============================================================================
