----------------------------- MODULE Schedules -----------------------------
(***************************************************************************)
(* The schedule documents of routers/schedule_crud.py and the writers that *)
(* race on them: relocate (slot check, slot claims, compare-and-swap),     *)
(* update (optionally pinned to a version), the one-step writers (status,  *)
(* series, bulk, project date sync), soft delete and restore.              *)
(*                                                                         *)
(* Every HTTP request is a process that runs between two awaits in one     *)
(* step; MongoDB applies each single-document operation atomically. The    *)
(* deployment's mongo is a standalone server, so relocate runs on its      *)
(* non-transactional path (_run_relocate_with_fallback).                   *)
(*                                                                         *)
(* A slot stands for (date, start_time, end_time); two slots of the model  *)
(* differ in date or start_time, which is what the swap of relocate pins.  *)
(***************************************************************************)
EXTENDS Naturals, Sequences, FiniteSets, Functions

CONSTANTS
  Schedule,      \* schedule ids
  Employee,      \* employee ids
  Slot,          \* (date, start_time, end_time) triples
  Staff,         \* the employee_ids lists a schedule may carry
  Overlap,       \* pairs of slots whose times intersect
  Padded,        \* pairs that intersect once drive time is added around them
  Request,       \* HTTP requests, each used once
  Commands,      \* the relocates and updates that may be asked for
  ProjectSync,   \* whether PUT /projects moves the date of a linked schedule
  Crashes,       \* whether an API process may die in the middle of a request
  None,          \* no request
  Keep           \* a field the body of a PUT leaves out

ASSUME SlotRelations == /\ Overlap \in SUBSET (Slot \X Slot)
                        /\ Padded \in SUBSET (Slot \X Slot)
                        /\ \A x \in Slot : <<x, x>> \in Overlap

\* _fetch_employees answers 404 to a list that names an employee twice.
ASSUME StaffLists == /\ Staff \in SUBSET Seq(Employee)
                     /\ \A st \in Staff : /\ st # <<>>
                                          /\ \A i, j \in 1..Len(st) :
                                               st[i] = st[j] => i = j

\* A relocate names a slot; an update names a slot, employees or both, and
\* is pinned when its body carries expected_version.
RelocateCommand ==
  [op : {"relocate"}, sid : Schedule, slot : Slot, force : BOOLEAN]
UpdateCommand ==
  [op : {"update"}, sid : Schedule, slot : Slot \cup {Keep},
   staff : Staff \cup {Keep}, pinned : BOOLEAN]
Command == RelocateCommand \cup UpdateCommand

ASSUME Choices == /\ Commands \in SUBSET Command
                  /\ ProjectSync \in BOOLEAN
                  /\ Crashes \in BOOLEAN

ASSUME Distinguished == None \notin Request /\ Keep \notin Slot \cup Staff

VARIABLES
  doc,         \* db.schedules
  claims,      \* db.schedule_slot_claims: <<employee, slot>> to its owner
  pc,          \* where each request stands
  cmd,         \* what each request was asked to do
  snap,        \* the schedule as the request (or its client) last read it
  held,        \* how many claims a relocate has inserted
  overlapped,  \* the relocates that ran at some time while this one did
  placed       \* the relocate that put a schedule where it is, if one did

vars == <<doc, claims, pc, cmd, snap, held, overlapped, placed>>

-----------------------------------------------------------------------------
Doc == [slot : Slot, staff : Staff, version : Nat, live : BOOLEAN]

\* What the writers do to a document.
Moved(d, x) == [d EXCEPT !.slot = x]
Restaffed(d, st) == [d EXCEPT !.staff = st]
WithVersion(d, v) == [d EXCEPT !.version = v]
Bumped(d) == WithVersion(d, d.version + 1)
Alive(d, l) == [d EXCEPT !.live = l]

Ended == {"ok", "refused", "missing", "crashed"}
InFlight == {r \in Request : pc[r] \notin Ended \cup {"new"}}
Relocating == {r \in InFlight : cmd[r].op = "relocate"}

\* The claim documents relocate r inserts, in the order of employee_ids.
ClaimOf(r, i) == <<snap[r].staff[i], cmd[r].slot>>
Inserted(r) == {ClaimOf(r, i) : i \in 1..held[r]}

\* Live schedules other than s that one of the employees S is booked on.
Booked(s, S) ==
  {t \in Schedule \ {s} : doc[t].live /\ Range(doc[t].staff) \cap S # {}}

Go(r, label) == pc' = [pc EXCEPT ![r] = label]

-----------------------------------------------------------------------------
Init ==
  /\ doc \in [Schedule -> {[slot |-> x, staff |-> st, version |-> 1, live |-> TRUE] :
                            x \in Slot, st \in Staff}]
  /\ claims = [c \in Employee \X Slot |-> None]
  /\ pc = [r \in Request |-> "new"]
  /\ cmd = [r \in Request |-> None]
  /\ snap = [r \in Request |-> None]
  /\ held = [r \in Request |-> 0]
  /\ overlapped = [r \in Request |-> {}]
  /\ placed = [s \in Schedule |-> None]

-----------------------------------------------------------------------------
(* Relocate: relocate_schedule with its helpers.                           *)

\* PUT /schedules/{s}/relocate arrives.
BeginRelocate(r) ==
  /\ pc[r] = "new"
  /\ \E k \in Commands :
       /\ k.op = "relocate"
       /\ cmd' = [cmd EXCEPT ![r] = k]
  /\ overlapped' = [q \in Request |->
                      IF q = r THEN Relocating
                      ELSE IF q \in Relocating THEN overlapped[q] \cup {r}
                      ELSE overlapped[q]]
  /\ Go(r, "read")
  /\ UNCHANGED <<doc, claims, snap, held, placed>>

\* schedules_repo.get_by_id
RelocateRead(r) ==
  /\ pc[r] = "read" /\ cmd[r].op = "relocate"
  /\ \/ /\ doc[cmd[r].sid].live
        /\ snap' = [snap EXCEPT ![r] = doc[cmd[r].sid]]
        /\ Go(r, "conflicts")
     \/ /\ ~doc[cmd[r].sid].live
        /\ Go(r, "missing")
        /\ UNCHANGED snap
  /\ UNCHANGED <<doc, claims, cmd, held, overlapped, placed>>

\* _check_relocate_conflicts: the first employee only, drive time included,
\* and only advisory when the request says force.
RelocateConflicts(r) ==
  /\ pc[r] = "conflicts"
  /\ LET conflict == \E t \in Booked(cmd[r].sid, {snap[r].staff[1]}) :
                       <<doc[t].slot, cmd[r].slot>> \in Padded
     IN Go(r, IF conflict /\ ~cmd[r].force THEN "refused" ELSE "slot")
  /\ UNCHANGED <<doc, claims, cmd, snap, held, overlapped, placed>>

\* The slot_taken query: every employee, raw times, force or not.
RelocateSlotCheck(r) ==
  /\ pc[r] = "slot"
  /\ LET taken == \E t \in Booked(cmd[r].sid, Range(snap[r].staff)) :
                    <<doc[t].slot, cmd[r].slot>> \in Overlap
     IN Go(r, IF taken THEN "refused" ELSE "claim")
  /\ UNCHANGED <<doc, claims, cmd, snap, held, overlapped, placed>>

\* Mutant: the claim is upserted, so a slot claimed by another is taken over.
ClaimUpsert(r) ==
  /\ pc[r] = "claim" /\ held[r] < Len(snap[r].staff)
  /\ claims' = [claims EXCEPT ![ClaimOf(r, held[r] + 1)] = r]
  /\ held' = [held EXCEPT ![r] = @ + 1]
  /\ UNCHANGED <<doc, pc, cmd, snap, overlapped, placed>>

\* One insert_one of _reserve_relocation_claims; a duplicate _id is a 409
\* after the claims inserted so far have been taken back.
RelocateClaim(r) ==
  /\ pc[r] = "claim" /\ held[r] < Len(snap[r].staff)
  /\ LET c == ClaimOf(r, held[r] + 1) IN
       \/ /\ claims[c] = None
          /\ claims' = [claims EXCEPT ![c] = r]
          /\ held' = [held EXCEPT ![r] = @ + 1]
          /\ UNCHANGED pc
       \/ /\ claims[c] # None
          /\ Go(r, "undo")
          /\ UNCHANGED <<claims, held>>
  /\ UNCHANGED <<doc, cmd, snap, overlapped, placed>>

\* Mutant: the swap forgets the version.
SwapMatchesSlot(r) ==
  doc[cmd[r].sid].live /\ doc[cmd[r].sid].slot = snap[r].slot

\* The compare-and-swap: find_one_and_update_active on id, date, start_time
\* and version. On success the claims are left to the TTL index.
SwapMatches(r) ==
  LET d == doc[cmd[r].sid] IN
    d.live /\ d.slot = snap[r].slot /\ d.version = snap[r].version

\* Mutant: a lost swap answers 409 and keeps its claims.
SwapKeepsClaims(r) ==
  /\ pc[r] = "claim" /\ held[r] = Len(snap[r].staff)
  /\ \/ /\ SwapMatches(r)
        /\ doc' = [doc EXCEPT ![cmd[r].sid] = Bumped(Moved(@, cmd[r].slot))]
        /\ placed' = [placed EXCEPT ![cmd[r].sid] = r]
        /\ Go(r, "ok")
     \/ /\ ~SwapMatches(r)
        /\ Go(r, "refused")
        /\ UNCHANGED <<doc, placed>>
  /\ UNCHANGED <<claims, cmd, snap, held, overlapped>>

RelocateSwap(r) ==
  /\ pc[r] = "claim" /\ held[r] = Len(snap[r].staff)
  /\ \/ /\ SwapMatches(r)
        /\ doc' = [doc EXCEPT ![cmd[r].sid] = Bumped(Moved(@, cmd[r].slot))]
        /\ placed' = [placed EXCEPT ![cmd[r].sid] = r]
        /\ Go(r, "ok")
     \/ /\ ~SwapMatches(r)
        /\ Go(r, "undo")
        /\ UNCHANGED <<doc, placed>>
  /\ UNCHANGED <<claims, cmd, snap, held, overlapped>>

\* delete_many over the ids this request inserted, then the 409.
RelocateUndo(r) ==
  /\ pc[r] = "undo"
  /\ claims' = [c \in DOMAIN claims |->
                  IF c \in Inserted(r) THEN None ELSE claims[c]]
  /\ Go(r, "refused")
  /\ UNCHANGED <<doc, cmd, snap, held, overlapped, placed>>

-----------------------------------------------------------------------------
(* Update: update_schedule. A client that pins has loaded the schedule     *)
(* before it sends the request ("load").                                   *)

BeginUpdate(r) ==
  /\ pc[r] = "new"
  /\ \E k \in Commands :
       /\ k.op = "update"
       /\ cmd' = [cmd EXCEPT ![r] = k]
       /\ Go(r, IF k.pinned THEN "load" ELSE "read")
  /\ UNCHANGED <<doc, claims, snap, held, overlapped, placed>>

\* The client's GET: the version it will send is the one it saw.
UpdateLoad(r) ==
  /\ pc[r] = "load"
  /\ \/ /\ doc[cmd[r].sid].live
        /\ snap' = [snap EXCEPT ![r] = doc[cmd[r].sid]]
        /\ Go(r, "read")
     \/ /\ ~doc[cmd[r].sid].live
        /\ Go(r, "missing")
        /\ UNCHANGED snap
  /\ UNCHANGED <<doc, claims, cmd, held, overlapped, placed>>

\* get_by_id and the fast rejection of a stale expected_version. A pinned
\* request goes on with the version its client saw, which is the current one.
UpdateRead(r) ==
  /\ pc[r] = "read" /\ cmd[r].op = "update"
  /\ LET d == doc[cmd[r].sid] IN
       \/ /\ ~d.live
          /\ Go(r, "missing")
          /\ UNCHANGED snap
       \/ /\ d.live /\ cmd[r].pinned /\ d.version # snap[r].version
          /\ Go(r, "refused")
          /\ UNCHANGED snap
       \/ /\ d.live /\ cmd[r].pinned /\ d.version = snap[r].version
          /\ Go(r, "write")
          /\ UNCHANGED snap
       \/ /\ d.live /\ ~cmd[r].pinned
          /\ snap' = [snap EXCEPT ![r] = d]
          /\ Go(r, "write")
  /\ UNCHANGED <<doc, claims, cmd, held, overlapped, placed>>

\* Mutant: a field the body leaves out is written all the same.
EditedBlindly(r) ==
  WithVersion(Restaffed(Moved(doc[cmd[r].sid], cmd[r].slot), cmd[r].staff),
              snap[r].version + 1)

\* The fields of the body over the stored ones, and version = read version + 1.
Edited(r) ==
  LET d == doc[cmd[r].sid]
      slot == IF cmd[r].slot = Keep THEN d.slot ELSE cmd[r].slot
      staff == IF cmd[r].staff = Keep THEN d.staff ELSE cmd[r].staff
  IN WithVersion(Restaffed(Moved(d, slot), staff), snap[r].version + 1)

\* Mutant: the update is pinned to the version only by the check at the read.
WriteMatchesLive(r) == doc[cmd[r].sid].live

WriteMatches(r) ==
  LET d == doc[cmd[r].sid] IN
    d.live /\ (cmd[r].pinned => d.version = snap[r].version)

UpdateWrite(r) ==
  /\ pc[r] = "write"
  /\ \/ /\ WriteMatches(r)
        /\ doc' = [doc EXCEPT ![cmd[r].sid] = Edited(r)]
        /\ placed' = [placed EXCEPT ![cmd[r].sid] = None]
        /\ Go(r, "ok")
     \/ /\ ~WriteMatches(r)
        /\ Go(r, IF doc[cmd[r].sid].live THEN "refused" ELSE "missing")
        /\ UNCHANGED <<doc, placed>>
  /\ UNCHANGED <<claims, cmd, snap, held, overlapped>>

-----------------------------------------------------------------------------
(* The requests that write with a single MongoDB operation.                *)

OneStep(r) ==
  /\ pc[r] = "new"
  /\ Go(r, "ok")
  /\ UNCHANGED <<claims, cmd, snap, held, overlapped>>

\* update_schedule_status, bulk-status, bulk-class and bulk-location: fields
\* no other writer pins, and a bumped version.
BumpVersion(r, s) ==
  /\ doc[s].live
  /\ doc' = [doc EXCEPT ![s] = Bumped(@)]
  /\ UNCHANGED placed
  /\ OneStep(r)

\* Mutant: the bulk writers forget to bump the version.
BulkWriteUnversioned(r, s, x, st) ==
  /\ doc[s].live
  /\ doc' = [doc EXCEPT ![s] = Restaffed(Moved(@, x), st)]
  /\ placed' = [placed EXCEPT ![s] = None]
  /\ OneStep(r)

\* One document of update_series or of a forced bulk-reassign: new times or
\* employees, whoever else is booked there.
BulkWrite(r, s, x, st) ==
  /\ doc[s].live
  /\ doc' = [doc EXCEPT ![s] = Bumped(Restaffed(Moved(@, x), st))]
  /\ placed' = [placed EXCEPT ![s] = None]
  /\ OneStep(r)

\* update_project moves the date of the linked schedule: no version bump.
ProjectMove(r, s, x) ==
  /\ ProjectSync
  /\ doc[s].live
  /\ doc' = [doc EXCEPT ![s] = Moved(@, x)]
  /\ placed' = [placed EXCEPT ![s] = None]
  /\ OneStep(r)

\* delete_schedule, bulk-delete and delete_series.
SoftDelete(r, s) ==
  /\ doc[s].live
  /\ doc' = [doc EXCEPT ![s] = Alive(@, FALSE)]
  /\ UNCHANGED placed
  /\ OneStep(r)

\* restore_schedule: the slot it comes back to is not looked at.
Restore(r, s) ==
  /\ ~doc[s].live
  /\ doc' = [doc EXCEPT ![s] = Alive(@, TRUE)]
  /\ placed' = [placed EXCEPT ![s] = None]
  /\ OneStep(r)

-----------------------------------------------------------------------------
(* The TTL index on claimed_at and the death of a process.                 *)

\* Mutant: only the claims of relocates that ended normally expire.
ExpireClaimOfEnded(c) ==
  /\ claims[c] # None
  /\ \A q \in {claims[c]} \cup overlapped[claims[c]] : pc[q] \in Ended \ {"crashed"}
  /\ claims' = [claims EXCEPT ![c] = None]
  /\ UNCHANGED <<doc, pc, cmd, snap, held, overlapped, placed>>

\* Ten minutes are far more than two requests take: when a claim expires its
\* owner has ended, and so has every relocate that ran beside the owner.
ExpireClaim(c) ==
  /\ claims[c] # None
  /\ \A q \in {claims[c]} \cup overlapped[claims[c]] : pc[q] \in Ended
  /\ claims' = [claims EXCEPT ![c] = None]
  /\ UNCHANGED <<doc, pc, cmd, snap, held, overlapped, placed>>

Crash(r) ==
  /\ Crashes
  /\ r \in InFlight
  /\ Go(r, "crashed")
  /\ UNCHANGED <<doc, claims, cmd, snap, held, overlapped, placed>>

-----------------------------------------------------------------------------
Relocate(r) == \/ BeginRelocate(r) \/ RelocateRead(r) \/ RelocateConflicts(r)
               \/ RelocateSlotCheck(r) \/ RelocateClaim(r) \/ RelocateSwap(r)
               \/ RelocateUndo(r)

Update(r) == \/ BeginUpdate(r) \/ UpdateLoad(r) \/ UpdateRead(r) \/ UpdateWrite(r)

Write(r, s) ==
  \/ BumpVersion(r, s)
  \/ \E x \in Slot, st \in Staff : BulkWrite(r, s, x, st)
  \/ \E x \in Slot : ProjectMove(r, s, x)
  \/ SoftDelete(r, s)
  \/ Restore(r, s)

Next ==
  \/ \E r \in Request : Relocate(r) \/ Update(r) \/ Crash(r)
  \/ \E r \in Request, s \in Schedule : Write(r, s)
  \/ \E c \in Employee \X Slot : ExpireClaim(c)

Spec == Init /\ [][Next]_vars

\* The event loop resumes every request that can go on, and the TTL monitor
\* keeps running.
FairSpec ==
  /\ Spec
  /\ \A r \in Request : WF_vars((Relocate(r) \/ Update(r)) /\ pc[r] # "new")
  /\ \A c \in Employee \X Slot : WF_vars(ExpireClaim(c))

-----------------------------------------------------------------------------
TypeOK ==
  /\ doc \in [Schedule -> Doc]
  /\ claims \in [Employee \X Slot -> Request \cup {None}]
  /\ pc \in [Request -> Ended \cup {"new", "load", "read", "conflicts", "slot",
                                   "claim", "undo", "write"}]
  /\ cmd \in [Request -> Command \cup {None}]
  /\ snap \in [Request -> Doc \cup {None}]
  /\ held \in [Request -> Nat]
  /\ overlapped \in [Request -> SUBSET Request]
  /\ placed \in [Schedule -> Request \cup {None}]

\* Two live schedules that relocate put where they are never occupy the same
\* slot of one employee, whatever the interleaving of their requests: this is
\* what the slot query and the claims of relocate_schedule are for.
RelocationExclusive ==
  \A s, t \in Schedule :
    /\ s # t /\ doc[s].live /\ doc[t].live
    /\ placed[s] # None /\ placed[t] # None
    /\ doc[s].slot = doc[t].slot
    => Range(doc[s].staff) \cap Range(doc[t].staff) = {}

\* A relocate moves the schedule whose employees it claimed the slot for:
\* nobody reassigned it between the read and the swap.
RelocatesWhatItClaimed ==
  [][\A s \in Schedule :
       placed'[s] \notin {None, placed[s]} =>
         doc[s].staff = snap[placed'[s]].staff]_vars

\* A relocate that answered 409 has taken back every claim it inserted, so the
\* client can retry at once (the fallback path has no transaction to abort).
RefusedHoldsNoClaims ==
  \A c \in Employee \X Slot : claims[c] # None => pc[claims[c]] # "refused"

\* The version of a schedule never goes back: a client's expected_version
\* that was passed once stays stale.
VersionsOnlyGrow ==
  [][\A s \in Schedule : doc'[s].version >= doc[s].version]_vars

\* A PUT that sent expected_version overwrites only what its client had on
\* the screen: the slot and the employees it loaded.
PinnedWriteSawCurrent ==
  [][\A r \in Request :
       pc[r] = "write" /\ pc'[r] = "ok" /\ cmd[r].pinned =>
         LET d == doc[cmd[r].sid] IN
           d.slot = snap[r].slot /\ d.staff = snap[r].staff]_vars

\* Every claim is given back in the end, whatever became of its owner.
ClaimsReleased ==
  \A c \in Employee \X Slot : claims[c] # None ~> claims[c] = None
=============================================================================
