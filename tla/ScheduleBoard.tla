--------------------------- MODULE ScheduleBoard ---------------------------
(***************************************************************************)
(* The kanban board and the calendar of schedules.  Both show a list that  *)
(* SWR caches under a key of their own (the calendar's is bounded by a     *)
(* window of dates).  A drag changes both caches at once and sends its     *)
(* request; the answer, good or bad, makes the mounted list be fetched     *)
(* again.  SWR drops the answer of a fetch that a later fetch or a local   *)
(* change has overtaken.                                                   *)
(*                                                                         *)
(* The user may edit (a viewer's requests are refused).  slot stands for   *)
(* date and times, status also for what else a bulk action sets.           *)
(***************************************************************************)
EXTENDS Requests, FiniteSets

CONSTANTS Sched, Slot, Status

Doc == [status : Status, slot : Slot]
List == [Sched -> Doc \cup {None}]
Cold == [s \in Sched |-> None]

View == {"kanban", "calendar"}
Key(v) == IF v = "kanban" THEN "all" ELSE "window"
Keys == {"all", "window"}
Current == Key(ui.view)
Shown == ui.cache[Current]
Listed == {s \in Sched : Shown[s] # None}
Column(status) == {s \in Listed : Shown[s].status = status}

Init ==
  /\ page = "board"
  /\ \E v \in View :
       /\ ui = [view |-> v, inst |-> 0,
                cache |-> [k \in Keys |-> Cold],
                fresh |-> [k \in Keys |-> k = Key(v)],
                failed |-> [k \in Keys |-> FALSE], banner |-> FALSE,
                selecting |-> FALSE, chosen |-> {}, busy |-> None, confirm |-> None,
                conflict |-> None, reason |-> None]
       /\ calls = {Fetch(Key(v))}
  /\ \E f \in [Sched -> Slot], status \in Status :
       server = [s \in Sched |-> [status |-> status, slot |-> f[s]]]
  /\ made = 0
  /\ faults = 0
  /\ clean = TRUE

-----------------------------------------------------------------------------
(* The SWR caches                                                          *)

\* Mutant: a fetch that was overtaken counts as well.
NoneOvertaken(set, keys) == set

\* A change or a newer fetch: what is under way for the key will be ignored.
Overtaken(set, keys) ==
  {IF c.op = "list" /\ c.item \in keys THEN [c EXCEPT !.value = "overtaken", !.answer = None]
                                         ELSE c : c \in set}

\* fetchSchedules(): every key is invalidated, the mounted one is fetched.
Refetching(set) == Overtaken(set, Keys) \cup {Fetch(Current)}
Stale(u) == [u EXCEPT !.fresh = [k \in Keys |-> k = Key(u.view)]]

\* The answer of a handler, after which the list is fetched again.
AnsweredAndFetches(c, u) ==
  /\ calls' = Refetching(calls \ {c})
  /\ ui' = Stale(u)

\* mutate(isSchedulesSwrKey, change, {revalidate: false}): the change shows
\* under every key, and fetches that are under way will be ignored.
Swapped(s, doc) ==
  ui' = [ui EXCEPT !.cache = [k \in Keys |-> [@[k] EXCEPT ![s] = IF @ = None THEN None ELSE doc]]]

StartSwapped(s, op, value, prev) ==
  /\ Counts
  /\ calls' = Overtaken(calls, Keys) \cup {Call(made, ui.inst, s, op, value, prev)}

ListArrives(c) ==
  /\ c.op = "list" /\ c.at = "ok"
  /\ ui' = IF c.value = "latest"
             THEN [ui EXCEPT !.cache[c.item] = c.answer, !.failed[c.item] = FALSE]
             ELSE ui
  /\ Ends(c)
  /\ UNCHANGED <<page, server, made, faults, clean>>

\* The banner stays: nothing ever takes an entry out of fetchErrors.
ListFails(c) ==
  /\ c.op = "list" /\ c.at = "no"
  /\ ui' = [ui EXCEPT !.banner = TRUE,
                      !.failed[c.item] = @ \/ c.value = "latest"]
  /\ Ends(c)
  /\ UNCHANGED <<page, server, made, faults, clean>>

\* The button of the banner, or SWR by itself after a while.
Retry ==
  /\ ui.banner
  /\ ~\E c \in calls : c.op = "list" /\ c.value = "latest" /\ c.item = Current
  /\ calls' = Refetching(calls)
  /\ ui' = Stale(ui)
  /\ UNCHANGED <<page, server, made, faults, clean>>

\* Another page with another key: what it has cached shows, and is fetched
\* again unless SWR finds it fresh.
Navigate(v) ==
  /\ v # ui.view
  /\ ui' = [ui EXCEPT !.view = v, !.inst = made + 1, !.selecting = FALSE, !.chosen = {},
                      !.busy = None, !.confirm = None, !.conflict = None, !.reason = None,
                      !.fresh[Key(v)] = TRUE]
  /\ Counts
  /\ calls' = IF ui.fresh[Key(v)] THEN calls
              ELSE Overtaken(calls, {Key(v)}) \cup {Fetch(Key(v))}
  /\ UNCHANGED <<page, server, faults, clean>>

-----------------------------------------------------------------------------
(* Selection                                                               *)

\* The bar is rendered while something is selected; without it, its state is
\* gone.
Choose(u, set) ==
  [u EXCEPT !.chosen = set,
            !.busy = IF set = {} THEN None ELSE @,
            !.confirm = IF set = {} THEN None ELSE @]

\* The calendar turns to another date or view and drops the selection; beyond
\* its window, it has to fetch under a key that is not cached yet.
Turn ==
  /\ ui.view = "calendar"
  /\ ui.chosen # {}
  /\ ui' = Choose(ui, {})
  /\ UNCHANGED <<page, server, calls, made, faults, clean>>

Widen ==
  /\ ui.view = "calendar"
  /\ Counts
  /\ calls' = Overtaken(calls, {"window"}) \cup {Fetch("window")}
  /\ ui' = [Choose(ui, {}) EXCEPT !.cache["window"] = Cold, !.fresh["window"] = TRUE,
                                  !.failed["window"] = FALSE]
  /\ UNCHANGED <<page, server, faults, clean>>

ToggleSelectionMode ==
  /\ ui' = [Choose(ui, {}) EXCEPT !.selecting = ~@]
  /\ UNCHANGED <<page, server, calls, made, faults, clean>>

Modeless == ui.confirm = None /\ ui.conflict = None

ToggleItem(s) ==
  /\ ui.selecting /\ Modeless /\ s \in Listed
  /\ ui' = Choose(ui, IF s \in ui.chosen THEN ui.chosen \ {s} ELSE ui.chosen \cup {s})
  /\ UNCHANGED <<page, server, calls, made, faults, clean>>

SelectColumn(status) ==
  /\ ui.view = "kanban" /\ ui.selecting /\ Modeless
  /\ Column(status) # {}
  /\ ui' = Choose(ui, IF Column(status) \subseteq ui.chosen
                        THEN ui.chosen \ Column(status)
                        ELSE ui.chosen \cup Column(status))
  /\ UNCHANGED <<page, server, calls, made, faults, clean>>

-----------------------------------------------------------------------------
(* One schedule                                                            *)

\* handleStatusChange: by the Move button or by a drop on another column.
ChangeStatus(s, status) ==
  /\ ui.view = "kanban" /\ ~ui.selecting /\ s \in Listed
  /\ status # Shown[s].status
  /\ Swapped(s, [Shown[s] EXCEPT !.status = status])
  /\ StartSwapped(s, "status", status, None)
  /\ UNCHANGED <<page, server, faults, clean>>

StatusAnswered(c) ==
  /\ c.op = "status" /\ c.at # "out"
  /\ AnsweredAndFetches(c, ui)
  /\ UNCHANGED <<page, server, made, faults, clean>>

\* handleRelocate: a drop on another day or time, or the conflict dialog's
\* button, which sends what the dialog holds now.
Relocate(s, slot, reason) ==
  /\ Swapped(s, IF Shown[s] = None THEN None ELSE [Shown[s] EXCEPT !.slot = slot])
  /\ StartSwapped(s, "relocate", slot, reason)
  /\ UNCHANGED <<page, server, faults, clean>>

DropOnSlot(s, slot) ==
  /\ ui.view = "calendar" /\ ~ui.selecting /\ Modeless /\ s \in Listed
  /\ slot # Shown[s].slot
  /\ Relocate(s, slot, None)

\* The reason is a string; here it is what the dialog showed while it was typed.
TypeReason ==
  /\ ui.conflict # None /\ ui.reason = None
  /\ ui' = [ui EXCEPT !.reason = ui.conflict]
  /\ UNCHANGED <<page, server, calls, made, faults, clean>>

ForceRelocate ==
  /\ ui.conflict # None /\ ui.reason # None
  /\ Relocate(ui.conflict.item, ui.conflict.slot, ui.reason)

CloseConflict ==
  /\ ui.conflict # None
  /\ ui' = [ui EXCEPT !.conflict = None]
  /\ UNCHANGED <<page, server, calls, made, faults, clean>>

Relocated(c) ==
  /\ c.op = "relocate" /\ c.at = "ok"
  /\ AnsweredAndFetches(c, IF c.inst = ui.inst THEN [ui EXCEPT !.conflict = None] ELSE ui)
  /\ UNCHANGED <<page, server, made, faults, clean>>

\* Mutant: the dialog keeps the reason that was typed for another conflict.
RelocateFailsKeeping(c) ==
  /\ c.op = "relocate" /\ c.at = "no"
  /\ AnsweredAndFetches(c,
       IF c.inst = ui.inst /\ c.answer = "conflict"
         THEN [ui EXCEPT !.conflict = [item |-> c.item, slot |-> c.value]]
         ELSE ui)
  /\ UNCHANGED <<page, server, made, faults, clean>>

\* A 409 opens the dialog with what this handler tried, in the place of
\* another one that may be open; the reason starts empty.
RelocateFails(c) ==
  /\ c.op = "relocate" /\ c.at = "no"
  /\ AnsweredAndFetches(c,
       IF c.inst = ui.inst /\ c.answer = "conflict"
         THEN [ui EXCEPT !.conflict = [item |-> c.item, slot |-> c.value], !.reason = None]
         ELSE ui)
  /\ UNCHANGED <<page, server, made, faults, clean>>

-----------------------------------------------------------------------------
(* Bulk actions                                                            *)

Begin ==
  /\ ui.busy = None
  /\ ui' = [ui EXCEPT !.busy = made]
  /\ UNCHANGED <<page, server, faults, clean>>

BulkStatus(status) ==
  /\ ui.chosen # {} /\ Modeless
  /\ Begin
  /\ Start(ui.inst, ui.chosen, "bulk status", status, None)

\* The question holds the ids as they were when it was asked.
AskBulk ==
  /\ ui.chosen # {} /\ Modeless /\ ui.busy = None
  /\ ui' = [ui EXCEPT !.confirm = ui.chosen]
  /\ UNCHANGED <<page, server, calls, made, faults, clean>>

ConfirmBulk ==
  /\ ui.confirm # None
  /\ Begin
  /\ Start(ui.inst, ui.confirm, "bulk delete", None, None)

CancelBulk ==
  /\ ui.confirm # None
  /\ ui' = [ui EXCEPT !.confirm = None]
  /\ UNCHANGED <<page, server, calls, made, faults, clean>>

Bulk == {"bulk status", "bulk delete"}

\* The bar that asked, if it is still there.
Idle(u, c) == IF u.busy # c.id THEN u ELSE [u EXCEPT !.busy = None, !.confirm = None]

\* onComplete: the selection is cleared, whatever was selected since.
BulkDone(c) ==
  /\ c.op \in Bulk /\ c.at = "ok"
  /\ AnsweredAndFetches(c, IF c.inst = ui.inst THEN Choose(ui, {}) ELSE ui)
  /\ UNCHANGED <<page, server, made, faults, clean>>

BulkFails(c) ==
  /\ c.op \in Bulk /\ c.at = "no"
  /\ ui' = Idle(ui, c)
  /\ Ends(c)
  /\ UNCHANGED <<page, server, made, faults, clean>>

-----------------------------------------------------------------------------
(* The server                                                              *)

Write(d, c) ==
  IF d = None \/ c.op = "bulk delete" THEN None
  ELSE IF c.op = "relocate" THEN [d EXCEPT !.slot = c.value]
  ELSE [d EXCEPT !.status = c.value]

Targets(c) == IF c.op \in Bulk THEN c.item ELSE {c.item}

Clashes(c) ==
  /\ c.op = "relocate" /\ c.prev = None
  /\ \E s \in Sched \ {c.item} : server[s] # None /\ server[s].slot = c.value

Missing(c) == c.op \in {"status", "relocate"} /\ server[c.item] = None

Serve(c) ==
  /\ c.at = "out"
  /\ ~Clashes(c) /\ ~Missing(c)
  /\ IF c.op = "list"
       THEN /\ Answered(c, IF c.value = "latest" THEN server ELSE None)
            /\ UNCHANGED server
       ELSE /\ Answered(c, None)
            /\ server' = [s \in Sched |-> IF s \in Targets(c) THEN Write(server[s], c)
                                                              ELSE server[s]]
  /\ UNCHANGED <<page, ui, made, faults, clean>>

Refuse(c) ==
  /\ c.at = "out"
  /\ \/ Missing(c) /\ Refused(c, None) /\ UNCHANGED faults
     \/ ~Missing(c) /\ Clashes(c) /\ Refused(c, "conflict") /\ UNCHANGED faults
     \/ Fault(c)
  /\ UNCHANGED <<page, server, ui, made, clean>>

-----------------------------------------------------------------------------
User ==
  \/ Retry \/ Turn \/ Widen \/ ToggleSelectionMode
  \/ \E v \in View : Navigate(v)
  \/ \E s \in Sched : \/ ToggleItem(s)
                      \/ \E status \in Status : ChangeStatus(s, status)
                      \/ \E slot \in Slot : DropOnSlot(s, slot)
  \/ \E status \in Status : SelectColumn(status) \/ BulkStatus(status)
  \/ TypeReason \/ ForceRelocate \/ CloseConflict
  \/ AskBulk \/ ConfirmBulk \/ CancelBulk

Next ==
  \/ User
  \/ \E c \in calls :
       \/ Serve(c) \/ Refuse(c)
       \/ ListArrives(c) \/ ListFails(c) \/ StatusAnswered(c)
       \/ Relocated(c) \/ RelocateFails(c) \/ BulkDone(c) \/ BulkFails(c)

Spec == Init /\ [][Next]_vars

-----------------------------------------------------------------------------
(* Properties                                                              *)

Target == [item : Sched, slot : Slot]

Ui == [view : View, inst : Nat, cache : [Keys -> List],
       fresh : [Keys -> BOOLEAN],
       failed : [Keys -> BOOLEAN], banner : BOOLEAN, selecting : BOOLEAN,
       chosen : SUBSET Sched, busy : Nat \cup {None},
       confirm : (SUBSET Sched) \cup {None},
       conflict : Target \cup {None}, reason : Target \cup {None}]

\* Every variable keeps its type.
TypeOK ==
  /\ page = "board"
  /\ server \in List
  /\ ui \in Ui
  /\ \A c \in calls : c.op \in Bulk \cup {"list", "status", "relocate"}
  /\ made \in 0..MaxCalls[page] /\ faults \in 0..MaxFaults
  /\ clean \in BOOLEAN

\* Once everything is answered, the list that is shown is the server's, or
\* the banner says that it may be outdated.
ListCatchesUp ==
  calls = {} => Shown = server \/ (ui.failed[Current] /\ ui.banner)

\* A move that is forced was asked for: its reason was typed while the dialog
\* showed the conflict of this very move.
ForcedWasAsked ==
  ui.conflict # None /\ ui.reason # None => ui.reason = ui.conflict

\* A bar that is busy waits for an answer.
NoStuckBar == ui.busy # None => \E c \in calls : c.id = ui.busy /\ c.op \in Bulk
=============================================================================
