---------------------------- MODULE CalendarSync ----------------------------
(***************************************************************************)
(* How the events in the employees' Outlook and Google calendars follow    *)
(* one schedule.  A handler that moves a schedule removes the events that  *)
(* it saw recorded in calendar_events and starts a background task for     *)
(* every employee and provider: the Google task creates the event and      *)
(* records it, the Outlook task only queues a job for the arq worker,      *)
(* which does the same later, perhaps more than once.                      *)
(*                                                                         *)
(* A slot stands for everything an event shows (place, date, time, notes); *)
(* the drive-time events around a Google event come and go with it.        *)
(***************************************************************************)
EXTENDS Naturals

CONSTANTS
  Employee,
  OutlookUsers,  \* employees with an e-mail address, while Outlook is set up
  GoogleUsers,   \* employees connected to Google, while Google is set up
  Slot,
  Request,       \* HTTP requests, each used once
  MaxTries,      \* WorkerSettings.max_tries
  None           \* nothing there

ASSUME UsersAreEmployees == OutlookUsers \cup GoogleUsers \subseteq Employee
ASSUME TriesPositive == MaxTries \in Nat \ {0}

Provider == {"outlook", "google"}

Connected(via) == IF via = "google" THEN GoogleUsers ELSE OutlookUsers

\* try tells the events of a job that was run again from one another.
Event == [by : Request, emp : Employee, via : Provider, slot : Slot,
          try : 1..MaxTries]

ASSUME NoneApart == None \notin Event

VARIABLES
  sched,      \* the schedule document, but for calendar_events
  recorded,   \* calendar_events: an event id per employee and provider
  calendar,   \* the events that stand in the calendars
  pc,         \* where each request stands
  seen,       \* the version a request read
  todo,       \* the recorded events a request has still to remove
  want,       \* the slot and employees it makes events for
  tasks,      \* background_tasks of the API process
  creates,    \* create jobs in the worker's queue
  deletes,    \* delete jobs in the worker's queue
  calm,       \* no handler that syncs calendars began before the work of
              \* earlier ones was done
  leaked,     \* a delete failed, or an event was lost before it was recorded
  aligned     \* the last change went through the calendar sync, which so far
              \* has made every event it meant to

vars == <<sched, recorded, calendar, pc, seen, todo, want, tasks, creates,
          deletes, calm, leaked, aligned>>

doc == <<sched, recorded>>
request == <<pc, seen, todo, want>>
background == <<tasks, creates, deletes>>

-----------------------------------------------------------------------------
Live == sched.state = "live"

Recorded == {recorded[f][via] : f \in Employee, via \in Provider} \ {None}

Quiet ==
  /\ \A r \in Request : pc[r] \in {"new", "end"}
  /\ tasks = {} /\ creates = {} /\ deletes = {}

Init ==
  /\ \E s \in Slot :   \* of no meaning until the schedule is created
       sched = [state |-> "none", slot |-> s, staff |-> {}, version |-> 0]
  /\ recorded = [f \in Employee |-> [via \in Provider |-> None]]
  /\ calendar = {}
  /\ pc = [r \in Request |-> "new"]
  /\ seen = [r \in Request |-> 0]
  /\ todo = [r \in Request |-> {}]
  /\ want = [r \in Request |-> [slot |-> sched.slot, staff |-> {}]]
  /\ tasks = {} /\ creates = {} /\ deletes = {}
  /\ calm = TRUE /\ leaked = FALSE /\ aligned = TRUE

Goto(r, label) == pc' = [pc EXCEPT ![r] = label]

\* A request whose handler looks after the calendars.
Start(r, label) ==
  /\ pc[r] = "new"
  /\ Goto(r, label)
  /\ calm' = (calm /\ Quiet)

Wants(r, s, F) == want' = [want EXCEPT ![r] = [slot |-> s, staff |-> F]]

-----------------------------------------------------------------------------
(* Handlers                                                                *)

Create(r, s, F) ==
  /\ Start(r, "renew")
  /\ sched.state = "none"
  /\ sched' = [state |-> "live", slot |-> s, staff |-> F, version |-> 0]
  /\ Wants(r, s, F)
  /\ UNCHANGED <<recorded, calendar, seen, todo, background, leaked, aligned>>

\* PUT, relocate and DELETE begin with a read of the document; what it has
\* in calendar_events is what they will remove.
Read(r, label) ==
  /\ Start(r, label)
  /\ Live
  /\ seen' = [seen EXCEPT ![r] = sched.version]
  /\ todo' = [todo EXCEPT ![r] = Recorded]
  /\ UNCHANGED <<doc, calendar, want, background, leaked, aligned>>

\* The write of PUT; a body without expected_version overwrites whatever
\* version it finds.
Update(r, s, F) ==
  /\ pc[r] = "update"
  /\ Live
  /\ sched' = [sched EXCEPT !.slot = s, !.staff = F, !.version = seen[r] + 1]
  /\ Goto(r, "readback")
  /\ aligned' = TRUE
  /\ UNCHANGED <<recorded, calendar, seen, todo, want, background, calm, leaked>>

\* 404 when the schedule is gone, 409 when the body pinned another version.
UpdateRefused(r) ==
  /\ pc[r] = "update"
  /\ ~Live \/ sched.version # seen[r]
  /\ Goto(r, "end")
  /\ UNCHANGED <<doc, calendar, seen, todo, want, background, calm, leaked, aligned>>

ReadBack(r) ==
  /\ pc[r] = "readback"
  /\ IF Live THEN Goto(r, "erase") /\ Wants(r, sched.slot, sched.staff)
             ELSE Goto(r, "end") /\ UNCHANGED want
  /\ UNCHANGED <<doc, calendar, seen, todo, background, calm, leaked, aligned>>

\* Mutant: the events are made from the schedule as it was before the move.
RelocateShowingOld(r, s) ==
  /\ pc[r] = "relocate"
  /\ IF Live /\ sched.version = seen[r]
     THEN /\ sched' = [sched EXCEPT !.slot = s, !.version = @ + 1]
          /\ Wants(r, sched.slot, sched.staff)
          /\ Goto(r, "erase")
          /\ aligned' = TRUE
     ELSE Goto(r, "end") /\ UNCHANGED <<sched, want, aligned>>
  /\ UNCHANGED <<recorded, calendar, seen, todo, background, calm, leaked>>

\* The compare-and-swap of relocate returns the document it wrote.
Relocate(r, s) ==
  /\ pc[r] = "relocate"
  /\ IF Live /\ sched.version = seen[r]
     THEN /\ sched' = [sched EXCEPT !.slot = s, !.version = @ + 1]
          /\ Wants(r, s, sched.staff)
          /\ Goto(r, "erase")
          /\ aligned' = TRUE
     ELSE Goto(r, "end") /\ UNCHANGED <<sched, want, aligned>>
  /\ UNCHANGED <<recorded, calendar, seen, todo, background, calm, leaked>>

SoftDelete(r) ==
  /\ pc[r] = "delete"
  /\ IF Live
     THEN /\ sched' = [sched EXCEPT !.state = "deleted"]
          /\ Wants(r, sched.slot, {})
          /\ Goto(r, "erase")
          /\ aligned' = TRUE
     ELSE Goto(r, "end") /\ UNCHANGED <<sched, want, aligned>>
  /\ UNCHANGED <<recorded, calendar, seen, todo, background, calm, leaked>>

\* Mutant: the Outlook ids are passed over.
EraseGoogleOnly(r, e) ==
  /\ pc[r] = "erase" /\ e \in todo[r]
  /\ todo' = [todo EXCEPT ![r] = @ \ {e}]
  /\ calendar' = IF e.via = "google" THEN calendar \ {e} ELSE calendar
  /\ UNCHANGED <<doc, pc, seen, want, background, calm, leaked, aligned>>

\* One recorded event is removed: Google's in the request itself, Outlook's
\* by a job for the worker.
Erase(r, e) ==
  /\ pc[r] = "erase" /\ e \in todo[r]
  /\ todo' = [todo EXCEPT ![r] = @ \ {e}]
  /\ IF e.via = "google"
     THEN calendar' = calendar \ {e} /\ UNCHANGED deletes
     ELSE deletes' = deletes \cup {<<r, e>>} /\ UNCHANGED calendar
  /\ UNCHANGED <<doc, pc, seen, want, tasks, creates, calm, leaked, aligned>>

\* Google does not answer, or Redis does not take the job: nobody notices.
EraseFails(r, e) ==
  /\ pc[r] = "erase" /\ e \in todo[r]
  /\ todo' = [todo EXCEPT ![r] = @ \ {e}]
  /\ leaked' = TRUE
  /\ UNCHANGED <<doc, calendar, pc, seen, want, background, calm, aligned>>

Erased(r) ==
  /\ pc[r] = "erase" /\ todo[r] = {}
  /\ Goto(r, "renew")
  /\ UNCHANGED <<doc, calendar, seen, todo, want, background, calm, leaked, aligned>>

\* The rest of the handler does not touch calendars.
Renew(r) ==
  /\ pc[r] = "renew"
  /\ Goto(r, "end")
  /\ tasks' = tasks \cup
       UNION {{[by |-> r, emp |-> f, via |-> via, slot |-> want[r].slot, event |-> None]
               : f \in want[r].staff \cap Connected(via)} : via \in Provider}
  /\ UNCHANGED <<doc, calendar, seen, todo, want, creates, deletes, calm, leaked, aligned>>

-----------------------------------------------------------------------------
(* Writers that leave the calendars alone                                  *)

\* Bulk delete and series delete.
BulkDelete(r) ==
  /\ pc[r] = "new" /\ Goto(r, "end")
  /\ Live
  /\ sched' = [sched EXCEPT !.state = "deleted"]
  /\ aligned' = FALSE
  /\ UNCHANGED <<recorded, calendar, seen, todo, want, background, calm, leaked>>

\* Bulk reassign, bulk location and series update.
BulkEdit(r, s, F) ==
  /\ pc[r] = "new" /\ Goto(r, "end")
  /\ Live
  /\ sched' = [sched EXCEPT !.slot = s, !.staff = F, !.version = @ + 1]
  /\ aligned' = FALSE
  /\ UNCHANGED <<recorded, calendar, seen, todo, want, background, calm, leaked>>

\* A status is no part of an event, but a relocate must not overwrite it.
StatusChange(r) ==
  /\ pc[r] = "new" /\ Goto(r, "end")
  /\ Live
  /\ sched' = [sched EXCEPT !.version = @ + 1]
  /\ UNCHANGED <<recorded, calendar, seen, todo, want, background, calm, leaked, aligned>>

Restore(r) ==
  /\ pc[r] = "new" /\ Goto(r, "end")
  /\ sched.state = "deleted"
  /\ sched' = [sched EXCEPT !.state = "live"]
  /\ aligned' = FALSE
  /\ UNCHANGED <<recorded, calendar, seen, todo, want, background, calm, leaked>>

-----------------------------------------------------------------------------
(* Background tasks                                                        *)

NewEvent(x, via, n) ==
  [by |-> x.by, emp |-> x.emp, via |-> via, slot |-> x.slot, try |-> n]

GoogleCreate(t) ==
  /\ t \in tasks /\ t.via = "google" /\ t.event = None
  /\ LET e == NewEvent(t, "google", 1)
     IN  /\ calendar' = calendar \cup {e}
         /\ tasks' = (tasks \ {t}) \cup {[t EXCEPT !.event = e]}
  /\ UNCHANGED <<doc, request, creates, deletes, calm, leaked, aligned>>

\* Mutant: the entry goes to the top level, where the ids of old schedules are.
GoogleRecordElsewhere(t) ==
  /\ t \in tasks /\ t.via = "google" /\ t.event # None
  /\ tasks' = tasks \ {t}
  /\ UNCHANGED <<doc, calendar, request, creates, deletes, calm, leaked, aligned>>

\* The whole entry of the employee is replaced, an Outlook id with it.
GoogleRecord(t) ==
  /\ t \in tasks /\ t.via = "google" /\ t.event # None
  /\ recorded' = [recorded EXCEPT ![t.emp] =
                    [via \in Provider |-> IF via = "google" THEN t.event ELSE None]]
  /\ tasks' = tasks \ {t}
  /\ UNCHANGED <<sched, calendar, request, creates, deletes, calm, leaked, aligned>>

OutlookQueue(t) ==
  /\ t \in tasks /\ t.via = "outlook"
  /\ tasks' = tasks \ {t}
  /\ creates' = creates \cup
       {[by |-> t.by, emp |-> t.emp, slot |-> t.slot, event |-> None,
         try |-> 1, at |-> "queued"]}
  /\ UNCHANGED <<doc, calendar, request, deletes, calm, leaked, aligned>>

\* No answer from Google, which may have made the event all the same, or no
\* Redis to queue in.
TaskFails(t) ==
  /\ t \in tasks /\ t.event = None
  /\ tasks' = tasks \ {t}
  /\ aligned' = FALSE
  /\ \/ UNCHANGED <<calendar, leaked>>
     \/ /\ t.via = "google"
        /\ calendar' = calendar \cup {NewEvent(t, "google", 1)}
        /\ leaked' = TRUE
  /\ UNCHANGED <<doc, request, creates, deletes, calm>>

\* The API process dies with its requests and tasks.
ServerDies ==
  /\ pc' = [r \in Request |-> IF pc[r] = "new" THEN "new" ELSE "end"]
  /\ todo' = [r \in Request |-> {}]
  /\ tasks' = {}
  /\ leaked' = (leaked \/ \E t \in tasks : t.event # None)
  /\ aligned' = (aligned /\ tasks = {} /\ \A r \in Request :
                   pc[r] \notin {"readback", "erase", "renew"})
  /\ UNCHANGED <<doc, calendar, seen, want, creates, deletes, calm>>

-----------------------------------------------------------------------------
(* The worker                                                              *)

Move(j, k) == creates' = (creates \ {j}) \cup {k}

\* create_calendar_event_idempotent: an employee with a recorded event gets
\* no other.
JobSkips(j) ==
  /\ j \in creates /\ j.at = "queued"
  /\ recorded[j.emp]["outlook"] # None
  /\ creates' = creates \ {j}
  /\ UNCHANGED <<doc, calendar, request, tasks, deletes, calm, leaked, aligned>>

JobStarts(j) ==
  /\ j \in creates /\ j.at = "queued"
  /\ recorded[j.emp]["outlook"] = None
  /\ Move(j, [j EXCEPT !.at = "call"])
  /\ UNCHANGED <<doc, calendar, request, tasks, deletes, calm, leaked, aligned>>

JobCreates(j) ==
  /\ j \in creates /\ j.at = "call"
  /\ LET e == NewEvent(j, "outlook", j.try)
     IN  /\ calendar' = calendar \cup {e}
         /\ Move(j, [j EXCEPT !.at = "record", !.event = e])
  /\ UNCHANGED <<doc, request, tasks, deletes, calm, leaked, aligned>>

JobFails(j) ==
  /\ j \in creates /\ j.at = "call"
  /\ creates' = creates \ {j}
  /\ aligned' = FALSE
  /\ \/ UNCHANGED <<calendar, leaked>>
     \/ /\ calendar' = calendar \cup {NewEvent(j, "outlook", j.try)}
        /\ leaked' = TRUE
  /\ UNCHANGED <<doc, request, tasks, deletes, calm>>

JobRecords(j) ==
  /\ j \in creates /\ j.at = "record"
  /\ recorded' = [recorded EXCEPT ![j.emp]["outlook"] = j.event]
  /\ creates' = creates \ {j}
  /\ UNCHANGED <<sched, calendar, request, tasks, deletes, calm, leaked, aligned>>

\* Mutant: an interrupted job is run again without end.
JobAlwaysRunAgain(j) ==
  /\ j \in creates /\ j.at # "queued"
  /\ Move(j, [j EXCEPT !.at = "queued", !.event = None, !.try = @ + 1])
  /\ leaked' = (leaked \/ j.event # None)
  /\ UNCHANGED <<doc, calendar, request, tasks, deletes, calm, aligned>>

\* A worker that goes down in the middle of a job leaves it to be run again,
\* up to max_tries.
JobInterrupted(j) ==
  /\ j \in creates /\ j.at # "queued"
  /\ IF j.try < MaxTries
     THEN /\ Move(j, [j EXCEPT !.at = "queued", !.event = None, !.try = @ + 1])
          /\ UNCHANGED aligned
     ELSE creates' = creates \ {j} /\ aligned' = FALSE
  /\ leaked' = (leaked \/ j.event # None)
  /\ UNCHANGED <<doc, calendar, request, tasks, deletes, calm>>

DeleteRuns(d) ==
  /\ d \in deletes
  /\ deletes' = deletes \ {d}
  /\ calendar' = calendar \ {d[2]}
  /\ UNCHANGED <<doc, request, tasks, creates, calm, leaked, aligned>>

DeleteFails(d) ==
  /\ d \in deletes
  /\ deletes' = deletes \ {d}
  /\ leaked' = TRUE
  /\ UNCHANGED <<doc, calendar, request, tasks, creates, calm, aligned>>

-----------------------------------------------------------------------------
Handler(r) ==
  \/ \E s \in Slot, F \in (SUBSET Employee) \ {{}} :
       Create(r, s, F) \/ Update(r, s, F) \/ BulkEdit(r, s, F)
  \/ \E label \in {"update", "relocate", "delete"} : Read(r, label)
  \/ UpdateRefused(r) \/ ReadBack(r) \/ SoftDelete(r)
  \/ \E s \in Slot : Relocate(r, s)
  \/ \E e \in todo[r] : Erase(r, e) \/ EraseFails(r, e)
  \/ Erased(r) \/ Renew(r)
  \/ BulkDelete(r) \/ StatusChange(r) \/ Restore(r)

Task(t) == GoogleCreate(t) \/ GoogleRecord(t) \/ OutlookQueue(t) \/ TaskFails(t)

Job(j) ==
  \/ JobSkips(j) \/ JobStarts(j) \/ JobCreates(j) \/ JobFails(j)
  \/ JobRecords(j) \/ JobInterrupted(j)

Next ==
  \/ \E r \in Request : Handler(r)
  \/ \E t \in tasks : Task(t)
  \/ ServerDies
  \/ \E j \in creates : Job(j)
  \/ \E d \in deletes : DeleteRuns(d) \/ DeleteFails(d)

Spec == Init /\ [][Next]_vars

-----------------------------------------------------------------------------
(* Properties                                                              *)

Document == [state : {"none", "live", "deleted"}, slot : Slot,
             staff : SUBSET Employee, version : Nat]
Showing == [slot : Slot, staff : SUBSET Employee]
TaskRecord == [by : Request, emp : Employee, via : Provider, slot : Slot,
               event : Event \cup {None}]
JobRecord == [by : Request, emp : Employee, slot : Slot, event : Event \cup {None},
              try : 1..MaxTries, at : {"queued", "call", "record"}]

\* Every variable keeps its type; no create job is tried more than max_tries
\* times.
TypeOK ==
  /\ sched \in Document
  /\ recorded \in [Employee -> [Provider -> Event \cup {None}]]
  /\ calendar \subseteq Event
  /\ pc \in [Request -> {"new", "update", "relocate", "delete", "readback",
                         "erase", "renew", "end"}]
  /\ seen \in [Request -> Nat]
  /\ todo \in [Request -> SUBSET Event]
  /\ want \in [Request -> Showing]
  /\ tasks \subseteq TaskRecord
  /\ creates \subseteq JobRecord
  /\ deletes \subseteq Request \X Event
  /\ calm \in BOOLEAN /\ leaked \in BOOLEAN /\ aligned \in BOOLEAN

\* An Outlook id is lost when Google's entry replaces it.
Shadowed(e) == e.via = "outlook" /\ e.emp \in GoogleUsers

InHand(e) == (\E t \in tasks : t.event = e) \/ (\E j \in creates : j.event = e)

\* calendar_events never loses an event that stands in a calendar: it is
\* recorded, or in the hands of a task or job that will record it, so that a
\* later move or delete can remove it.  Handlers that overlap may lose one
\* (hence calm), as may a delete that fails.
NothingForgotten ==
  calm /\ ~leaked => \A e \in calendar : Shadowed(e) \/ e \in Recorded \/ InHand(e)

InLine(via) ==
  LET stands == {e \in calendar : e.via = via /\ ~Shadowed(e)}
  IN  /\ {<<e.emp, e.slot>> : e \in stands} =
           IF Live THEN {<<f, sched.slot>> : f \in {g \in sched.staff \cap Connected(via) :
                                                   via = "google" \/ g \notin GoogleUsers}}
                   ELSE {}
      /\ \A d, e \in stands : d.emp = e.emp => d = e

\* Once a move, an edit or a delete has run its course, the Google calendars
\* show exactly the schedule as it is: one event for each connected employee,
\* at its present slot, and none once it is deleted, whatever bulk changes
\* and failed creates came before.
GoogleInLine == calm /\ ~leaked /\ aligned /\ Quiet => InLine("google")

\* sync_calendar_events_if_needed, "Delete old and create new calendar
\* events", for Outlook: after a move the employees' calendars show the new
\* slot.
OutlookInLine == calm /\ ~leaked /\ aligned /\ Quiet => InLine("outlook")

\* Deleting a schedule takes its events out of every Outlook calendar, also
\* when jobs of its creation were interrupted and run again.
OutlookCleared ==
  calm /\ ~leaked /\ aligned /\ Quiet /\ ~Live =>
    \A e \in calendar : e.via = "outlook" => Shadowed(e)
=============================================================================
