------------------------ MODULE CalendarSync_proofs ------------------------
(***************************************************************************)
(* Proofs about CalendarSync, for any employees, requests and tries.       *)
(***************************************************************************)
EXTENDS CalendarSync, TLAPS

Active(r) == pc[r] \notin {"new", "end"}
Synced(r) == pc[r] \in {"readback", "erase", "renew"}

\* Until its first failure, a delete job for e is what is left to be done.
OnItsWay(e) == e.via = "outlook" /\ \E d \in deletes : d[2] = e

\* At most one handler syncs calendars, and only once all earlier work of
\* the background is done.
Alone ==
  \A r \in Request : Active(r) => /\ tasks = {} /\ creates = {}
                                  /\ \A q \in Request : Active(q) => q = r

\* What a handler has to remove is all there is.
TodoCovers ==
  \A r \in Request : Active(r) =>
    \A e \in calendar : Shadowed(e) \/ e \in todo[r] \/ OnItsWay(e)

TodoDone == \A r \in Request : pc[r] \in {"new", "renew"} => todo[r] = {}

\* A Google task is the only source of events for its employee.
OneGoogle ==
  /\ \A d, e \in calendar :
       d.via = "google" /\ e.via = "google" /\ d.emp = e.emp => d = e
  /\ \A t \in tasks : t.via = "google" =>
       /\ \A e \in calendar : e.via = "google" /\ e.emp = t.emp => e = t.event
       /\ \A u \in tasks : u.via = "google" /\ u.emp = t.emp => u = t

\* An employee has one Outlook task or job at most, and one that has come to
\* create an event has found none recorded.
OneOutlook ==
  /\ \A t, u \in tasks : t.via = "outlook" /\ u.via = "outlook" /\ t.emp = u.emp
                           => t = u
  /\ \A j, k \in creates : j.emp = k.emp => j = k
  /\ \A t \in tasks, j \in creates : t.via = "outlook" => t.emp # j.emp
  /\ \A j \in creates : j.at # "queued" => recorded[j.emp]["outlook"] = None

Fresh ==
  sched.state = "none" =>
    /\ calendar = {} /\ tasks = {} /\ creates = {}
    /\ \A r \in Request : ~Active(r)

Told == calm /\ ~leaked

Kept == \A e \in calendar : Shadowed(e) \/ e \in Recorded \/ InHand(e)

\* What is recorded, made or queued for an employee is that employee's.
Labels ==
  /\ \A f \in Employee, via \in Provider : recorded[f][via] # None =>
       recorded[f][via].emp = f /\ recorded[f][via].via = via
  /\ \A t \in tasks :
       /\ t.via = "google" => t.emp \in GoogleUsers
       /\ t.event # None => /\ t.via = "google"
                            /\ t.event.emp = t.emp /\ t.event.via = "google"
  /\ \A j \in creates :
       /\ j.at = "record" <=> j.event # None
       /\ j.event # None => j.event.emp = j.emp /\ j.event.via = "outlook"
  /\ \A d \in deletes : d[2].via = "outlook"

Core == Alone /\ TodoCovers /\ OneGoogle /\ OneOutlook /\ Kept

IInv ==
  /\ TypeOK
  /\ TodoDone
  /\ Fresh
  /\ Labels
  /\ Told => Core

Target ==
  IF Live THEN {<<f, sched.slot>> : f \in sched.staff \cap GoogleUsers} ELSE {}
Made == {<<e.emp, e.slot>> : e \in {d \in calendar : d.via = "google"}}
Owed == {<<t.emp, t.slot>> : t \in {u \in tasks : u.via = "google" /\ u.event = None}}

Standing ==
  /\ Made \cup Owed = Target
  /\ ~Live => /\ tasks = {} /\ creates = {}
              /\ \A e \in calendar : Shadowed(e) \/ OnItsWay(e)

Alignment ==
  /\ \A r \in Request :
       /\ pc[r] \in {"update", "relocate", "delete", "readback"} => Live
       /\ pc[r] \in {"erase", "renew"} =>
            IF Live THEN want[r] = [slot |-> sched.slot, staff |-> sched.staff]
                    ELSE want[r].staff = {}
  /\ (\A r \in Request : ~Synced(r)) => Standing

AInv == Told /\ aligned => Alignment

-----------------------------------------------------------------------------
(* Type correctness                                                        *)

USE DEF Provider

LEMMA EventsAreNotNone == None \notin Event
BY NoneApart

LEMMA TypeHandler ==
  ASSUME TypeOK, NEW r \in Request, Handler(r)
  PROVE  TypeOK'
<1>1. CASE \E s \in Slot, F \in (SUBSET Employee) \ {{}} : Create(r, s, F)
  BY <1>1 DEF TypeOK, Create, Start, Goto, Wants, background, Live, Document, Showing
<1>2. CASE \E s \in Slot, F \in (SUBSET Employee) \ {{}} : Update(r, s, F)
  <2> PICK s \in Slot, F \in (SUBSET Employee) \ {{}} : Update(r, s, F)
    BY <1>2
  <2>1. sched' \in Document
    <3>1. sched \in Document /\ seen[r] + 1 \in Nat
      BY DEF TypeOK, Document
    <3>2. sched' = [sched EXCEPT !.slot = s, !.staff = F, !.version = seen[r] + 1]
      BY DEF Update
    <3> QED
      BY <3>1, <3>2 DEF Document
  <2> QED
    BY <2>1 DEF TypeOK, Update, Goto, background
<1>3. CASE \E s \in Slot, F \in (SUBSET Employee) \ {{}} : BulkEdit(r, s, F)
  <2> PICK s \in Slot, F \in (SUBSET Employee) \ {{}} : BulkEdit(r, s, F)
    BY <1>3
  <2>1. sched' \in Document
    <3>1. sched \in Document /\ sched.version + 1 \in Nat
      BY DEF TypeOK, Document
    <3>2. sched' = [sched EXCEPT !.slot = s, !.staff = F, !.version = sched.version + 1]
      BY DEF BulkEdit
    <3> QED
      BY <3>1, <3>2 DEF Document
  <2> QED
    BY <2>1 DEF TypeOK, BulkEdit, Goto, background
<1>4. CASE \E label \in {"update", "relocate", "delete"} : Read(r, label)
  <2>1. Recorded \subseteq Event
    BY DEF TypeOK, Recorded
  <2> PICK label \in {"update", "relocate", "delete"} : Read(r, label)
    BY <1>4
  <2>2. seen' \in [Request -> Nat]
    BY DEF TypeOK, Read, Document
  <2>3. todo' \in [Request -> SUBSET Event]
    BY <2>1 DEF TypeOK, Read
  <2> QED
    BY <2>2, <2>3 DEF TypeOK, Read, Start, Goto, doc, background
<1>5. CASE UpdateRefused(r)
  BY <1>5 DEF TypeOK, UpdateRefused, Goto, doc, background
<1>6. CASE ReadBack(r)
  <2>1. want' \in [Request -> Showing]
    BY <1>6 DEF TypeOK, ReadBack, Wants, Showing, Document
  <2>2. pc' \in [Request -> {"new", "update", "relocate", "delete", "readback",
                             "erase", "renew", "end"}]
    BY <1>6 DEF TypeOK, ReadBack, Goto
  <2> QED
    BY <1>6, <2>1, <2>2 DEF TypeOK, ReadBack, doc, background
<1>7. CASE SoftDelete(r)
  <2>1. want' \in [Request -> Showing]
    BY <1>7 DEF TypeOK, SoftDelete, Wants, Showing, Document
  <2>2. pc' \in [Request -> {"new", "update", "relocate", "delete", "readback",
                             "erase", "renew", "end"}]
    BY <1>7 DEF TypeOK, SoftDelete, Goto
  <2>3. sched' \in Document
    BY <1>7 DEF TypeOK, SoftDelete, Document
  <2> QED
    BY <1>7, <2>1, <2>2, <2>3 DEF TypeOK, SoftDelete, background
<1>8. CASE \E s \in Slot : Relocate(r, s)
  <2> PICK s \in Slot : Relocate(r, s)
    BY <1>8
  <2>1. want' \in [Request -> Showing]
    BY DEF TypeOK, Relocate, Wants, Showing, Document
  <2>2. pc' \in [Request -> {"new", "update", "relocate", "delete", "readback",
                             "erase", "renew", "end"}]
    BY DEF TypeOK, Relocate, Goto
  <2>3. sched' \in Document
    <3>1. sched \in Document /\ sched.version + 1 \in Nat
      BY DEF TypeOK, Document
    <3>2. \/ sched' = [sched EXCEPT !.slot = s, !.version = sched.version + 1]
          \/ sched' = sched
      BY DEF Relocate
    <3> QED
      BY <3>1, <3>2 DEF Document
  <2> QED
    BY <2>1, <2>2, <2>3 DEF TypeOK, Relocate, background
<1>9. CASE \E e \in todo[r] : Erase(r, e)
  BY <1>9 DEF TypeOK, Erase, doc
<1>10. CASE \E e \in todo[r] : EraseFails(r, e)
  BY <1>10 DEF TypeOK, EraseFails, doc, background
<1>11. CASE Erased(r)
  BY <1>11 DEF TypeOK, Erased, Goto, doc, background
<1>12. CASE Renew(r)
  <2>1. tasks' \subseteq TaskRecord
    <3>1. /\ want[r].staff \subseteq Employee /\ want[r].slot \in Slot
          /\ tasks \subseteq TaskRecord
      BY DEF TypeOK, Showing
    <3>2. \A x \in tasks' : x \in tasks \/ \E via \in Provider :
            \E f \in want[r].staff \cap Connected(via) :
              x = [by |-> r, emp |-> f, via |-> via, slot |-> want[r].slot, event |-> None]
      BY <1>12 DEF Renew
    <3> QED
      BY <3>1, <3>2 DEF TaskRecord
  <2> QED
    BY <1>12, <2>1 DEF TypeOK, Renew, Goto, doc
<1>13. CASE BulkDelete(r)
  BY <1>13 DEF TypeOK, BulkDelete, Goto, background, Document
<1>14. CASE StatusChange(r)
  BY <1>14 DEF TypeOK, StatusChange, Goto, background, Document
<1>15. CASE Restore(r)
  BY <1>15 DEF TypeOK, Restore, Goto, background, Document
<1> QED
  BY <1>1, <1>2, <1>3, <1>4, <1>5, <1>6, <1>7, <1>8, <1>9, <1>10, <1>11,
     <1>12, <1>13, <1>14, <1>15 DEF Handler

LEMMA MadeEvents ==
  ASSUME TypeOK
  PROVE  /\ \A t \in tasks : NewEvent(t, "google", 1) \in Event
         /\ \A j \in creates : NewEvent(j, "outlook", j.try) \in Event
BY TriesPositive DEF TypeOK, NewEvent, Event, TaskRecord, JobRecord

LEMMA TypeTask ==
  ASSUME TypeOK, NEW t \in tasks, Task(t)
  PROVE  TypeOK'
<1>1. CASE GoogleCreate(t)
  <2>1. NewEvent(t, "google", 1) \in Event
    BY MadeEvents
  <2>2. [t EXCEPT !.event = NewEvent(t, "google", 1)] \in TaskRecord
    BY <2>1 DEF TypeOK, TaskRecord
  <2> QED
    BY <1>1, <2>1, <2>2 DEF TypeOK, GoogleCreate, doc, request
<1>2. CASE GoogleRecord(t)
  BY <1>2 DEF TypeOK, GoogleRecord, request, TaskRecord
<1>3. CASE OutlookQueue(t)
  BY <1>3, TriesPositive DEF TypeOK, OutlookQueue, doc, request, TaskRecord, JobRecord
<1>4. CASE TaskFails(t)
  BY <1>4, MadeEvents DEF TypeOK, TaskFails, doc, request
<1> QED
  BY <1>1, <1>2, <1>3, <1>4 DEF Task

LEMMA TypeJob ==
  ASSUME TypeOK, NEW j \in creates, Job(j)
  PROVE  TypeOK'
<1> j \in JobRecord
  BY DEF TypeOK
<1>1. CASE JobSkips(j)
  BY <1>1 DEF TypeOK, JobSkips, doc, request
<1>2. CASE JobStarts(j)
  BY <1>2 DEF TypeOK, JobStarts, Move, doc, request, JobRecord
<1>3. CASE JobCreates(j)
  <2>1. NewEvent(j, "outlook", j.try) \in Event
    BY MadeEvents
  <2>2. [j EXCEPT !.at = "record", !.event = NewEvent(j, "outlook", j.try)] \in JobRecord
    BY <2>1 DEF JobRecord
  <2> QED
    BY <1>3, <2>1, <2>2 DEF TypeOK, JobCreates, Move, doc, request
<1>4. CASE JobFails(j)
  BY <1>4, MadeEvents DEF TypeOK, JobFails, doc, request
<1>5. CASE JobRecords(j)
  BY <1>5 DEF TypeOK, JobRecords, request, JobRecord
<1>6. CASE JobInterrupted(j)
  <2>1. j.try < MaxTries =>
          [j EXCEPT !.at = "queued", !.event = None, !.try = @ + 1] \in JobRecord
    <3> SUFFICES ASSUME j.try < MaxTries
                 PROVE  [j EXCEPT !.at = "queued", !.event = None, !.try = @ + 1] \in JobRecord
      OBVIOUS
    <3>1. j.try + 1 \in 1..MaxTries
      BY TriesPositive DEF JobRecord
    <3> QED
      BY <3>1 DEF JobRecord
  <2> QED
    BY <1>6, <2>1 DEF TypeOK, JobInterrupted, Move, doc, request
<1> QED
  BY <1>1, <1>2, <1>3, <1>4, <1>5, <1>6 DEF Job

LEMMA TypeInit == Init => TypeOK
<1> SUFFICES ASSUME Init PROVE TypeOK
  OBVIOUS
<1>1. sched \in Document
  BY DEF Init, Document
<1>2. want \in [Request -> Showing]
  BY <1>1 DEF Init, Showing, Document
<1> QED
  BY <1>1, <1>2 DEF Init, TypeOK

LEMMA TypeStep == TypeOK /\ [Next]_vars => TypeOK'
<1> SUFFICES ASSUME TypeOK, [Next]_vars PROVE TypeOK'
  OBVIOUS
<1>1. CASE ServerDies
  BY <1>1 DEF TypeOK, ServerDies, doc
<1>2. CASE \E d \in deletes : DeleteRuns(d) \/ DeleteFails(d)
  BY <1>2 DEF TypeOK, DeleteRuns, DeleteFails, doc, request
<1>3. CASE UNCHANGED vars
  BY <1>3 DEF TypeOK, vars
<1> QED
  BY <1>1, <1>2, <1>3, TypeHandler, TypeTask, TypeJob DEF Next

\* Every reachable state of the calendar sync is well typed; in particular no
\* create job is tried more than max_tries times.
THEOREM TypeCorrectCalendars == Spec => []TypeOK
BY TypeInit, TypeStep, PTL DEF Spec

-----------------------------------------------------------------------------
(* What the handlers have in common                                        *)

\* The steps of a handler that neither touch calendars nor start tasks.
Plain(r) ==
  \/ \E s \in Slot, F \in (SUBSET Employee) \ {{}} : Update(r, s, F) \/ BulkEdit(r, s, F)
  \/ UpdateRefused(r) \/ ReadBack(r) \/ SoftDelete(r)
  \/ \E s \in Slot : Relocate(r, s)
  \/ Erased(r) \/ BulkDelete(r) \/ StatusChange(r) \/ Restore(r)

LEMMA HandlerSteps ==
  ASSUME NEW r \in Request, Handler(r)
  PROVE  \/ Plain(r)
         \/ \E s \in Slot, F \in (SUBSET Employee) \ {{}} : Create(r, s, F)
         \/ \E label \in {"update", "relocate", "delete"} : Read(r, label)
         \/ \E e \in todo[r] : Erase(r, e)
         \/ \E e \in todo[r] : EraseFails(r, e)
         \/ Renew(r)
BY DEF Handler, Plain

LEMMA PlainSteps ==
  ASSUME TypeOK, NEW r \in Request, Plain(r)
  PROVE  /\ UNCHANGED <<recorded, calendar, todo, tasks, creates, deletes, calm, leaked>>
         /\ \E l \in {"readback", "erase", "renew", "end"} :
              /\ pc' = [pc EXCEPT ![r] = l]
              /\ l # "end" => Active(r)
              /\ l = "renew" => todo[r] = {}
         /\ sched.state # "none" \/ Active(r)
         /\ sched.state = "none" <=> sched'.state = "none"
<1> sched \in Document
  BY DEF TypeOK
<1>1. CASE \E s \in Slot, F \in (SUBSET Employee) \ {{}} : Update(r, s, F)
  BY <1>1 DEF Update, Goto, background, Active, Live, Document
<1>2. CASE \E s \in Slot, F \in (SUBSET Employee) \ {{}} : BulkEdit(r, s, F)
  BY <1>2 DEF BulkEdit, Goto, background, Active, Live, Document
<1>3. CASE UpdateRefused(r)
  BY <1>3 DEF UpdateRefused, Goto, doc, background, Active
<1>4. CASE ReadBack(r)
  BY <1>4 DEF ReadBack, Goto, doc, background, Active
<1>5. CASE SoftDelete(r)
  BY <1>5 DEF SoftDelete, Goto, background, Active, Live, Document
<1>6. CASE \E s \in Slot : Relocate(r, s)
  BY <1>6 DEF Relocate, Goto, background, Active, Live, Document
<1>7. CASE Erased(r)
  BY <1>7 DEF Erased, Goto, doc, background, Active
<1>8. CASE BulkDelete(r)
  BY <1>8 DEF BulkDelete, Goto, background, Live, Document
<1>9. CASE StatusChange(r)
  BY <1>9 DEF StatusChange, Goto, background, Live, Document
<1>10. CASE Restore(r)
  BY <1>10 DEF Restore, Goto, background, Document
<1> QED
  BY <1>1, <1>2, <1>3, <1>4, <1>5, <1>6, <1>7, <1>8, <1>9, <1>10 DEF Plain

-----------------------------------------------------------------------------
(* The unconditional part of the invariant                                 *)

LEMMA TodoStep ==
  ASSUME TypeOK, TodoDone, [Next]_vars
  PROVE  TodoDone'
<1>1. ASSUME NEW r \in Request, Handler(r) PROVE TodoDone'
  <2>1. CASE Plain(r)
    BY <2>1, PlainSteps DEF TypeOK, TodoDone
  <2>2. CASE \E s \in Slot, F \in (SUBSET Employee) \ {{}} : Create(r, s, F)
    BY <2>2 DEF TypeOK, TodoDone, Create, Start, Goto
  <2>3. CASE \E label \in {"update", "relocate", "delete"} : Read(r, label)
    BY <2>3 DEF TypeOK, TodoDone, Read, Start, Goto
  <2>4. CASE \E e \in todo[r] : Erase(r, e)
    BY <2>4 DEF TypeOK, TodoDone, Erase
  <2>5. CASE \E e \in todo[r] : EraseFails(r, e)
    BY <2>5 DEF TypeOK, TodoDone, EraseFails
  <2>6. CASE Renew(r)
    BY <2>6 DEF TypeOK, TodoDone, Renew, Goto
  <2> QED
    BY <1>1, <2>1, <2>2, <2>3, <2>4, <2>5, <2>6, HandlerSteps
<1>2. ASSUME NEW t \in tasks, Task(t) PROVE TodoDone'
  BY <1>2 DEF TodoDone, Task, GoogleCreate, GoogleRecord, OutlookQueue, TaskFails, request
<1>3. CASE ServerDies
  BY <1>3 DEF TypeOK, TodoDone, ServerDies
<1>4. ASSUME NEW j \in creates, Job(j) PROVE TodoDone'
  BY <1>4 DEF TodoDone, Job, JobSkips, JobStarts, JobCreates, JobFails, JobRecords,
              JobInterrupted, request
<1>5. ASSUME NEW d \in deletes, DeleteRuns(d) \/ DeleteFails(d) PROVE TodoDone'
  BY <1>5 DEF TodoDone, DeleteRuns, DeleteFails, request
<1>6. CASE UNCHANGED vars
  BY <1>6 DEF TodoDone, vars, request
<1> QED
  BY <1>1, <1>2, <1>3, <1>4, <1>5, <1>6 DEF Next

LEMMA FreshStep ==
  ASSUME TypeOK, Fresh, [Next]_vars
  PROVE  Fresh'
<1> sched \in Document
  BY DEF TypeOK
<1>1. ASSUME NEW r \in Request, Handler(r) PROVE Fresh'
  <2>1. CASE Plain(r)
    <3>1. sched.state # "none"
      BY <2>1, PlainSteps DEF Fresh
    <3> QED
      BY <2>1, <3>1, PlainSteps DEF Fresh
  <2>2. CASE \E s \in Slot, F \in (SUBSET Employee) \ {{}} : Create(r, s, F)
    BY <2>2 DEF Fresh, Create
  <2>3. CASE \E label \in {"update", "relocate", "delete"} : Read(r, label)
    BY <2>3 DEF Fresh, Read, Live, doc
  <2>4. CASE (\E e \in todo[r] : Erase(r, e) \/ EraseFails(r, e)) \/ Renew(r)
    BY <2>4 DEF Fresh, Active, Erase, EraseFails, Renew, doc
  <2> QED
    BY <1>1, <2>1, <2>2, <2>3, <2>4, HandlerSteps
<1>2. ASSUME NEW t \in tasks, Task(t) PROVE Fresh'
  BY <1>2 DEF Fresh, Task, GoogleCreate, GoogleRecord, OutlookQueue, TaskFails, doc
<1>3. CASE ServerDies
  BY <1>3 DEF Fresh, Active, ServerDies, doc, TypeOK
<1>4. ASSUME NEW j \in creates, Job(j) PROVE Fresh'
  BY <1>4 DEF Fresh, Job, JobSkips, JobStarts, JobCreates, JobFails, JobRecords,
              JobInterrupted, doc
<1>5. ASSUME NEW d \in deletes, DeleteRuns(d) \/ DeleteFails(d) PROVE Fresh'
  BY <1>5 DEF Fresh, Active, DeleteRuns, DeleteFails, doc, request
<1>6. CASE UNCHANGED vars
  BY <1>6 DEF Fresh, Active, vars, doc, request, background
<1> QED
  BY <1>1, <1>2, <1>3, <1>4, <1>5, <1>6 DEF Next

LEMMA LabelsStep ==
  ASSUME TypeOK, Labels, [Next]_vars
  PROVE  Labels'
<1>1. ASSUME NEW r \in Request, Handler(r) PROVE Labels'
  <2>1. CASE Renew(r)
    <3>1. \A x \in tasks' : x \in tasks \/ \E via \in Provider :
            \E f \in want[r].staff \cap Connected(via) :
              x = [by |-> r, emp |-> f, via |-> via, slot |-> want[r].slot, event |-> None]
      BY <2>1 DEF Renew
    <3> QED
      BY <2>1, <3>1 DEF Labels, Renew, doc, Connected
  <2>2. CASE \E e \in todo[r] : Erase(r, e)
    <3> PICK e \in todo[r] : Erase(r, e)
      BY <2>2
    <3>1. e \in Event
      BY DEF TypeOK
    <3> QED
      BY <3>1 DEF Labels, Erase, doc, Event
  <2>3. CASE ~Renew(r) /\ ~\E e \in todo[r] : Erase(r, e)
    <3>1. UNCHANGED <<recorded, tasks, creates, deletes>>
      BY <1>1, <2>3, HandlerSteps, PlainSteps
         DEF Create, Read, EraseFails, doc, background
    <3> QED
      BY <3>1 DEF Labels
  <2> QED
    BY <2>1, <2>2, <2>3
<1>2. ASSUME NEW t \in tasks, Task(t) PROVE Labels'
  <2> t \in TaskRecord
    BY DEF TypeOK
  <2>1. CASE GoogleCreate(t)
    BY <2>1 DEF Labels, GoogleCreate, NewEvent, doc, TaskRecord
  <2>2. CASE GoogleRecord(t)
    BY <2>2 DEF TypeOK, Labels, GoogleRecord, TaskRecord
  <2>3. CASE OutlookQueue(t)
    BY <2>3 DEF Labels, OutlookQueue, doc
  <2>4. CASE TaskFails(t)
    BY <2>4 DEF Labels, TaskFails, doc
  <2> QED
    BY <1>2, <2>1, <2>2, <2>3, <2>4 DEF Task
<1>3. CASE ServerDies
  BY <1>3 DEF Labels, ServerDies, doc
<1>4. ASSUME NEW j \in creates, Job(j) PROVE Labels'
  <2> j \in JobRecord
    BY DEF TypeOK
  <2>1. CASE JobSkips(j) \/ JobFails(j)
    BY <2>1 DEF Labels, JobSkips, JobFails, doc
  <2>2. CASE JobStarts(j)
    BY <2>2 DEF Labels, JobStarts, Move, doc, JobRecord
  <2>3. CASE JobCreates(j)
    <3>1. NewEvent(j, "outlook", j.try) # None
      BY MadeEvents, EventsAreNotNone
    <3> DEFINE e == NewEvent(j, "outlook", j.try)
               k == [j EXCEPT !.at = "record", !.event = e]
    <3>2. e.emp = j.emp /\ e.via = "outlook"
      BY DEF NewEvent
    <3>3. k.at = "record" /\ k.event = e /\ k.emp = j.emp
      BY DEF JobRecord
    <3>4. creates' = (creates \ {j}) \cup {k} /\ UNCHANGED <<recorded, tasks, deletes>>
      BY <2>3 DEF JobCreates, Move, doc
    <3> HIDE DEF e, k
    <3> QED
      BY <3>1, <3>2, <3>3, <3>4 DEF Labels, e
  <2>4. CASE JobRecords(j)
    BY <2>4 DEF TypeOK, Labels, JobRecords
  <2>5. CASE JobInterrupted(j)
    <3> DEFINE k == [j EXCEPT !.at = "queued", !.event = None, !.try = @ + 1]
    <3>1. k.at = "queued" /\ k.event = None
      BY DEF JobRecord
    <3>2. creates' \subseteq creates \cup {k} /\ UNCHANGED <<recorded, tasks, deletes>>
      BY <2>5 DEF JobInterrupted, Move, doc
    <3> HIDE DEF k
    <3> QED
      BY <3>1, <3>2 DEF Labels
  <2> QED
    BY <1>4, <2>1, <2>2, <2>3, <2>4, <2>5 DEF Job
<1>5. ASSUME NEW d \in deletes, DeleteRuns(d) \/ DeleteFails(d) PROVE Labels'
  BY <1>5 DEF Labels, DeleteRuns, DeleteFails, doc
<1>6. CASE UNCHANGED vars
  BY <1>6 DEF Labels, vars, doc, background
<1> QED
  BY <1>1, <1>2, <1>3, <1>4, <1>5, <1>6 DEF Next

-----------------------------------------------------------------------------
(* Nothing is forgotten                                                    *)

LEMMA PlainKeepsCore ==
  ASSUME IInv, NEW r \in Request, Plain(r), Told'
  PROVE  Core'
<1>1. Told /\ TypeOK /\ TodoDone /\ Core
  BY PlainSteps DEF IInv, Told
<1>2. PICK l \in {"readback", "erase", "renew", "end"} :
        /\ pc' = [pc EXCEPT ![r] = l]
        /\ l # "end" => Active(r)
        /\ l = "renew" => todo[r] = {}
  BY <1>1, PlainSteps
<1>3. UNCHANGED <<recorded, calendar, todo, tasks, creates, deletes>>
  BY <1>1, PlainSteps
<1>4. \A q \in Request : Active(q)' => Active(q)
  BY <1>1, <1>2 DEF Active, TypeOK
<1>5. Alone' /\ TodoCovers'
  BY <1>1, <1>3, <1>4 DEF Core, Alone, TodoCovers, OnItsWay, Shadowed
<1>6. OneGoogle' /\ OneOutlook' /\ Kept'
  BY <1>1, <1>3 DEF Core, OneGoogle, OneOutlook, Kept, Recorded, InHand, Shadowed
<1> QED
  BY <1>5, <1>6 DEF Core

LEMMA CreateKeepsCore ==
  ASSUME IInv, NEW r \in Request, NEW s \in Slot, NEW F \in SUBSET Employee,
         Create(r, s, F), Told'
  PROVE  Core'
<1>1. /\ Told /\ Quiet /\ calendar = {} /\ tasks = {} /\ creates = {}
      /\ UNCHANGED <<recorded, calendar, tasks, creates>>
      /\ pc' = [pc EXCEPT ![r] = "renew"]
  BY DEF IInv, Fresh, Told, Create, Start, Goto, background
<1>2. \A q \in Request : Active(q)' => q = r
  BY <1>1 DEF Quiet, Active, IInv, TypeOK
<1>3. Alone' /\ TodoCovers'
  BY <1>1, <1>2 DEF Alone, TodoCovers
<1>4. OneGoogle' /\ OneOutlook' /\ Kept'
  BY <1>1 DEF OneGoogle, OneOutlook, Kept
<1> QED
  BY <1>3, <1>4 DEF Core

LEMMA ReadKeepsCore ==
  ASSUME IInv, NEW r \in Request, NEW label \in {"update", "relocate", "delete"},
         Read(r, label), Told'
  PROVE  Core'
<1>1. /\ Told /\ Quiet /\ TypeOK /\ Core /\ tasks = {} /\ creates = {}
      /\ UNCHANGED <<recorded, calendar, tasks, creates, deletes>>
      /\ pc' = [pc EXCEPT ![r] = label]
      /\ todo' = [todo EXCEPT ![r] = Recorded]
  BY DEF IInv, Told, Read, Start, Goto, Quiet, doc, background
<1>2. \A q \in Request : Active(q)' => q = r
  BY <1>1 DEF Quiet, Active, TypeOK
<1>3. Alone'
  BY <1>1, <1>2 DEF Alone
<1>4. \A e \in calendar : Shadowed(e) \/ e \in Recorded
  BY <1>1 DEF Core, Kept, InHand
<1>5. TodoCovers'
  BY <1>1, <1>2, <1>4 DEF TodoCovers, TypeOK, Shadowed
<1>6. OneGoogle' /\ OneOutlook' /\ Kept'
  BY <1>1 DEF Core, OneGoogle, OneOutlook, Kept, Recorded, InHand, Shadowed
<1> QED
  BY <1>3, <1>5, <1>6 DEF Core

LEMMA EraseKeepsCore ==
  ASSUME IInv, NEW r \in Request, NEW e \in todo[r], Erase(r, e), Told'
  PROVE  Core'
<1>1. /\ Told /\ TypeOK /\ Core /\ Active(r)
      /\ UNCHANGED <<recorded, tasks, creates, pc>>
      /\ todo' = [todo EXCEPT ![r] = @ \ {e}]
      /\ calendar' \subseteq calendar
      /\ deletes \subseteq deletes'
  BY DEF IInv, Told, Erase, Active, doc
<1>2. e.via = "google" => calendar' = calendar \ {e}
  BY DEF Erase
<1>3. e.via # "google" => <<r, e>> \in deletes'
  BY DEF Erase
<1>4. e \in Event
  BY <1>1 DEF TypeOK
<1>5. OnItsWay(e)' \/ e \notin calendar'
  BY <1>2, <1>3, <1>4 DEF OnItsWay, Event
<1>6. Alone'
  BY <1>1 DEF Core, Alone, Active
<1>7. \A q \in Request : Active(q)' => q = r
  BY <1>1 DEF Core, Alone, Active
<1>8. \A x \in calendar' : Shadowed(x)' \/ x \in todo'[r] \/ OnItsWay(x)'
  <2> TAKE x \in calendar'
  <2>1. Shadowed(x) \/ x \in todo[r] \/ OnItsWay(x)
    BY <1>1 DEF Core, TodoCovers
  <2>2. x \in todo[r] => x \in todo'[r] \/ x = e
    BY <1>1 DEF TypeOK
  <2>3. OnItsWay(x) => OnItsWay(x)'
    BY <1>1 DEF OnItsWay
  <2> QED
    BY <2>1, <2>2, <2>3, <1>5 DEF Shadowed
<1>9. TodoCovers'
  BY <1>7, <1>8 DEF TodoCovers
<1>10. OneGoogle' /\ OneOutlook' /\ Kept'
  BY <1>1 DEF Core, OneGoogle, OneOutlook, Kept, Recorded, InHand, Shadowed
<1> QED
  BY <1>6, <1>9, <1>10 DEF Core

LEMMA RenewKeepsCore ==
  ASSUME IInv, NEW r \in Request, Renew(r), Told'
  PROVE  Core'
<1>1. /\ Told /\ TypeOK /\ Core /\ Active(r) /\ todo[r] = {}
      /\ UNCHANGED <<recorded, calendar, creates>>
      /\ pc' = [pc EXCEPT ![r] = "end"]
  BY DEF IInv, TodoDone, Told, Renew, Active, Goto, doc
<1>2. /\ tasks = {} /\ creates = {}
      /\ \A q \in Request : Active(q) => q = r
  BY <1>1 DEF Core, Alone
<1>3. \A q \in Request : ~Active(q)'
  BY <1>1, <1>2 DEF Active, TypeOK
<1>4. Alone' /\ TodoCovers'
  BY <1>3 DEF Alone, TodoCovers
<1>5. \A t \in tasks' : \E via \in Provider :
        \E f \in want[r].staff \cap Connected(via) :
          t = [by |-> r, emp |-> f, via |-> via, slot |-> want[r].slot, event |-> None]
  BY <1>2 DEF Renew
<1>6. \A t, u \in tasks' : t.via = u.via /\ t.emp = u.emp => t = u
  BY <1>5
<1>7. \A e \in calendar : e.via # "google"
  BY <1>1 DEF Core, TodoCovers, Shadowed, OnItsWay
<1>8. OneGoogle'
  BY <1>1, <1>6, <1>7 DEF OneGoogle
<1>9. OneOutlook'
  BY <1>1, <1>2, <1>6 DEF OneOutlook
<1>10. Kept'
  BY <1>1, <1>2 DEF Core, Kept, Recorded, InHand, Shadowed
<1> QED
  BY <1>4, <1>8, <1>9, <1>10 DEF Core

\* While there are tasks or create jobs no handler that syncs is at work.
LEMMA NobodyActive ==
  ASSUME Core, tasks # {} \/ creates # {}
  PROVE  \A q \in Request : ~Active(q)
BY DEF Core, Alone

LEMMA TaskKeepsCore ==
  ASSUME IInv, NEW t \in tasks, Task(t), Told'
  PROVE  Core'
<1>1. Told /\ TypeOK /\ Labels /\ Core /\ t \in TaskRecord
  BY DEF IInv, Told, Task, GoogleCreate, GoogleRecord, OutlookQueue, TaskFails, TypeOK
<1>2. Alone' /\ TodoCovers'
  <2>1. UNCHANGED pc
    BY DEF Task, GoogleCreate, GoogleRecord, OutlookQueue, TaskFails, request
  <2> QED
    BY <1>1, <2>1, NobodyActive DEF Alone, TodoCovers, Active
<1>3. CASE GoogleCreate(t)
  <2> DEFINE e == NewEvent(t, "google", 1)
             u == [t EXCEPT !.event = e]
  <2>1. /\ e \in Event /\ e # None /\ e.emp = t.emp /\ e.via = "google"
    BY <1>1, MadeEvents, EventsAreNotNone DEF NewEvent
  <2>2. u.event = e /\ u.emp = t.emp /\ u.via = t.via
    BY <1>1 DEF TaskRecord
  <2>3. /\ calendar' = calendar \cup {e}
        /\ tasks' = (tasks \ {t}) \cup {u}
        /\ t.via = "google" /\ t.event = None
        /\ UNCHANGED <<recorded, creates>>
    BY <1>3 DEF GoogleCreate, doc
  <2> HIDE DEF e, u
  <2>4. \A x \in calendar : x.via = "google" => x.emp # t.emp
    BY <1>1, <2>3, EventsAreNotNone DEF Core, OneGoogle, TypeOK
  <2>5. \A w \in tasks \ {t} : w.via = "google" => w.emp # t.emp
    BY <1>1, <2>3 DEF Core, OneGoogle
  <2>6. OneGoogle'
    BY <1>1, <2>1, <2>2, <2>3, <2>4, <2>5 DEF Core, OneGoogle
  <2>7. OneOutlook'
    BY <1>1, <2>2, <2>3 DEF Core, OneOutlook
  <2>8. Kept'
    BY <1>1, <2>2, <2>3, EventsAreNotNone DEF Core, Kept, Recorded, InHand, Shadowed, TypeOK
  <2> QED
    BY <1>2, <2>6, <2>7, <2>8 DEF Core
<1>4. CASE GoogleRecord(t)
  <2>1. /\ recorded' = [recorded EXCEPT ![t.emp] =
                          [via \in Provider |-> IF via = "google" THEN t.event ELSE None]]
        /\ tasks' = tasks \ {t}
        /\ t.via = "google" /\ t.event # None
        /\ UNCHANGED <<calendar, creates>>
    BY <1>4 DEF GoogleRecord
  <2>2. /\ t.emp \in Employee /\ t.emp \in GoogleUsers
        /\ recorded'[t.emp]["google"] = t.event /\ recorded'[t.emp]["outlook"] = None
        /\ \A f \in Employee : f # t.emp => recorded'[f] = recorded[f]
    BY <1>1, <2>1 DEF TypeOK, TaskRecord, Labels
  <2>3. OneGoogle'
    BY <1>1, <2>1 DEF Core, OneGoogle
  <2>4. OneOutlook'
    BY <1>1, <2>1, <2>2 DEF Core, OneOutlook, TypeOK, JobRecord
  <2>5. \A e \in calendar : e \in Recorded => Shadowed(e) \/ e \in Recorded'
    <3> TAKE e \in calendar
    <3> SUFFICES ASSUME e \in Recorded PROVE Shadowed(e) \/ e \in Recorded'
      OBVIOUS
    <3>1. e # None
      BY <1>1, EventsAreNotNone DEF TypeOK
    <3>2. PICK f \in Employee, via \in Provider : e = recorded[f][via]
      BY DEF Recorded
    <3>3. e.emp = f /\ e.via = via
      BY <1>1, <3>1, <3>2 DEF Labels
    <3>4. CASE f # t.emp
      BY <2>2, <3>1, <3>2, <3>4 DEF Recorded
    <3>5. CASE f = t.emp /\ via = "outlook"
      BY <2>2, <3>3, <3>5 DEF Shadowed
    <3>6. CASE f = t.emp /\ via = "google"
      <4>1. e = t.event
        BY <1>1, <2>1, <3>3, <3>6 DEF Core, OneGoogle
      <4> QED
        BY <2>2, <3>1, <4>1 DEF Recorded
    <3> QED
      BY <3>4, <3>5, <3>6
  <2>6. t.event \in Recorded'
    BY <2>1, <2>2 DEF Recorded
  <2>7. Kept'
    BY <1>1, <2>1, <2>5, <2>6 DEF Core, Kept, InHand, Shadowed
  <2> QED
    BY <1>2, <2>3, <2>4, <2>7 DEF Core
<1>5. CASE OutlookQueue(t)
  <2> DEFINE j == [by |-> t.by, emp |-> t.emp, slot |-> t.slot, event |-> None,
                   try |-> 1, at |-> "queued"]
  <2>1. /\ tasks' = tasks \ {t} /\ t.via = "outlook" /\ t.event = None
        /\ creates' = creates \cup {j} /\ j.emp = t.emp /\ j.at = "queued"
        /\ UNCHANGED <<recorded, calendar>>
    BY <1>1, <1>5 DEF OutlookQueue, Labels, doc
  <2> HIDE DEF j
  <2>2. OneGoogle'
    BY <1>1, <2>1 DEF Core, OneGoogle
  <2>3. OneOutlook'
    BY <1>1, <2>1 DEF Core, OneOutlook
  <2>4. Kept'
    BY <1>1, <2>1, EventsAreNotNone DEF Core, Kept, Recorded, InHand, Shadowed, TypeOK
  <2> QED
    BY <1>2, <2>2, <2>3, <2>4 DEF Core
<1>6. CASE TaskFails(t)
  <2>1. /\ tasks' = tasks \ {t} /\ t.event = None
        /\ UNCHANGED <<recorded, calendar, creates>>
    BY <1>6 DEF TaskFails, doc, Told
  <2>2. OneGoogle' /\ OneOutlook'
    BY <1>1, <2>1 DEF Core, OneGoogle, OneOutlook
  <2>3. Kept'
    BY <1>1, <2>1, EventsAreNotNone DEF Core, Kept, Recorded, InHand, Shadowed, TypeOK
  <2> QED
    BY <1>2, <2>2, <2>3 DEF Core
<1> QED
  BY <1>3, <1>4, <1>5, <1>6 DEF Task

LEMMA ServerDiesKeepsCore ==
  ASSUME IInv, ServerDies, Told'
  PROVE  Core'
<1>1. /\ Told /\ TypeOK /\ Core /\ tasks' = {}
      /\ \A t \in tasks : t.event = None
      /\ UNCHANGED <<recorded, calendar, creates>>
  BY DEF IInv, Told, ServerDies, doc
<1>2. \A q \in Request : ~Active(q)'
  BY DEF ServerDies, Active
<1>3. Alone' /\ TodoCovers'
  BY <1>2 DEF Alone, TodoCovers
<1>4. OneGoogle' /\ OneOutlook'
  BY <1>1 DEF Core, OneGoogle, OneOutlook
<1>5. Kept'
  BY <1>1, EventsAreNotNone DEF Core, Kept, Recorded, InHand, Shadowed, TypeOK
<1> QED
  BY <1>3, <1>4, <1>5 DEF Core

LEMMA JobKeepsCore ==
  ASSUME IInv, NEW j \in creates, Job(j), Told'
  PROVE  Core'
<1>1. Told /\ TypeOK /\ Labels /\ Core /\ j \in JobRecord
  BY DEF IInv, Told, Job, JobSkips, JobStarts, JobCreates, JobFails, JobRecords,
         JobInterrupted, TypeOK
<1>2. UNCHANGED tasks
  BY DEF Job, JobSkips, JobStarts, JobCreates, JobFails, JobRecords, JobInterrupted
<1>3. Alone' /\ TodoCovers'
  <2>1. UNCHANGED pc
    BY DEF Job, JobSkips, JobStarts, JobCreates, JobFails, JobRecords, JobInterrupted,
           request
  <2> QED
    BY <1>1, <2>1, NobodyActive DEF Alone, TodoCovers, Active
<1>4. ASSUME creates' = creates \ {j}, j.event = None, UNCHANGED <<recorded, calendar>>
      PROVE  Core'
  <2>1. OneGoogle' /\ OneOutlook'
    BY <1>1, <1>2, <1>4 DEF Core, OneGoogle, OneOutlook
  <2>2. Kept'
    BY <1>1, <1>2, <1>4, EventsAreNotNone
       DEF Core, Kept, Recorded, InHand, Shadowed, TypeOK
  <2> QED
    BY <1>3, <2>1, <2>2 DEF Core
<1>5. ASSUME NEW k, k.emp = j.emp, creates' = (creates \ {j}) \cup {k}, j.event = None,
             k.at = "queued" \/ recorded[j.emp]["outlook"] = None,
             UNCHANGED <<recorded, calendar>>
      PROVE  Core'
  <2>1. OneGoogle'
    BY <1>1, <1>2, <1>5 DEF Core, OneGoogle
  <2>2. OneOutlook'
    BY <1>1, <1>2, <1>5 DEF Core, OneOutlook
  <2>3. Kept'
    BY <1>1, <1>2, <1>5, EventsAreNotNone
       DEF Core, Kept, Recorded, InHand, Shadowed, TypeOK
  <2> QED
    BY <1>3, <2>1, <2>2, <2>3 DEF Core
<1>6. CASE JobSkips(j)
  BY <1>1, <1>4, <1>6 DEF JobSkips, doc, Labels
<1>7. CASE JobStarts(j)
  <2> DEFINE k == [j EXCEPT !.at = "call"]
  <2>1. k.emp = j.emp
    BY <1>1 DEF JobRecord
  <2>2. /\ creates' = (creates \ {j}) \cup {k} /\ j.event = None
        /\ recorded[j.emp]["outlook"] = None /\ UNCHANGED <<recorded, calendar>>
    BY <1>1, <1>7 DEF JobStarts, Move, doc, Labels
  <2> HIDE DEF k
  <2> QED
    BY <1>5, <2>1, <2>2
<1>8. CASE JobCreates(j)
  <2> DEFINE e == NewEvent(j, "outlook", j.try)
             k == [j EXCEPT !.at = "record", !.event = e]
  <2>1. e.via = "outlook"
    BY DEF NewEvent
  <2>2. k.emp = j.emp /\ k.event = e
    BY <1>1 DEF JobRecord
  <2>3. /\ calendar' = calendar \cup {e} /\ creates' = (creates \ {j}) \cup {k}
        /\ j.at = "call" /\ j.event = None /\ UNCHANGED recorded
    BY <1>1, <1>8 DEF JobCreates, Move, doc, Labels
  <2> HIDE DEF e, k
  <2>4. OneGoogle'
    BY <1>1, <1>2, <2>1, <2>3 DEF Core, OneGoogle
  <2>5. OneOutlook'
    BY <1>1, <1>2, <2>2, <2>3 DEF Core, OneOutlook
  <2>6. Kept'
    BY <1>1, <1>2, <2>2, <2>3, EventsAreNotNone
       DEF Core, Kept, Recorded, InHand, Shadowed, TypeOK
  <2> QED
    BY <1>3, <2>4, <2>5, <2>6 DEF Core
<1>9. CASE JobFails(j)
  BY <1>1, <1>4, <1>9 DEF JobFails, doc, Labels, Told
<1>10. CASE JobRecords(j)
  <2>1. /\ recorded' = [recorded EXCEPT ![j.emp]["outlook"] = j.event]
        /\ creates' = creates \ {j} /\ j.at = "record"
        /\ UNCHANGED calendar
    BY <1>10 DEF JobRecords
  <2>2. j.event # None /\ recorded[j.emp]["outlook"] = None /\ j.emp \in Employee
    BY <1>1, <2>1 DEF Labels, Core, OneOutlook, JobRecord
  <2>3. /\ recorded'[j.emp]["outlook"] = j.event
        /\ \A f \in Employee, via \in Provider :
             recorded[f][via] # None => recorded'[f][via] = recorded[f][via]
        /\ \A f \in Employee : f # j.emp => recorded'[f] = recorded[f]
    BY <1>1, <2>1, <2>2 DEF TypeOK
  <2>4. OneGoogle'
    BY <1>1, <1>2, <2>1 DEF Core, OneGoogle
  <2>5. OneOutlook'
    BY <1>1, <1>2, <2>1, <2>3 DEF Core, OneOutlook, TypeOK, JobRecord
  <2>6. Recorded \subseteq Recorded' /\ j.event \in Recorded'
    BY <2>2, <2>3 DEF Recorded
  <2>7. Kept'
    BY <1>1, <1>2, <2>1, <2>6 DEF Core, Kept, InHand, Shadowed
  <2> QED
    BY <1>3, <2>4, <2>5, <2>7 DEF Core
<1>11. CASE JobInterrupted(j)
  <2>1. j.event = None /\ UNCHANGED <<recorded, calendar>>
    BY <1>11 DEF JobInterrupted, doc, Told
  <2>2. CASE j.try < MaxTries
    <3> DEFINE k == [j EXCEPT !.at = "queued", !.event = None, !.try = @ + 1]
    <3>1. k.emp = j.emp /\ k.at = "queued"
      BY <1>1 DEF JobRecord
    <3>2. creates' = (creates \ {j}) \cup {k}
      BY <1>11, <2>2 DEF JobInterrupted, Move
    <3> HIDE DEF k
    <3> QED
      BY <1>5, <2>1, <3>1, <3>2
  <2>3. CASE ~(j.try < MaxTries)
    BY <1>4, <1>11, <2>1, <2>3 DEF JobInterrupted
  <2> QED
    BY <2>2, <2>3
<1> QED
  BY <1>6, <1>7, <1>8, <1>9, <1>10, <1>11 DEF Job

LEMMA DeleteKeepsCore ==
  ASSUME IInv, NEW d \in deletes, DeleteRuns(d), Told'
  PROVE  Core'
<1>1. /\ Told /\ Core /\ deletes' = deletes \ {d} /\ calendar' = calendar \ {d[2]}
      /\ UNCHANGED <<recorded, pc, todo, tasks, creates>>
  BY DEF IInv, Told, DeleteRuns, doc, request
<1>2. Alone'
  BY <1>1 DEF Core, Alone, Active
<1>3. TodoCovers'
  BY <1>1 DEF Core, TodoCovers, Active, Shadowed, OnItsWay
<1>4. OneGoogle' /\ OneOutlook' /\ Kept'
  BY <1>1 DEF Core, OneGoogle, OneOutlook, Kept, Recorded, InHand, Shadowed
<1> QED
  BY <1>2, <1>3, <1>4 DEF Core

LEMMA CoreStep ==
  ASSUME IInv, [Next]_vars, Told'
  PROVE  Core'
<1>1. ASSUME NEW r \in Request, Handler(r) PROVE Core'
  <2>1. ASSUME NEW e \in todo[r], EraseFails(r, e) PROVE FALSE
    BY <2>1 DEF EraseFails, Told
  <2> QED
    BY <1>1, <2>1, HandlerSteps, PlainKeepsCore, CreateKeepsCore, ReadKeepsCore,
       EraseKeepsCore, RenewKeepsCore
<1>2. ASSUME NEW d \in deletes, DeleteRuns(d) \/ DeleteFails(d) PROVE Core'
  <2>1. ~DeleteFails(d)
    BY DEF DeleteFails, Told
  <2> QED
    BY <1>2, <2>1, DeleteKeepsCore
<1>3. CASE UNCHANGED vars
  BY <1>3 DEF vars, doc, request, background, IInv, Told, Core, Alone, Active, TodoCovers,
              OnItsWay, OneGoogle, OneOutlook, Kept, Recorded, InHand, Shadowed
<1> QED
  BY <1>1, <1>2, <1>3, TaskKeepsCore, ServerDiesKeepsCore, JobKeepsCore DEF Next

LEMMA IInvInit == Init => IInv
<1> SUFFICES ASSUME Init PROVE IInv
  OBVIOUS
<1>1. TypeOK
  BY TypeInit
<1>2. /\ calendar = {} /\ tasks = {} /\ creates = {}
      /\ pc = [r \in Request |-> "new"] /\ todo = [r \in Request |-> {}]
      /\ recorded = [f \in Employee |-> [via \in Provider |-> None]]
  BY DEF Init
<1>3. TodoDone /\ Fresh /\ Labels
  BY <1>2 DEF Init, TodoDone, Fresh, Labels, Active
<1>4. Core
  BY <1>2 DEF Core, Alone, TodoCovers, OneGoogle, OneOutlook, Kept, Active
<1> QED
  BY <1>1, <1>3, <1>4 DEF IInv

LEMMA IInvStep == IInv /\ [Next]_vars => IInv'
BY TypeStep, TodoStep, FreshStep, LabelsStep, CoreStep DEF IInv

\* For any number of requests, employees and retries: calendar_events, or a
\* task or job that will write there, knows every event in a calendar, as
\* long as no handler began before the work of earlier ones was done and no
\* delete failed.
THEOREM EventsAreKept == Spec => []NothingForgotten
<1>1. IInv => NothingForgotten
  BY DEF IInv, Told, Core, Kept, NothingForgotten
<1> QED
  BY <1>1, IInvInit, IInvStep, PTL DEF Spec

-----------------------------------------------------------------------------
(* The Google calendars are in line, and the Outlook calendars cleared     *)

\* While nobody is active the first part of Alignment says nothing.
LEMMA StandingIsEnough ==
  ASSUME Standing, \A q \in Request : ~Synced(q) /\
                     (pc[q] \in {"update", "relocate", "delete"} => Live)
  PROVE  Alignment
BY DEF Alignment, Synced

\* While a handler is at work behind its read, it alone is active.
LEMMA OneIsEnough ==
  ASSUME NEW r \in Request, Synced(r), \A q \in Request : Active(q) => q = r,
         pc[r] = "readback" => Live,
         pc[r] \in {"erase", "renew"} =>
           IF Live THEN want[r] = [slot |-> sched.slot, staff |-> sched.staff]
                   ELSE want[r].staff = {}
  PROVE  Alignment
BY DEF Alignment, Synced, Active

LEMMA PlainKeepsAlignment ==
  ASSUME IInv, AInv, NEW r \in Request, Plain(r), Told', aligned'
  PROVE  Alignment'
<1>1. /\ Told /\ TypeOK /\ Core
      /\ UNCHANGED <<calendar, tasks, creates, deletes>>
  BY PlainSteps DEF IInv, Told
<1>2. \A q \in Request : Active(r) /\ Active(q) => q = r
  BY <1>1 DEF Core, Alone
<1>3. sched \in Document /\ sched.slot \in Slot
  BY <1>1 DEF TypeOK, Document
<1>4. ASSUME UNCHANGED sched, aligned, pc' = [pc EXCEPT ![r] = "end"],
             pc[r] \in {"update", "relocate", "delete"}
      PROVE  Alignment'
  <2>1. Active(r) /\ ~Synced(r)
    BY <1>4 DEF Active, Synced
  <2>2. Standing
    BY <1>1, <1>2, <1>4, <2>1 DEF AInv, Alignment, Active, Synced
  <2>3. Standing'
    BY <1>1, <1>4, <2>2 DEF Standing, Made, Owed, Target, Live, Shadowed, OnItsWay
  <2>4. \A q \in Request : ~Active(q)'
    BY <1>1, <1>2, <1>4, <2>1 DEF Active, TypeOK
  <2>5. \A q \in Request : pc'[q] \in {"new", "end"}
    BY <2>4 DEF Active
  <2> QED
    BY <2>3, <2>5 DEF Alignment, Synced
<1>5. ASSUME NEW l \in {"readback", "erase", "renew"}, pc' = [pc EXCEPT ![r] = l], Active(r),
             l = "readback" => Live',
             l \in {"erase", "renew"} =>
               IF Live' THEN want'[r] = [slot |-> sched'.slot, staff |-> sched'.staff]
                        ELSE want'[r].staff = {}
      PROVE  Alignment'
  <2>1. pc'[r] = l /\ \A q \in Request : q # r => pc'[q] = pc[q]
    BY <1>1, <1>5 DEF TypeOK
  <2>2. \A q \in Request : pc'[q] \notin {"new", "end"} => q = r
    BY <1>2, <1>5, <2>1 DEF Active
  <2> QED
    BY <1>5, <2>1, <2>2 DEF Alignment, Synced
<1>6. CASE \E s \in Slot, F \in (SUBSET Employee) \ {{}} : Update(r, s, F)
  <2>1. Live' /\ pc' = [pc EXCEPT ![r] = "readback"] /\ Active(r)
    BY <1>3, <1>6 DEF Update, Live, Goto, Active, Document
  <2> QED
    BY <1>5, <2>1
<1>7. CASE UpdateRefused(r)
  BY <1>4, <1>7 DEF UpdateRefused, Goto, doc
<1>8. CASE ReadBack(r)
  <2>1. Live
    BY <1>1, <1>8 DEF ReadBack, AInv, Alignment
  <2>2. /\ pc' = [pc EXCEPT ![r] = "erase"] /\ Active(r) /\ UNCHANGED sched
        /\ want'[r] = [slot |-> sched.slot, staff |-> sched.staff]
    BY <1>1, <1>8, <2>1 DEF ReadBack, Goto, Wants, Active, doc, TypeOK
  <2> QED
    BY <1>5, <2>1, <2>2 DEF Live
<1>9. CASE SoftDelete(r)
  <2>1. CASE Live
    <3>1. /\ pc' = [pc EXCEPT ![r] = "erase"] /\ Active(r) /\ ~Live'
          /\ want'[r] = [slot |-> sched.slot, staff |-> {}]
      BY <1>1, <1>3, <1>9, <2>1 DEF SoftDelete, Goto, Wants, Active, Live, Document, TypeOK
    <3> QED
      BY <1>5, <3>1
  <2>2. CASE ~Live
    BY <1>4, <1>9, <2>2 DEF SoftDelete, Goto
  <2> QED
    BY <2>1, <2>2
<1>10. CASE \E s \in Slot : Relocate(r, s)
  <2> PICK s \in Slot : Relocate(r, s)
    BY <1>10
  <2>1. CASE Live /\ sched.version = seen[r]
    <3>1. /\ pc' = [pc EXCEPT ![r] = "erase"] /\ Active(r) /\ Live'
          /\ sched'.slot = s /\ sched'.staff = sched.staff
          /\ want'[r] = [slot |-> s, staff |-> sched.staff]
      BY <1>1, <1>3, <2>1 DEF Relocate, Goto, Wants, Active, Live, Document, TypeOK
    <3> QED
      BY <1>5, <3>1
  <2>2. CASE ~(Live /\ sched.version = seen[r])
    BY <1>4, <2>2 DEF Relocate, Goto
  <2> QED
    BY <2>1, <2>2
<1>11. CASE Erased(r)
  <2>1. /\ pc' = [pc EXCEPT ![r] = "renew"] /\ Active(r) /\ UNCHANGED <<sched, want>> /\ aligned
        /\ pc[r] = "erase"
    BY <1>11 DEF Erased, Goto, Active, doc
  <2>2. IF Live THEN want[r] = [slot |-> sched.slot, staff |-> sched.staff]
                ELSE want[r].staff = {}
    BY <1>1, <2>1 DEF AInv, Alignment
  <2> QED
    BY <1>5, <2>1, <2>2 DEF Live
<1>12. CASE StatusChange(r)
  <2>1. /\ pc' = [pc EXCEPT ![r] = "end"] /\ pc[r] = "new" /\ aligned
        /\ Live /\ Live' /\ sched'.slot = sched.slot /\ sched'.staff = sched.staff
        /\ UNCHANGED want
    BY <1>3, <1>12 DEF StatusChange, Goto, Live, Document
  <2>2. \A q \in Request : pc'[q] \notin {"new", "end"} => pc'[q] = pc[q]
    BY <1>1, <2>1 DEF TypeOK
  <2>3. (\A q \in Request : ~Synced(q)') => \A q \in Request : ~Synced(q)
    BY <1>1, <2>1 DEF TypeOK, Synced
  <2>4. Standing => Standing'
    BY <1>1, <2>1 DEF Standing, Made, Owed, Target, Shadowed, OnItsWay
  <2> QED
    BY <1>1, <2>1, <2>2, <2>3, <2>4 DEF AInv, Alignment
<1>13. CASE BulkDelete(r) \/ Restore(r) \/ \E s \in Slot, F \in (SUBSET Employee) \ {{}} : BulkEdit(r, s, F)
  BY <1>13 DEF BulkDelete, Restore, BulkEdit
<1> QED
  BY <1>6, <1>7, <1>8, <1>9, <1>10, <1>11, <1>12, <1>13 DEF Plain

LEMMA RenewKeepsAlignment ==
  ASSUME IInv, AInv, NEW r \in Request, Renew(r), Told', aligned'
  PROVE  Alignment'
<1>1. /\ Told /\ aligned /\ TypeOK /\ Core /\ Active(r) /\ pc[r] = "renew" /\ todo[r] = {}
      /\ UNCHANGED <<sched, calendar, creates, deletes>>
      /\ pc' = [pc EXCEPT ![r] = "end"]
  BY DEF IInv, TodoDone, Told, Renew, Active, Goto, doc
<1>2. /\ tasks = {} /\ creates = {}
      /\ \A q \in Request : Active(q) => q = r
  BY <1>1 DEF Core, Alone
<1>3. IF Live THEN want[r] = [slot |-> sched.slot, staff |-> sched.staff]
              ELSE want[r].staff = {}
  BY <1>1 DEF AInv, Alignment
<1>4. \A e \in calendar : Shadowed(e) \/ OnItsWay(e)
  BY <1>1 DEF Core, TodoCovers
<1>5. Made' = {}
  BY <1>1, <1>4 DEF Made, Shadowed, OnItsWay
<1>6. \A t : t \in tasks' <=> \E via \in Provider :
        \E f \in want[r].staff \cap Connected(via) :
          t = [by |-> r, emp |-> f, via |-> via, slot |-> want[r].slot, event |-> None]
  BY <1>2 DEF Renew
<1>7. Owed' = {<<f, want[r].slot>> : f \in want[r].staff \cap GoogleUsers}
  <2>1. \A t \in tasks' : t.via = "google" /\ t.event = None =>
          \E f \in want[r].staff \cap GoogleUsers : t.emp = f /\ t.slot = want[r].slot
    BY <1>6 DEF Connected
  <2>2. ASSUME NEW f \in want[r].staff \cap GoogleUsers
        PROVE  <<f, want[r].slot>> \in Owed'
    <3> DEFINE t == [by |-> r, emp |-> f, via |-> "google", slot |-> want[r].slot,
                     event |-> None]
    <3>1. t \in tasks'
      BY <1>6 DEF Connected
    <3>2. t.via = "google" /\ t.event = None /\ t.emp = f /\ t.slot = want[r].slot
      OBVIOUS
    <3> HIDE DEF t
    <3> QED
      BY <3>1, <3>2 DEF Owed
  <2> QED
    BY <2>1, <2>2 DEF Owed
<1>8. Owed' = Target'
  <2>1. CASE Live
    <3>1. want[r].slot = sched.slot /\ want[r].staff = sched.staff
      BY <1>3, <2>1
    <3>2. Target' = {<<f, sched.slot>> : f \in sched.staff \cap GoogleUsers}
      BY <1>1, <2>1 DEF Target, Live
    <3> QED
      BY <1>7, <3>1, <3>2
  <2>2. CASE ~Live
    BY <1>1, <1>3, <1>7, <2>2 DEF Target, Live
  <2> QED
    BY <2>1, <2>2
<1>9. Standing'
  <2>1. ~Live' => tasks' = {} /\ creates' = {}
    BY <1>1, <1>2, <1>3, <1>6 DEF Live
  <2>2. \A e \in calendar' : Shadowed(e)' \/ OnItsWay(e)'
    BY <1>1, <1>4 DEF Shadowed, OnItsWay
  <2> QED
    BY <1>5, <1>8, <2>1, <2>2 DEF Standing
<1>10. \A q \in Request : pc'[q] \in {"new", "end"}
  BY <1>1, <1>2 DEF Active, TypeOK
<1> QED
  BY <1>9, <1>10 DEF Alignment, Synced

LEMMA HandlerKeepsAlignment ==
  ASSUME IInv, AInv, NEW r \in Request, Handler(r), Told', aligned'
  PROVE  Alignment'
<1>0. TypeOK /\ sched \in Document
  BY DEF IInv, TypeOK
<1>1. ASSUME NEW s \in Slot, NEW F \in SUBSET Employee, Create(r, s, F) PROVE Alignment'
  <2>1. /\ Quiet /\ Live' /\ sched'.slot = s /\ sched'.staff = F
        /\ pc' = [pc EXCEPT ![r] = "renew"]
        /\ want' = [want EXCEPT ![r] = [slot |-> s, staff |-> F]]
    BY <1>1 DEF Told, Create, Start, Goto, Wants, Live
  <2>2. /\ pc'[r] = "renew" /\ \A q \in Request : q # r => pc'[q] \in {"new", "end"}
        /\ want'[r] = [slot |-> s, staff |-> F]
    BY <1>0, <2>1 DEF Quiet, TypeOK
  <2> QED
    BY <2>1, <2>2 DEF Alignment, Synced
<1>2. ASSUME NEW label \in {"update", "relocate", "delete"}, Read(r, label) PROVE Alignment'
  <2>1. /\ Quiet /\ Live /\ Told /\ aligned /\ pc' = [pc EXCEPT ![r] = label]
        /\ UNCHANGED <<sched, calendar, tasks, creates, deletes>>
    BY <1>2 DEF Told, Read, Start, Goto, doc, background
  <2>2. Standing
    BY <2>1 DEF AInv, Alignment, Quiet, Synced
  <2>3. Standing'
    BY <2>1, <2>2 DEF Standing, Made, Owed, Target, Live, Shadowed, OnItsWay
  <2>4. pc'[r] = label /\ \A q \in Request : q # r => pc'[q] \in {"new", "end"}
    BY <1>0, <2>1 DEF Quiet, TypeOK
  <2> QED
    BY <2>1, <2>3, <2>4 DEF Alignment, Synced, Live
<1>3. ASSUME NEW e \in todo[r], Erase(r, e) PROVE Alignment'
  <2>1. Told /\ aligned /\ pc[r] = "erase" /\ UNCHANGED <<sched, pc, want>>
    BY <1>3 DEF Told, Erase, doc
  <2> QED
    BY <2>1 DEF AInv, Alignment, Synced, Live
<1>4. ASSUME NEW e \in todo[r], EraseFails(r, e) PROVE FALSE
  BY <1>4 DEF EraseFails, Told
<1> QED
  BY <1>1, <1>2, <1>3, <1>4, HandlerSteps, PlainKeepsAlignment, RenewKeepsAlignment

\* The background works for a live schedule, towards the same events.
LEMMA BackgroundKeepsAlignment ==
  ASSUME IInv, AInv, tasks # {} \/ creates # {}, Told, aligned,
         UNCHANGED <<sched, pc>>, Made' \cup Owed' = Made \cup Owed
  PROVE  Alignment'
<1>1. Core
  BY DEF IInv
<1>2. \A q \in Request : pc[q] \in {"new", "end"}
  BY <1>1, NobodyActive DEF Active
<1>3. Standing
  BY <1>2 DEF AInv, Alignment, Synced
<1>4. Live
  BY <1>3 DEF Standing
<1>5. Standing'
  BY <1>3, <1>4 DEF Standing, Target, Live
<1> QED
  BY <1>2, <1>5 DEF Alignment, Synced

LEMMA TaskKeepsAlignment ==
  ASSUME IInv, AInv, NEW t \in tasks, Task(t), Told', aligned'
  PROVE  Alignment'
<1>1. TypeOK /\ Labels /\ t \in TaskRecord
  BY DEF IInv, TypeOK
<1>2. Told /\ aligned /\ UNCHANGED <<sched, pc>>
  <2>1. ~TaskFails(t)
    BY DEF TaskFails
  <2>2. UNCHANGED <<sched, pc, calm, leaked, aligned>>
    BY <2>1 DEF Task, GoogleCreate, GoogleRecord, OutlookQueue, doc, request
  <2> QED
    BY <2>2 DEF Told
<1>3. CASE GoogleCreate(t)
  <2> DEFINE e == NewEvent(t, "google", 1)
             u == [t EXCEPT !.event = e]
  <2>1. e # None /\ e.emp = t.emp /\ e.slot = t.slot /\ e.via = "google"
    BY <1>1, MadeEvents, EventsAreNotNone DEF NewEvent
  <2>2. u.event = e
    BY <1>1 DEF TaskRecord
  <2>3. /\ calendar' = calendar \cup {e} /\ tasks' = (tasks \ {t}) \cup {u}
        /\ t.via = "google" /\ t.event = None
    BY <1>3 DEF GoogleCreate
  <2> HIDE DEF e, u
  <2>4. Made' = Made \cup {<<t.emp, t.slot>>}
    BY <2>1, <2>3 DEF Made
  <2>5. Owed = Owed' \cup {<<t.emp, t.slot>>}
    BY <2>1, <2>2, <2>3 DEF Owed
  <2> QED
    BY <1>2, <2>4, <2>5, BackgroundKeepsAlignment
<1>4. CASE GoogleRecord(t) \/ OutlookQueue(t)
  <2>1. Made' = Made
    BY <1>4 DEF GoogleRecord, OutlookQueue, Made
  <2>2. tasks' = tasks \ {t} /\ (t.via # "google" \/ t.event # None)
    BY <1>4 DEF GoogleRecord, OutlookQueue
  <2>3. Owed' = Owed
    BY <2>2 DEF Owed
  <2> QED
    BY <1>2, <2>1, <2>3, BackgroundKeepsAlignment
<1> QED
  BY <1>3, <1>4 DEF Task, TaskFails

LEMMA JobKeepsAlignment ==
  ASSUME IInv, AInv, NEW j \in creates, Job(j), Told', aligned'
  PROVE  Alignment'
<1>1. Told /\ aligned /\ UNCHANGED <<sched, pc, tasks>>
  <2>1. ~JobFails(j)
    BY DEF JobFails
  <2>2. UNCHANGED <<sched, pc, tasks, calm>> /\ aligned' = aligned
    BY <2>1 DEF Job, JobSkips, JobStarts, JobCreates, JobRecords, JobInterrupted, doc, request
  <2>3. ~leaked
    BY <2>1 DEF Told, Job, JobSkips, JobStarts, JobCreates, JobRecords, JobInterrupted
  <2> QED
    BY <2>2, <2>3 DEF Told
<1>2. Owed' = Owed
  BY <1>1 DEF Owed
<1>3. Made' = Made
  <2>1. CASE JobCreates(j)
    <3>1. calendar' = calendar \cup {NewEvent(j, "outlook", j.try)}
      BY <2>1 DEF JobCreates
    <3>2. NewEvent(j, "outlook", j.try).via = "outlook"
      BY DEF NewEvent
    <3> QED
      BY <3>1, <3>2 DEF Made
  <2>2. CASE ~JobCreates(j)
    <3>1. UNCHANGED calendar
      BY <2>2 DEF Told, Job, JobSkips, JobStarts, JobFails, JobRecords, JobInterrupted
    <3> QED
      BY <3>1 DEF Made
  <2> QED
    BY <2>1, <2>2
<1> QED
  BY <1>1, <1>2, <1>3, BackgroundKeepsAlignment

LEMMA ServerDiesKeepsAlignment ==
  ASSUME IInv, AInv, ServerDies, Told', aligned'
  PROVE  Alignment'
<1>1. /\ Told /\ aligned /\ tasks = {} /\ tasks' = {}
      /\ \A q \in Request : ~Synced(q)
      /\ UNCHANGED <<sched, calendar, creates, deletes>>
  BY DEF ServerDies, Told, Synced, doc
<1>2. Standing
  BY <1>1 DEF AInv, Alignment
<1>3. Standing'
  BY <1>1, <1>2 DEF Standing, Made, Owed, Target, Live, Shadowed, OnItsWay
<1>4. \A q \in Request : pc'[q] \in {"new", "end"}
  BY DEF ServerDies
<1> QED
  BY <1>3, <1>4 DEF Alignment, Synced

LEMMA DeleteKeepsAlignment ==
  ASSUME IInv, AInv, NEW d \in deletes, DeleteRuns(d), Told', aligned'
  PROVE  Alignment'
<1>1. /\ Told /\ aligned /\ deletes' = deletes \ {d} /\ calendar' = calendar \ {d[2]}
      /\ UNCHANGED <<sched, pc, want, tasks, creates>>
  BY DEF Told, DeleteRuns, doc, request
<1>2. d[2].via = "outlook"
  BY DEF IInv, Labels
<1>3. Made' = Made /\ Owed' = Owed /\ Target' = Target
  BY <1>1, <1>2 DEF Made, Owed, Target, Live
<1>4. (\A e \in calendar : Shadowed(e) \/ OnItsWay(e))
        => \A e \in calendar' : Shadowed(e)' \/ OnItsWay(e)'
  BY <1>1 DEF Shadowed, OnItsWay
<1>5. Standing => Standing'
  BY <1>1, <1>3, <1>4 DEF Standing, Live
<1> QED
  BY <1>1, <1>5 DEF AInv, Alignment, Synced, Live

LEMMA AInvStep == IInv /\ AInv /\ [Next]_vars => AInv'
<1> SUFFICES ASSUME IInv, AInv, [Next]_vars, Told', aligned' PROVE Alignment'
  BY DEF AInv
<1>1. ASSUME NEW d \in deletes, DeleteFails(d) PROVE FALSE
  BY <1>1 DEF DeleteFails, Told
<1>2. CASE UNCHANGED vars
  BY <1>2 DEF vars, doc, request, background, AInv, Told, Alignment, Standing, Made, Owed,
              Target, Live, Synced, Shadowed, OnItsWay
<1> QED
  BY <1>1, <1>2, HandlerKeepsAlignment, TaskKeepsAlignment, ServerDiesKeepsAlignment,
     JobKeepsAlignment, DeleteKeepsAlignment DEF Next

LEMMA AInvInit == Init => AInv
BY DEF Init, AInv, Alignment, Standing, Made, Owed, Target, Live

\* When a move, an edit or a delete has run its course, each connected
\* employee's Google calendar shows one event, at the schedule's present slot,
\* or none after a delete: for any number of requests and employees, whatever
\* bulk changes, failures and restarts came before.
THEOREM GoogleFollows == Spec => []GoogleInLine
<1>1. IInv /\ AInv => GoogleInLine
  <2> SUFFICES ASSUME IInv, AInv, Told, aligned, Quiet PROVE InLine("google")
    BY DEF GoogleInLine, Told
  <2>1. Standing /\ tasks = {} /\ OneGoogle
    BY DEF AInv, Alignment, Quiet, Synced, IInv, Core
  <2>2. Made = Target
    BY <2>1 DEF Standing, Owed
  <2>3. {e \in calendar : e.via = "google" /\ ~Shadowed(e)} = {e \in calendar : e.via = "google"}
    BY DEF Shadowed
  <2>4. Made = IF Live THEN {<<f, sched.slot>> : f \in {g \in sched.staff \cap Connected("google") :
                                     "google" = "google" \/ g \notin GoogleUsers}}
                       ELSE {}
    BY <2>2 DEF Target, Connected
  <2>5. \A d, e \in {x \in calendar : x.via = "google"} : d.emp = e.emp => d = e
    BY <2>1 DEF OneGoogle
  <2> QED
    BY <2>3, <2>4, <2>5 DEF InLine, Made
<1> QED
  BY <1>1, IInvInit, IInvStep, AInvInit, AInvStep, PTL DEF Spec

\* When a delete has run its course no event that was recorded is left in an
\* Outlook calendar, however often its create jobs were interrupted.
THEOREM OutlookIsCleared == Spec => []OutlookCleared
<1>1. IInv /\ AInv => OutlookCleared
  <2> SUFFICES ASSUME IInv, AInv, Told, aligned, Quiet, ~Live
               PROVE  \A e \in calendar : e.via = "outlook" => Shadowed(e)
    BY DEF OutlookCleared, Told
  <2>1. Standing /\ deletes = {}
    BY DEF AInv, Alignment, Quiet, Synced
  <2> QED
    BY <2>1 DEF Standing, OnItsWay
<1> QED
  BY <1>1, IInvInit, IInvStep, AInvInit, AInvStep, PTL DEF Spec
=============================================================================
