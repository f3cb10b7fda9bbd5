-------------------------- MODULE Reminders_proofs --------------------------
(***************************************************************************)
(* Proofs about Reminders: types, no queued row is lost, a finished run    *)
(* has told every task that was due, no reminder comes twice, and digests  *)
(* come in time.                                                           *)
(***************************************************************************)
EXTENDS Reminders, Integers, TLAPS

-----------------------------------------------------------------------------
(* Types                                                                   *)

\* A run that dispatches has an event, one that delivers a recipient, and a
\* digest that is sent a group.
StageInv ==
  /\ job.pc \in {"contacts", "check", "deliver", "record"} => job.event \in Key
  /\ job.pc \in {"deliver", "record"} => job.to \in job.left
  /\ flush.pc \in {"send", "clear"} => flush.group \in flush.groups

\* A threshold is 0 to Cap + 1.
LEMMA ThresholdTyped ==
  ASSUME NEW now \in Nat, NEW date \in Dates, NEW t \in Task
  PROVE  Event(t, date, now) \in Key
<1>1. date.at \in Nat
  BY DatesTyped
<1>2. CASE date.at <= now
  <2>1. (now - date.at) \div Day \in Nat
    BY <1>1, <1>2, PeriodsPositive
  <2>2. PICK days \in Nat : days = (now - date.at) \div Day
    BY <2>1
  <2>3. 1 + (IF days <= Cap THEN days ELSE Cap) \in 0 .. Cap + 1
    BY PeriodsPositive
  <2> QED
    BY <1>2, <2>2, <2>3 DEF Event, Key, Threshold
<1>3. CASE ~(date.at <= now)
  <2>1. 0 \in 0 .. Cap + 1
    BY PeriodsPositive
  <2> QED
    BY <1>3, <2>1 DEF Event, Key, Threshold
<1> QED
  BY <1>2, <1>3

LEMMA InitTyped == Init => TypeOK /\ StageInv
<1> SUFFICES ASSUME Init PROVE TypeOK /\ StageInv
  OBVIOUS
<1>1. NoJob \in Job
  BY DEF NoJob, Job
<1>2. NoFlush \in Flush
  BY DEF NoFlush, Flush
<1> QED
  BY <1>1, <1>2 DEF Init, TypeOK, StageInv, NoJob, NoFlush

\* The steps of the reminder job.
LEMMA RemindersTyped ==
  ASSUME TypeOK, StageInv, Reminders
  PROVE  TypeOK' /\ StageInv'
<1> USE DEF TypeOK, StageInv, db, clock, ghosts
<1>0. NoJob \in Job /\ NoJob.pc = "idle"
  BY DEF NoJob, Job
<1>1. CASE StartReminders
  <2>1. Batch \subseteq Task \X Dates
    BY DEF Batch, DueTasks
  <2>2. job' = [NoJob EXCEPT !.pc = "pick", !.now = hour, !.batch = Batch]
    BY <1>1 DEF StartReminders
  <2>4. job' \in Job /\ job'.pc = "pick"
    BY <2>1, <2>2 DEF NoJob, Job
  <2>5. Owed \subseteq Reminder
    <3>1. \A t \in DueTasks(hour) : Event(t, due[t], hour) \in Key
      BY ThresholdTyped DEF DueTasks
    <3> QED
      BY <3>1 DEF Owed, InAppReaders, Reminder, Channel
  <2> QED
    BY <1>1, <2>4, <2>5 DEF StartReminders
<1>2. CASE PickTask
  <2>1. PICK x \in job.batch :
          \/ job' = [job EXCEPT !.batch = job.batch \ {x}]
          \/ job' = [job EXCEPT !.batch = job.batch \ {x}, !.pc = "contacts",
                                !.event = Event(x[1], x[2], job.now)]
    BY <1>2 DEF PickTask
  <2>2. x[1] \in Task /\ x[2] \in Dates /\ job.now \in Nat
    BY DEF Job
  <2>3. PICK e \in Key : e = Event(x[1], x[2], job.now)
    BY <2>2, ThresholdTyped
  <2>4. PICK b : b = job.batch \ {x}
    OBVIOUS
  <2>5. b \subseteq Task \X Dates
    BY <2>4 DEF Job
  <2>6. \/ job' = [job EXCEPT !.batch = b]
        \/ job' = [job EXCEPT !.batch = b, !.pc = "contacts", !.event = e]
    BY <2>1, <2>3, <2>4
  <2>7. job' \in Job /\ (job'.pc = "contacts" => job'.event \in Key)
    BY <1>2, <2>5, <2>6 DEF Job, PickTask
  <2>8. job.pc = "pick" /\ job'.pc \in {"pick", "contacts"}
    BY <1>2, <2>6 DEF PickTask, Job
  <2> QED
    BY <1>2, <2>7, <2>8 DEF PickTask
<1>3. CASE PickRaises
  <2>1. job' \in Job /\ job'.pc = "raised"
    BY <1>3 DEF PickRaises, NoJob, Job
  <2> QED
    BY <1>3, <2>1 DEF PickRaises
<1>4. CASE FinishReminders
  BY <1>0, <1>4 DEF FinishReminders
<1>5. CASE ReadContacts
  <2>1. PICK l \in SUBSET (Contact \X Channel), p \in {"pick", "check"} :
          job' = [job EXCEPT !.pc = p, !.left = l, !.prefs = contact]
    <3>1. {c \in Contact : contact[c] # None} \X Channel \in SUBSET (Contact \X Channel)
      OBVIOUS
    <3> QED
      BY <1>5, <3>1 DEF ReadContacts
  <2>2. job' \in Job /\ job'.pc \in {"pick", "check"} /\ job'.event = job.event
    BY <2>1 DEF Job
  <2> QED
    BY <1>5, <2>2 DEF ReadContacts
<1>6. ASSUME NEW c \in Contact, NEW ch \in Channel, Done(c, ch)
      PROVE  /\ job' \in Job /\ job'.pc \in {"pick", "check"}
             /\ job'.event = job.event
  <2>1. PICK l : l = job.left \ {<<c, ch>>}
    OBVIOUS
  <2>2. l \subseteq Contact \X Channel
    BY <2>1 DEF Job
  <2>3. PICK p \in {"pick", "check"} :
          job' = [job EXCEPT !.left = l, !.to = None, !.pc = p]
    BY <1>6, <2>1 DEF Done
  <2> QED
    BY <2>2, <2>3 DEF Job
<1>7. ASSUME NEW p \in {"deliver", "record"}, NEW to \in job.left,
             job' = [job EXCEPT !.pc = p, !.to = to]
      PROVE  /\ job' \in Job /\ job'.pc = p /\ job'.to \in job'.left
             /\ job'.event = job.event
  BY <1>7 DEF Job
<1>8. ASSUME job' = [job EXCEPT !.pc = "record"]
      PROVE  /\ job' \in Job /\ job'.pc = "record" /\ job'.event = job.event
             /\ job'.to = job.to /\ job'.left = job.left
  BY <1>8 DEF Job
<1>9. ASSUME NEW c \in Contact, NEW ch \in Channel, job.event \in Key
      PROVE  <<c, ch, job.event>> \in Reminder
  BY <1>9 DEF Reminder
<1>10. ASSUME NEW c \in Contact, NEW ch \in Channel, CheckSent(c, ch)
       PROVE  TypeOK' /\ StageInv'
  <2>1. CASE Done(c, ch)
    BY <1>6, <1>10, <2>1 DEF CheckSent
  <2>2. CASE job' = [job EXCEPT !.pc = "deliver", !.to = <<c, ch>>]
    BY <1>7, <1>10, <2>2 DEF CheckSent, Turn
  <2> QED
    BY <1>10, <2>1, <2>2 DEF CheckSent
<1>11. ASSUME NEW c \in Contact, NEW ch \in Channel, Deliver(c, ch)
       PROVE  TypeOK' /\ StageInv'
  BY <1>8, <1>9, <1>11 DEF Deliver, Arrive
<1>12. ASSUME NEW c \in Contact, NEW ch \in Channel, Record(c, ch)
       PROVE  TypeOK' /\ StageInv'
  BY <1>6, <1>9, <1>12 DEF Record, Recorded
<1>13. ASSUME NEW c \in Contact, NEW ch \in Channel, RecordFails(c, ch)
       PROVE  TypeOK' /\ StageInv'
  BY <1>6, <1>13 DEF RecordFails, Fault
<1>14. ASSUME NEW c \in Contact, DeliverFails(c)
       PROVE  TypeOK' /\ StageInv'
  <2>1. "email" \in Channel
    BY DEF Channel
  <2> QED
    BY <1>8, <1>9, <1>14, <2>1 DEF DeliverFails, Arrive, Fault
<1>15. ASSUME NEW c \in Contact, Enqueue(c)
       PROVE  TypeOK' /\ StageInv'
  <2>1. [id |-> rows + 1, to |-> c, freq |-> Frequency(c, "email"),
         key |-> job.event, at |-> hour] \in Row
    BY <1>15 DEF Enqueue, Row
  <2>2. queue' \subseteq Row /\ rows' \in Nat
    BY <1>15, <2>1 DEF Enqueue, Insert
  <2>3. /\ job' \in Job /\ job'.pc = "record" /\ job'.event = job.event
        /\ job'.to = job.to /\ job'.left = job.left
    BY <1>8, <1>15 DEF Enqueue
  <2>4. UNCHANGED <<hour, cron, status, due, contact, sent, flush, faults, edits,
                    reached, twice, digested, dropped, excused, owed>>
    BY <1>15 DEF Enqueue
  <2>5. job.pc = "deliver"
    BY <1>15 DEF Enqueue
  <2>6. TypeOK'
    BY <2>2, <2>3, <2>4
  <2>7. StageInv'
    BY <2>3, <2>4, <2>5
  <2> QED
    BY <2>6, <2>7
<1>16. CASE RemindersBreak
  <2>1. faults' \in Nat
    BY <1>16 DEF RemindersBreak, Fault
  <2>4. cron' \subseteq {"reminders", "digests"} /\ owed' = {}
    BY <1>16 DEF RemindersBreak
  <2>2. job' \in Job /\ job'.pc = "idle"
    BY <1>0, <1>16 DEF RemindersBreak
  <2>3. UNCHANGED <<hour, db, flush, edits, reached, twice, rows, digested, dropped, excused>>
    BY <1>16 DEF RemindersBreak
  <2> QED
    BY <2>1, <2>2, <2>3, <2>4
<1> QED
  BY <1>1, <1>2, <1>3, <1>4, <1>5, <1>10, <1>11, <1>12, <1>13, <1>14, <1>15, <1>16
     DEF Reminders

\* The steps of the digest job.
LEMMA DigestsTyped ==
  ASSUME TypeOK, StageInv, Digests
  PROVE  TypeOK' /\ StageInv'
<1> USE DEF TypeOK, StageInv, db, clock, ghosts
<1>0. NoFlush \in Flush /\ NoFlush.pc = "idle"
  BY DEF NoFlush, Flush
<1>1. CASE StartDigests
  <2>1. PICK g : g = {<<r.to, r.freq>> : r \in queue}
    OBVIOUS
  <2>2. g \subseteq Contact \X Digest
    BY <2>1 DEF Row
  <2>3. flush' = [NoFlush EXCEPT !.pc = "group", !.now = hour, !.rows = queue, !.groups = g]
    BY <1>1, <2>1 DEF StartDigests
  <2>4. flush' \in Flush /\ flush'.pc = "group"
    BY <2>2, <2>3 DEF NoFlush, Flush
  <2> QED
    BY <1>1, <2>4 DEF StartDigests
<1>2. ASSUME NEW g \in Contact \X Digest, CheckHour(g)
      PROVE  TypeOK' /\ StageInv'
  <2>1. PICK gs : gs = flush.groups \ {g}
    OBVIOUS
  <2>2. gs \subseteq Contact \X Digest
    BY <2>1 DEF Flush
  <2>3. \/ flush' = [flush EXCEPT !.pc = "send", !.group = g]
        \/ flush' = [flush EXCEPT !.groups = gs]
    BY <1>2, <2>1 DEF CheckHour
  <2>4. flush' \in Flush /\ (flush'.pc = "send" => flush'.group \in flush'.groups)
        /\ flush'.pc # "clear"
    BY <1>2, <2>2, <2>3 DEF CheckHour, Flush
  <2> QED
    BY <1>2, <2>4 DEF CheckHour
<1>3. ASSUME flush' = NextGroup
      PROVE  flush' \in Flush /\ flush'.pc = "group"
  <2>1. PICK gs : gs = flush.groups \ {flush.group}
    OBVIOUS
  <2>2. gs \subseteq Contact \X Digest
    BY <2>1 DEF Flush
  <2>3. flush' = [flush EXCEPT !.pc = "group", !.groups = gs, !.group = None]
    BY <1>3, <2>1 DEF NextGroup
  <2> QED
    BY <2>2, <2>3 DEF Flush
<1>4. ASSUME flush' = [flush EXCEPT !.pc = "clear"]
      PROVE  flush' \in Flush /\ flush'.pc = "clear" /\ flush'.group = flush.group
             /\ flush'.groups = flush.groups
  BY <1>4 DEF Flush
<1>5. \A g : GroupRows(g) \subseteq Row
  BY DEF GroupRows, Flush
<1>6. \A g : Ids(GroupRows(g)) \subseteq Nat
  BY <1>5 DEF Ids, Row
<1>7. ASSUME NEW g, DigestArrives(GroupRows(g))
      PROVE  reached' \subseteq Reminder /\ twice' \subseteq Reminder
  <2>1. \A r \in GroupRows(g) : r.key # None => Notice(r) \in Reminder
    BY <1>5 DEF Row, Reminder, Channel, Notice
  <2>2. Notices(GroupRows(g)) \subseteq Reminder
    BY <2>1 DEF Notices
  <2>3. Doubled(GroupRows(g)) \subseteq Reminder
    BY <2>2 DEF Doubled
  <2>4. /\ reached' = reached \cup Notices(GroupRows(g))
        /\ twice' = twice \cup (reached \cap Notices(GroupRows(g))) \cup Doubled(GroupRows(g))
    BY <1>7 DEF DigestArrives
  <2> QED
    BY <2>2, <2>3, <2>4
<1>8. CASE SendDigest
  <2>1. flush' \in Flush /\ flush'.pc = "clear" /\ flush'.group \in flush'.groups
    BY <1>4, <1>8 DEF SendDigest
  <2>2. reached' \subseteq Reminder /\ twice' \subseteq Reminder /\ digested' \subseteq Nat
    BY <1>6, <1>7, <1>8 DEF SendDigest
  <2> QED
    BY <1>8, <2>1, <2>2 DEF SendDigest
<1>9. CASE GiveUp
  BY <1>4, <1>6, <1>9 DEF GiveUp
<1>10. CASE DigestFails
  <2>1. flush' \in Flush /\ flush'.pc = "group"
    BY <1>3, <1>10 DEF DigestFails
  <2>2. reached' \subseteq Reminder /\ twice' \subseteq Reminder /\ faults' \in Nat
    BY <1>7, <1>10 DEF DigestFails, Fault
  <2> QED
    BY <1>10, <2>1, <2>2 DEF DigestFails
<1>11. CASE Clear
  <2>1. flush' \in Flush /\ flush'.pc = "group"
    BY <1>3, <1>11 DEF Clear
  <2>2. queue' \subseteq Row
    BY <1>11 DEF Clear
  <2> QED
    BY <1>11, <2>1, <2>2 DEF Clear
<1>12. CASE FinishDigests
  BY <1>0, <1>12 DEF FinishDigests
<1>13. CASE DigestsBreak
  <2>1. faults' \in Nat
    BY <1>13 DEF DigestsBreak, Fault
  <2>4. cron' \subseteq {"reminders", "digests"}
    BY <1>13 DEF DigestsBreak
  <2>2. flush' \in Flush /\ flush'.pc = "idle"
    BY <1>0, <1>13 DEF DigestsBreak
  <2>3. UNCHANGED <<hour, db, job, edits, ghosts>>
    BY <1>13 DEF DigestsBreak
  <2> QED
    BY <2>1, <2>2, <2>3, <2>4
<1> QED
  BY <1>1, <1>2, <1>8, <1>9, <1>10, <1>11, <1>12, <1>13 DEF Digests

\* The clock and what happens around the jobs.
LEMMA EnvironmentTyped ==
  ASSUME TypeOK, StageInv, Environment
  PROVE  TypeOK' /\ StageInv'
<1> USE DEF TypeOK, StageInv, db, clock, ghosts
<1>1. CASE Tick
  BY <1>1 DEF Tick
<1>2. ASSUME NEW name \in {"reminders", "digests"}, Missed(name)
      PROVE  TypeOK' /\ StageInv'
  BY <1>2 DEF Missed, Fault
<1>3. ASSUME NEW c \in Contact, Comment(c)
      PROVE  TypeOK' /\ StageInv'
  <2>1. [id |-> rows + 1, to |-> c, freq |-> contact[c].email, key |-> None, at |-> hour] \in Row
    BY <1>3 DEF Comment, Row
  <2>2. queue' \subseteq Row /\ rows' \in Nat
    BY <1>3, <2>1 DEF Comment, Insert
  <2>3. UNCHANGED <<hour, cron, status, due, contact, sent, job, flush, faults, edits,
                    reached, twice, digested, dropped, excused, owed>>
    BY <1>3 DEF Comment
  <2> QED
    BY <2>2, <2>3
<1>4. ASSUME NEW c \in Contact, ChangeContact(c)
      PROVE  TypeOK' /\ StageInv'
  <2>1. RowsOf(c) \subseteq Nat
    BY DEF RowsOf, Ids, Row
  <2>2. contact' \in [Contact -> Prefs \cup {None}] /\ edits' \in Nat
    BY <1>4 DEF ChangeContact, Edit
  <2> QED
    BY <1>4, <2>1, <2>2 DEF ChangeContact
<1>5. ASSUME NEW t \in Task, EditTask(t)
      PROVE  TypeOK' /\ StageInv'
  <2>1. status' \in [Task -> {"open", "done", "gone"}] /\ due' \in [Task -> Dates]
    BY <1>5 DEF EditTask
  <2> QED
    BY <1>5, <2>1 DEF EditTask, Edit
<1>6. ASSUME NEW t \in Task, DeleteProject(t)
      PROVE  TypeOK' /\ StageInv'
  BY <1>6 DEF DeleteProject, Edit
<1> QED
  BY <1>1, <1>2, <1>3, <1>4, <1>5, <1>6 DEF Environment

LEMMA StepTyped == TypeOK /\ StageInv /\ [Next]_vars => TypeOK' /\ StageInv'
<1> SUFFICES ASSUME TypeOK, StageInv, [Next]_vars PROVE TypeOK' /\ StageInv'
  OBVIOUS
<1>1. CASE UNCHANGED vars
  BY <1>1 DEF vars, clock, db, ghosts, TypeOK, StageInv
<1> QED
  BY <1>1, RemindersTyped, DigestsTyped, EnvironmentTyped DEF Next

\* The two jobs and everything around them keep every variable within its
\* type, whatever the bounds.
THEOREM TypeCorrectReminders == Spec => [](TypeOK /\ StageInv)
  BY InitTyped, StepTyped, PTL DEF Spec

-----------------------------------------------------------------------------
(* Queued rows                                                             *)

\* A group that is being cleared has been delivered or given up.
ClearingInv ==
  flush.pc = "clear" => Ids(GroupRows(flush.group)) \subseteq digested \cup dropped

LEMMA InitQueue == Init => QueuedIsDelivered /\ ClearingInv
  BY DEF Init, QueuedIsDelivered, ClearingInv, NoFlush

\* Inserting a row takes the next id.
LEMMA InsertKeeps ==
  ASSUME TypeOK, QueuedIsDelivered, NEW c, NEW freq, NEW key, Insert(c, freq, key),
         UNCHANGED <<digested, dropped>>
  PROVE  QueuedIsDelivered'
<1> DEFINE new == [id |-> rows + 1, to |-> c, freq |-> freq, key |-> key, at |-> hour]
<1>1. queue' = queue \cup {new} /\ rows' = rows + 1
  BY DEF Insert
<1>2. new.id = rows + 1
  OBVIOUS
<1> HIDE DEF new
<1>3. Ids(queue)' = Ids(queue) \cup {rows + 1}
  BY <1>1, <1>2 DEF Ids
<1>4. \A n \in 1 .. rows + 1 : n \in 1 .. rows \/ n = rows + 1
  BY DEF TypeOK
<1> QED
  BY <1>1, <1>3, <1>4 DEF QueuedIsDelivered

\* Whatever leaves flush alone and grows the sets keeps both.
LEMMA Kept ==
  ASSUME QueuedIsDelivered, ClearingInv, queue' = queue, rows' = rows,
         digested \subseteq digested', dropped \subseteq dropped',
         flush' = flush \/ flush'.pc # "clear"
  PROVE  QueuedIsDelivered' /\ ClearingInv'
<1>1. QueuedIsDelivered'
  BY DEF QueuedIsDelivered, Ids
<1>2. ClearingInv'
  <2>1. CASE flush' = flush
    BY <2>1 DEF ClearingInv, Ids, GroupRows
  <2>2. CASE flush'.pc # "clear"
    BY <2>2 DEF ClearingInv
  <2> QED
    BY <2>1, <2>2
<1> QED
  BY <1>1, <1>2

LEMMA StepQueue ==
  ASSUME TypeOK, StageInv, QueuedIsDelivered, ClearingInv, [Next]_vars
  PROVE  QueuedIsDelivered' /\ ClearingInv'
<1> USE DEF db, clock, ghosts
<1>1. CASE UNCHANGED vars
  BY <1>1, Kept DEF vars
<1>2. CASE Reminders
  <2>1. ASSUME NEW c \in Contact, Enqueue(c)
        PROVE  QueuedIsDelivered' /\ ClearingInv'
    <3>1. QueuedIsDelivered'
      BY <2>1, InsertKeeps DEF Enqueue
    <3>2. ClearingInv'
      BY <2>1 DEF Enqueue, ClearingInv, Ids, GroupRows
    <3> QED
      BY <3>1, <3>2
  <2>2. CASE \/ StartReminders \/ PickTask \/ PickRaises \/ FinishReminders \/ ReadContacts
             \/ RemindersBreak
    <3>1. StartReminders => UNCHANGED <<queue, rows, digested, dropped, flush>>
      BY DEF StartReminders
    <3>2. PickTask => UNCHANGED <<queue, rows, digested, dropped, flush>>
      BY DEF PickTask
    <3>3. PickRaises \/ FinishReminders => UNCHANGED <<queue, rows, digested, dropped, flush>>
      BY DEF PickRaises, FinishReminders
    <3>4. ReadContacts \/ RemindersBreak => UNCHANGED <<queue, rows, digested, dropped, flush>>
      BY DEF ReadContacts, RemindersBreak
    <3>5. UNCHANGED <<queue, rows, digested, dropped, flush>>
      BY <2>2, <3>1, <3>2, <3>3, <3>4
    <3> QED
      BY <3>5, Kept
  <2>3. ASSUME NEW c \in Contact, NEW ch \in Channel,
               CheckSent(c, ch) \/ Deliver(c, ch) \/ Record(c, ch) \/ RecordFails(c, ch)
        PROVE  QueuedIsDelivered' /\ ClearingInv'
    BY <2>3, Kept DEF CheckSent, Deliver, Record, RecordFails
  <2>4. ASSUME NEW c \in Contact, DeliverFails(c)
        PROVE  QueuedIsDelivered' /\ ClearingInv'
    <3>1. UNCHANGED <<queue, rows, digested, dropped, flush>>
      BY <2>4 DEF DeliverFails
    <3> QED
      BY <3>1, Kept
  <2> QED
    BY <1>2, <2>1, <2>2, <2>3, <2>4 DEF Reminders
<1>3. CASE Digests
  <2>0. ASSUME flush' = NextGroup
        PROVE  flush'.pc # "clear"
    BY <2>0 DEF NextGroup, TypeOK, Flush
  <2>1. CASE StartDigests
    BY <2>1, Kept DEF StartDigests, NoFlush
  <2>2. ASSUME NEW g \in Contact \X Digest, CheckHour(g)
        PROVE  QueuedIsDelivered' /\ ClearingInv'
    <3>1. flush'.pc # "clear"
      BY <2>2 DEF CheckHour, TypeOK, Flush
    <3> QED
      BY <2>2, <3>1, Kept DEF CheckHour
  <2>3. CASE SendDigest \/ GiveUp
    <3>1. /\ flush'.group = flush.group /\ flush'.rows = flush.rows
          /\ Ids(GroupRows(flush.group)) \subseteq digested' \cup dropped'
          /\ digested \subseteq digested' /\ dropped \subseteq dropped'
      BY <2>3 DEF SendDigest, GiveUp, TypeOK, Flush
    <3>2. ClearingInv'
      BY <3>1 DEF ClearingInv, Ids, GroupRows
    <3>3. QueuedIsDelivered'
      BY <2>3, <3>1 DEF SendDigest, GiveUp, QueuedIsDelivered, Ids
    <3> QED
      BY <3>2, <3>3
  <2>4. CASE DigestFails
    BY <2>0, <2>4, Kept DEF DigestFails
  <2>5. CASE Clear
    <3>1. Ids(Cleared(flush.group)) \subseteq digested \cup dropped
      BY <2>5 DEF Clear, ClearingInv, Cleared, Ids
    <3>2. Ids(queue) \subseteq Ids(queue') \cup Ids(Cleared(flush.group))
      BY <2>5 DEF Clear, Ids
    <3>3. QueuedIsDelivered'
      BY <2>5, <3>1, <3>2 DEF Clear, QueuedIsDelivered, Ids
    <3>4. ClearingInv'
      BY <2>0, <2>5 DEF Clear, ClearingInv
    <3> QED
      BY <3>3, <3>4
  <2>6. CASE FinishDigests \/ DigestsBreak
    BY <2>6, Kept DEF FinishDigests, DigestsBreak, NoFlush
  <2> QED
    BY <1>3, <2>1, <2>2, <2>3, <2>4, <2>5, <2>6 DEF Digests
<1>4. CASE Environment
  <2>1. ASSUME NEW c \in Contact, Comment(c)
        PROVE  QueuedIsDelivered' /\ ClearingInv'
    <3>1. QueuedIsDelivered'
      BY <2>1, InsertKeeps DEF Comment
    <3>2. ClearingInv'
      BY <2>1 DEF Comment, ClearingInv, Ids, GroupRows
    <3> QED
      BY <3>1, <3>2
  <2>2. CASE Tick \/ \E name \in {"reminders", "digests"} : Missed(name)
    BY <2>2, Kept DEF Tick, Missed
  <2>3. ASSUME NEW c \in Contact, ChangeContact(c)
        PROVE  QueuedIsDelivered' /\ ClearingInv'
    BY <2>3, Kept DEF ChangeContact
  <2>4. ASSUME NEW t \in Task, EditTask(t) \/ DeleteProject(t)
        PROVE  QueuedIsDelivered' /\ ClearingInv'
    BY <2>4, Kept DEF EditTask, DeleteProject
  <2> QED
    BY <1>4, <2>1, <2>2, <2>3, <2>4 DEF Environment
<1> QED
  BY <1>1, <1>2, <1>3, <1>4 DEF Next

\* No notice queued for a digest is lost, whatever is queued while a digest
\* goes out, whoever fails and however often.
THEOREM NoRowIsLost == Spec => []QueuedIsDelivered
<1>1. Init => TypeOK /\ StageInv /\ QueuedIsDelivered /\ ClearingInv
  BY InitTyped, InitQueue
<1>2. TypeOK /\ StageInv /\ QueuedIsDelivered /\ ClearingInv /\ [Next]_vars
      => (TypeOK /\ StageInv /\ QueuedIsDelivered /\ ClearingInv)'
  BY StepTyped, StepQueue
<1> QED
  BY <1>1, <1>2, PTL DEF Spec

-----------------------------------------------------------------------------
(* What a run owes                                                         *)

\* What is owed is owed to readers of their inbox, for tasks of a project.
OwedToReaders ==
  \A x \in owed : /\ x[2] = "in_app"
                  /\ contact[x[1]] # None
                  /\ contact[x[1]].in_app = "instant"
                  /\ status[x[3][1]] # "gone"

\* The dedup records of the in-app channel tell the truth, and so does the
\* one about to be written.
InboxRecords ==
  /\ \A x \in sent : x[2] = "in_app" => x \in reached
  /\ job.pc = "record" /\ job.to[2] = "in_app"
       => <<job.to[1], job.to[2], job.event>> \in reached

\* A reminder is still to come: its task is in the batch, or its contacts
\* are about to be read, or its contact's turn is to come.
Waiting(x) == \E y \in job.batch : x[3] = Event(y[1], y[2], job.now)

Awaiting(x) == job.pc = "contacts" /\ x[3] = job.event

InLine(x) ==
  /\ job.pc \in {"check", "deliver", "record"}
  /\ x[3] = job.event
  /\ <<x[1], "in_app">> \in job.left
  /\ job.prefs[x[1]] # None
  /\ job.prefs[x[1]].in_app = "instant"

Pending(x) == ~Idle /\ (Waiting(x) \/ Awaiting(x) \/ InLine(x))

OwedArrives == \A x \in owed : job.pc # "raised" => x \in reached \/ Pending(x)

OwedInv == OwedToReaders /\ InboxRecords /\ OwedArrives

LEMMA InitOwed == Init => OwedInv
  BY DEF Init, OwedInv, OwedToReaders, InboxRecords, OwedArrives, NoJob

\* A step that leaves the job alone and shrinks what is owed.
LEMMA JobAlone ==
  ASSUME OwedInv, job' = job, sent' = sent, owed' \subseteq owed, reached \subseteq reached',
         OwedToReaders'
  PROVE  OwedInv'
<1>1. \A x : Pending(x)' <=> Pending(x)
  BY DEF Pending, Idle, Waiting, Awaiting, InLine
<1>2. OwedArrives'
  BY <1>1 DEF OwedInv, OwedArrives
<1>3. InboxRecords'
  BY DEF OwedInv, InboxRecords
<1> QED
  BY <1>2, <1>3 DEF OwedInv

\* A recipient is done with, and had been told if it was owed.
LEMMA DoneArrives ==
  ASSUME TypeOK, OwedInv, NEW c \in Contact, NEW ch \in Channel, Done(c, ch),
         job.pc \in {"check", "record"}, owed' = owed, reached' = reached,
         \A x \in owed : x = <<c, ch, job.event>> /\ InLine(x) => x \in reached
  PROVE  OwedArrives'
<1> SUFFICES ASSUME NEW x \in owed, x \notin reached
             PROVE  Pending(x)'
  BY DEF OwedArrives
<1> DEFINE left == job.left \ {<<c, ch>>}
<1>1. /\ job'.left = left /\ job'.batch = job.batch /\ job'.now = job.now
      /\ job'.event = job.event /\ job'.prefs = job.prefs
      /\ job'.pc = IF left = {} THEN "pick" ELSE "check"
  BY DEF Done, TypeOK, Job
<1> HIDE DEF left
<1>2. Pending(x) /\ ~Idle'
  BY <1>1 DEF OwedInv, OwedArrives, Idle
<1>3. CASE Waiting(x)
  BY <1>1, <1>2, <1>3 DEF Pending, Waiting
<1>4. CASE InLine(x)
  <2>1. x \in Reminder /\ x[2] = "in_app"
    BY DEF TypeOK, OwedInv, OwedToReaders
  <2>2. x = <<x[1], "in_app", x[3]>>
    BY <2>1 DEF Reminder
  <2>3. x # <<c, ch, job.event>>
    BY <1>4
  <2>4. <<x[1], "in_app">> # <<c, ch>>
    BY <1>4, <2>2, <2>3 DEF InLine
  <2>5. <<x[1], "in_app">> \in left
    BY <1>4, <2>4 DEF InLine, left
  <2>6. job'.pc = "check"
    BY <1>1, <2>5
  <2> QED
    BY <1>1, <1>2, <1>4, <2>5, <2>6 DEF Pending, InLine
<1>5. ~Awaiting(x)
  BY DEF Awaiting
<1> QED
  BY <1>2, <1>3, <1>4, <1>5 DEF Pending

\* The run goes on with the recipient in hand.
LEMMA OnwardArrives ==
  ASSUME TypeOK, OwedInv, job.pc \in {"check", "deliver"},
         NEW p \in {"deliver", "record"}, NEW to, job' = [job EXCEPT !.pc = p, !.to = to],
         owed' = owed, reached \subseteq reached'
  PROVE  OwedArrives'
<1>1. /\ job'.left = job.left /\ job'.batch = job.batch /\ job'.now = job.now
      /\ job'.event = job.event /\ job'.prefs = job.prefs /\ job'.pc = p
  BY DEF TypeOK, Job
<1>2. \A x : Pending(x) => Pending(x)'
  BY <1>1 DEF Pending, Idle, Waiting, Awaiting, InLine
<1> QED
  BY <1>1, <1>2 DEF OwedInv, OwedArrives

LEMMA RemindersOwed ==
  ASSUME TypeOK, StageInv, OwedInv, Reminders
  PROVE  OwedInv'
<1> USE DEF db, clock, ghosts
<1>1. CASE StartReminders
  <2>1. job'.pc = "pick" /\ job'.batch = Batch /\ job'.now = hour
    BY <1>1 DEF StartReminders, NoJob
  <2>2. owed' = Owed /\ UNCHANGED <<contact, status, sent, reached>>
    BY <1>1 DEF StartReminders
  <2>3. \A x \in Owed : \E c \in InAppReaders, t \in DueTasks(hour) :
           x = <<c, "in_app", Event(t, due[t], hour)>>
    BY DEF Owed
  <2>4. OwedToReaders'
    BY <2>2, <2>3 DEF OwedToReaders, InAppReaders, DueTasks, Event
  <2>5. OwedArrives'
    <3> SUFFICES ASSUME NEW x \in Owed PROVE Pending(x)'
      BY <2>2 DEF OwedArrives
    <3>1. PICK c \in InAppReaders, t \in DueTasks(hour) :
             x = <<c, "in_app", Event(t, due[t], hour)>>
      BY <2>3
    <3>2. <<t, due[t]>> \in Batch
      BY DEF Batch
    <3>3. x[3] = Event(t, due[t], hour)
      BY <3>1
    <3> QED
      BY <2>1, <3>2, <3>3 DEF Pending, Idle, Waiting
  <2>6. InboxRecords'
    BY <2>1, <2>2 DEF OwedInv, InboxRecords
  <2> QED
    BY <2>4, <2>5, <2>6 DEF OwedInv
<1>2. CASE PickTask
  <2>1. UNCHANGED <<contact, status, sent, reached, owed>> /\ job.pc = "pick"
    BY <1>2 DEF PickTask
  <2>2. PICK y \in job.batch :
          \/ /\ status[y[1]] = "gone"
             /\ job' = [job EXCEPT !.batch = job.batch \ {y}]
          \/ job' = [job EXCEPT !.batch = job.batch \ {y}, !.pc = "contacts",
                                !.event = Event(y[1], y[2], job.now)]
    BY <1>2 DEF PickTask
  <2>3. /\ job'.batch = job.batch \ {y} /\ job'.now = job.now
        /\ \/ status[y[1]] = "gone" /\ job'.pc = "pick"
           \/ job'.pc = "contacts" /\ job'.event = Event(y[1], y[2], job.now)
    BY <2>1, <2>2 DEF TypeOK, Job
  <2>4. OwedArrives'
    <3> SUFFICES ASSUME NEW x \in owed, x \notin reached
                 PROVE  Pending(x)'
      BY <2>1 DEF OwedArrives
    <3>1. Waiting(x)
      BY <2>1 DEF OwedInv, OwedArrives, Pending, Awaiting, InLine
    <3>2. PICK z \in job.batch : x[3] = Event(z[1], z[2], job.now)
      BY <3>1 DEF Waiting
    <3>3. ~Idle'
      BY <2>3 DEF Idle
    <3>4. CASE z # y
      BY <2>3, <3>2, <3>3, <3>4 DEF Pending, Waiting
    <3>5. CASE z = y
      <4>1. x[3][1] = y[1]
        BY <3>2, <3>5 DEF Event
      <4>2. status[y[1]] # "gone"
        BY <4>1 DEF OwedInv, OwedToReaders
      <4> QED
        BY <2>3, <3>2, <3>3, <3>5, <4>2 DEF Pending, Awaiting
    <3> QED
      BY <3>4, <3>5
  <2> QED
    BY <2>1, <2>3, <2>4 DEF OwedInv, OwedToReaders, InboxRecords
<1>3. CASE PickRaises
  <2>1. job'.pc = "raised" /\ UNCHANGED <<contact, status, sent, reached, owed>>
    BY <1>3 DEF PickRaises, NoJob
  <2> QED
    BY <2>1 DEF OwedInv, OwedToReaders, InboxRecords, OwedArrives
<1>4. CASE FinishReminders
  <2>1. job'.pc = "idle" /\ UNCHANGED <<contact, status, sent, reached, owed>>
    BY <1>4 DEF FinishReminders, NoJob
  <2>2. \A x \in owed : x \in reached
    BY <1>4 DEF FinishReminders, OwedInv, OwedArrives, Pending, Waiting, Awaiting, InLine
  <2> QED
    BY <2>1, <2>2 DEF OwedInv, OwedToReaders, InboxRecords, OwedArrives
<1>5. CASE ReadContacts
  <2>1. UNCHANGED <<contact, status, sent, reached, owed>> /\ job.pc = "contacts"
    BY <1>5 DEF ReadContacts
  <2> DEFINE to == {c \in Contact : contact[c] # None}
  <2>2. /\ job'.pc = IF to = {} THEN "pick" ELSE "check"
        /\ job'.left = to \X Channel /\ job'.prefs = contact
        /\ job'.batch = job.batch /\ job'.now = job.now /\ job'.event = job.event
    BY <1>5 DEF ReadContacts, TypeOK, Job
  <2>3. OwedArrives'
    <3> SUFFICES ASSUME NEW x \in owed, x \notin reached
                 PROVE  Pending(x)'
      BY <2>1 DEF OwedArrives
    <3>1. Waiting(x) \/ Awaiting(x)
      BY <2>1 DEF OwedInv, OwedArrives, Pending, InLine
    <3>2. ~Idle'
      BY <2>2 DEF Idle
    <3>3. CASE Waiting(x)
      BY <2>2, <3>2, <3>3 DEF Pending, Waiting
    <3>4. CASE Awaiting(x)
      <4>1. x[1] \in Contact /\ contact[x[1]] # None /\ contact[x[1]].in_app = "instant"
        BY DEF OwedInv, OwedToReaders, TypeOK, Reminder
      <4>2. x[1] \in to /\ <<x[1], "in_app">> \in to \X Channel
        BY <4>1 DEF Channel
      <4>3. job'.pc = "check"
        BY <2>2, <4>2
      <4> HIDE DEF to
      <4> QED
        BY <2>2, <3>2, <3>4, <4>1, <4>2, <4>3 DEF Pending, Awaiting, InLine
    <3> QED
      BY <3>1, <3>3, <3>4
  <2>4. job'.pc # "record"
    BY <2>2
  <2> QED
    BY <2>1, <2>3, <2>4 DEF OwedInv, OwedToReaders, InboxRecords
<1>6. ASSUME NEW c \in Contact, NEW ch \in Channel, CheckSent(c, ch)
      PROVE  OwedInv'
  <2>1. UNCHANGED <<contact, status, sent, reached, owed>> /\ job.pc = "check"
    BY <1>6 DEF CheckSent
  <2>2. CASE Frequency(c, ch) = "off" \/ AlreadySent(c, ch)
    <3>1. Done(c, ch)
      BY <1>6, <2>2 DEF CheckSent
    <3>2. ASSUME NEW x \in owed, x = <<c, ch, job.event>>, InLine(x)
          PROVE  x \in reached
      <4>1. ch = "in_app" /\ Frequency(c, ch) = "instant"
        BY <3>2 DEF OwedInv, OwedToReaders, InLine, Frequency
      <4> QED
        BY <2>2, <3>2, <4>1 DEF AlreadySent, OwedInv, InboxRecords
    <3>3. OwedArrives'
      BY <2>1, <3>1, <3>2, DoneArrives
    <3>4. job'.pc # "record"
      BY <3>1 DEF Done, TypeOK, Job
    <3> QED
      BY <2>1, <3>3, <3>4 DEF OwedInv, OwedToReaders, InboxRecords
  <2>3. CASE ~(Frequency(c, ch) = "off" \/ AlreadySent(c, ch))
    <3>1. job' = [job EXCEPT !.pc = "deliver", !.to = <<c, ch>>]
      BY <1>6, <2>3 DEF CheckSent
    <3>2. OwedArrives'
      BY <2>1, <3>1, OnwardArrives
    <3>3. job'.pc # "record"
      BY <3>1 DEF TypeOK, Job
    <3> QED
      BY <2>1, <3>2, <3>3 DEF OwedInv, OwedToReaders, InboxRecords
  <2> QED
    BY <2>2, <2>3
<1>7. ASSUME NEW c \in Contact, NEW ch \in Channel, job.pc = "deliver", job.to = <<c, ch>>,
             job' = [job EXCEPT !.pc = "record"], reached \subseteq reached',
             ch = "in_app" => <<c, ch, job.event>> \in reached',
             UNCHANGED <<contact, status, sent, owed>>
      PROVE  OwedInv'
  <2>1. job' = [job EXCEPT !.pc = "record", !.to = job.to]
    BY <1>7 DEF TypeOK, Job
  <2>2. OwedArrives'
    BY <1>7, <2>1, OnwardArrives
  <2>3. job'.to = <<c, ch>> /\ job'.event = job.event
    BY <1>7 DEF TypeOK, Job
  <2>4. InboxRecords'
    BY <1>7, <2>3 DEF OwedInv, InboxRecords
  <2> QED
    BY <1>7, <2>2, <2>4 DEF OwedInv, OwedToReaders
<1>8. ASSUME NEW c \in Contact, NEW ch \in Channel, Deliver(c, ch)
      PROVE  OwedInv'
  <2>1. reached' = reached \cup {<<c, ch, job.event>>}
    BY <1>8 DEF Deliver, Arrive
  <2> QED
    BY <1>7, <1>8, <2>1 DEF Deliver
<1>9. ASSUME NEW c \in Contact, DeliverFails(c)
      PROVE  OwedInv'
  <2>1. reached \subseteq reached'
    BY <1>9 DEF DeliverFails, Arrive
  <2>2. "email" \in Channel /\ "email" # "in_app"
    BY DEF Channel
  <2> QED
    BY <1>7, <1>9, <2>1, <2>2 DEF DeliverFails
<1>10. ASSUME NEW c \in Contact, Enqueue(c)
       PROVE  OwedInv'
  <2>1. "email" \in Channel /\ "email" # "in_app"
    BY DEF Channel
  <2> QED
    BY <1>7, <1>10, <2>1 DEF Enqueue
<1>11. ASSUME NEW c \in Contact, NEW ch \in Channel, job.pc = "record", job.to = <<c, ch>>,
              Done(c, ch), sent' \subseteq Recorded(c, ch),
              UNCHANGED <<contact, status, reached, owed>>
       PROVE  OwedInv'
  <2>1. ch = "in_app" => <<c, ch, job.event>> \in reached
    BY <1>11 DEF OwedInv, InboxRecords
  <2>2. ASSUME NEW x \in owed, x = <<c, ch, job.event>>
        PROVE  x \in reached
    <3>1. x[2] = ch
      BY <2>2
    <3>2. ch = "in_app"
      BY <3>1 DEF OwedInv, OwedToReaders
    <3> QED
      BY <2>1, <2>2, <3>2
  <2>3. OwedArrives'
    BY <1>11, <2>2, DoneArrives
  <2>4. job'.pc # "record"
    BY <1>11 DEF Done, TypeOK, Job
  <2>5. \A x \in sent' : x[2] = "in_app" => x \in reached
    BY <1>11, <2>1 DEF Recorded, OwedInv, InboxRecords
  <2> QED
    BY <1>11, <2>3, <2>4, <2>5 DEF OwedInv, OwedToReaders, InboxRecords
<1>12. ASSUME NEW c \in Contact, NEW ch \in Channel, Record(c, ch) \/ RecordFails(c, ch)
       PROVE  OwedInv'
  BY <1>11, <1>12 DEF Record, RecordFails, Recorded
<1>13. CASE RemindersBreak
  <2>1. job'.pc = "idle" /\ owed' = {} /\ sent' = sent /\ reached' = reached
    BY <1>13 DEF RemindersBreak, NoJob
  <2> QED
    BY <2>1 DEF OwedInv, OwedToReaders, InboxRecords, OwedArrives
<1> QED
  BY <1>1, <1>2, <1>3, <1>4, <1>5, <1>6, <1>8, <1>9, <1>10, <1>12, <1>13 DEF Reminders

LEMMA StepOwed ==
  ASSUME TypeOK, StageInv, OwedInv, [Next]_vars
  PROVE  OwedInv'
<1> USE DEF db, clock, ghosts
<1>1. ASSUME job' = job, sent' = sent, owed' = owed, reached \subseteq reached',
             UNCHANGED <<contact, status>>
      PROVE  OwedInv'
  <2>1. OwedToReaders'
    BY <1>1 DEF OwedInv, OwedToReaders
  <2> QED
    BY <1>1, <2>1, JobAlone
<1>2. CASE UNCHANGED vars
  BY <1>1, <1>2 DEF vars
<1>3. CASE Digests
  <2>1. reached \subseteq reached'
    BY <1>3 DEF Digests, StartDigests, CheckHour, SendDigest, GiveUp, DigestFails,
                DigestArrives, Clear, FinishDigests, DigestsBreak
  <2>2. UNCHANGED <<job, sent, owed, contact, status>>
    BY <1>3 DEF Digests, StartDigests, CheckHour, SendDigest, GiveUp, DigestFails,
                Clear, FinishDigests, DigestsBreak
  <2> QED
    BY <1>1, <2>1, <2>2
<1>4. CASE Environment
  <2>1. CASE Tick \/ \E name \in {"reminders", "digests"} : Missed(name)
    BY <1>1, <2>1 DEF Tick, Missed
  <2>2. ASSUME NEW c \in Contact, Comment(c)
        PROVE  OwedInv'
    BY <1>1, <2>2 DEF Comment
  <2>3. ASSUME NEW c \in Contact, ChangeContact(c)
        PROVE  OwedInv'
    <3>1. /\ owed' = {x \in owed : x[1] # c}
          /\ UNCHANGED <<job, sent, reached, status>>
      BY <2>3 DEF ChangeContact
    <3>2. \A d \in Contact : d # c => contact'[d] = contact[d]
      BY <2>3 DEF ChangeContact, TypeOK
    <3>3. OwedToReaders'
      BY <3>1, <3>2 DEF OwedInv, OwedToReaders, TypeOK, Reminder
    <3> QED
      BY <3>1, <3>3, JobAlone
  <2>4. ASSUME NEW t \in Task, EditTask(t)
        PROVE  OwedInv'
    <3>1. UNCHANGED <<job, sent, owed, reached, contact>>
      BY <2>4 DEF EditTask
    <3>2. \A u \in Task : status[u] # "gone" => status'[u] # "gone"
      BY <2>4 DEF EditTask, TypeOK
    <3>3. OwedToReaders'
      BY <3>1, <3>2 DEF OwedInv, OwedToReaders, TypeOK, Reminder, Key
    <3> QED
      BY <3>1, <3>3, JobAlone
  <2>5. ASSUME NEW t \in Task, DeleteProject(t)
        PROVE  OwedInv'
    <3>1. /\ owed' = {x \in owed : x[3][1] # t}
          /\ UNCHANGED <<job, sent, reached, contact>>
      BY <2>5 DEF DeleteProject
    <3>2. \A u \in Task : u # t => status'[u] = status[u]
      BY <2>5 DEF DeleteProject, TypeOK
    <3>3. OwedToReaders'
      BY <3>1, <3>2 DEF OwedInv, OwedToReaders, TypeOK, Reminder, Key
    <3> QED
      BY <3>1, <3>3, JobAlone
  <2> QED
    BY <1>4, <2>1, <2>2, <2>3, <2>4, <2>5 DEF Environment
<1> QED
  BY <1>2, <1>3, <1>4, RemindersOwed DEF Next

\* Whatever fails and whatever the record of reminders says, a run that came
\* to its end has put every due task into the inboxes it had to.
THEOREM FinishedRunIsComplete == Spec => []FinishedRunReminded
<1>1. Init => TypeOK /\ StageInv /\ OwedInv
  BY InitTyped, InitOwed
<1>2. TypeOK /\ StageInv /\ OwedInv /\ [Next]_vars => (TypeOK /\ StageInv /\ OwedInv)'
  BY StepTyped, StepOwed
<1>3. OwedInv => FinishedRunReminded
  BY DEF OwedInv, OwedArrives, FinishedRunReminded, Pending, Idle
<1> QED
  BY <1>1, <1>2, <1>3, PTL DEF Spec

-----------------------------------------------------------------------------
(* No reminder comes twice                                                 *)

\* Rows are told apart by their ids, and a digest under way still finds the
\* rows of the groups that are left.
RowsInv ==
  /\ \A r \in queue : r.id <= rows
  /\ \A r, s \in queue : r.id = s.id => r = s
  /\ \A g \in flush.groups : GroupRows(g) \subseteq queue

Now == <<job.to[1], job.to[2], job.event>>

InHand(x) == job.pc = "record" /\ x = Now

Clearing(r) == flush.pc = "clear" /\ r \in GroupRows(flush.group)

\* What reached a contact or waits in the queue is on record, or about to
\* be; what is about to be delivered is not; no two rows carry the same
\* reminder, and a row whose reminder came is about to be cleared.
OnceInv ==
  /\ twice = {}
  /\ \A x \in reached \cup Notices(queue) : x \in sent \/ InHand(x)
  /\ job.pc = "deliver" => Now \notin sent
  /\ Doubled(queue) = {}
  /\ \A r \in queue : r.key # None /\ Notice(r) \in reached => Clearing(r)

Faultless == faults = 0 => OnceInv

LEMMA InitOnce == Init => RowsInv /\ Faultless
  BY DEF Init, RowsInv, Faultless, OnceInv, NoJob, NoFlush, Notices, Doubled

\* A new row.
LEMMA InsertRows ==
  ASSUME TypeOK, RowsInv, NEW c \in Contact, NEW freq \in Digest, NEW key \in Key \cup {None},
         Insert(c, freq, key), flush' = flush
  PROVE  /\ RowsInv'
         /\ \E r : /\ queue' = queue \cup {r}
                   /\ r.key = key /\ r.to = c /\ r \notin queue
<1> DEFINE new == [id |-> rows + 1, to |-> c, freq |-> freq, key |-> key, at |-> hour]
<1>1. queue' = queue \cup {new} /\ rows' = rows + 1
  BY DEF Insert
<1>2. new.id = rows + 1 /\ new.key = key /\ new.to = c
  OBVIOUS
<1> HIDE DEF new
<1>3. \A r \in queue : r.id \in Nat /\ r.id <= rows
  BY DEF TypeOK, RowsInv, Row
<1>4. rows \in Nat
  BY DEF TypeOK
<1>5. new \notin queue
  BY <1>2, <1>3, <1>4
<1>6. \A r \in queue' : r.id <= rows'
  BY <1>1, <1>2, <1>3, <1>4
<1>7. \A r, s \in queue' : r.id = s.id => r = s
  BY <1>1, <1>2, <1>3, <1>4 DEF RowsInv
<1>8. \A g \in flush'.groups : GroupRows(g)' \subseteq queue'
  BY <1>1 DEF RowsInv, GroupRows
<1>9. RowsInv'
  BY <1>6, <1>7, <1>8 DEF RowsInv
<1> QED
  BY <1>1, <1>2, <1>5, <1>9

LEMMA StepRows ==
  ASSUME TypeOK, StageInv, RowsInv, [Next]_vars
  PROVE  RowsInv'
<1> USE DEF db, clock, ghosts
<1>1. ASSUME UNCHANGED <<queue, rows>>, flush'.rows = flush.rows,
             flush'.groups \subseteq flush.groups
      PROVE  RowsInv'
  BY <1>1 DEF RowsInv, GroupRows
<1>2. ASSUME UNCHANGED <<queue, rows, flush>>
      PROVE  RowsInv'
  BY <1>2 DEF RowsInv, GroupRows
<1>3. CASE UNCHANGED vars
  BY <1>2, <1>3 DEF vars
<1>4. CASE Reminders
  <2>1. ASSUME NEW c \in Contact, Enqueue(c)
        PROVE  RowsInv'
    <3>1. job.event \in Key \cup {None}
      BY DEF TypeOK, Job
    <3> QED
      BY <2>1, <3>1, InsertRows DEF Enqueue
  <2>2. CASE \/ StartReminders \/ PickTask \/ PickRaises \/ FinishReminders \/ ReadContacts
             \/ RemindersBreak
    BY <1>2, <2>2 DEF StartReminders, PickTask, PickRaises, FinishReminders, ReadContacts,
                      RemindersBreak
  <2>3. CASE \/ \E c \in Contact, ch \in Channel :
                  CheckSent(c, ch) \/ Deliver(c, ch) \/ Record(c, ch) \/ RecordFails(c, ch)
             \/ \E c \in Contact : DeliverFails(c)
    BY <1>2, <2>3 DEF CheckSent, Deliver, Record, RecordFails, DeliverFails
  <2> QED
    BY <1>4, <2>1, <2>2, <2>3 DEF Reminders
<1>5. CASE Digests
  <2>1. CASE StartDigests
    <3>1. flush'.rows = queue /\ UNCHANGED <<queue, rows>>
      BY <2>1 DEF StartDigests, NoFlush
    <3> QED
      BY <3>1 DEF RowsInv, GroupRows
  <2>2. ASSUME NEW g \in Contact \X Digest, CheckHour(g)
        PROVE  RowsInv'
    <3>1. flush'.rows = flush.rows /\ flush'.groups \subseteq flush.groups
      BY <2>2 DEF CheckHour, TypeOK, Flush
    <3> QED
      BY <1>1, <2>2, <3>1 DEF CheckHour
  <2>3. CASE SendDigest \/ GiveUp
    <3>1. flush'.rows = flush.rows /\ flush'.groups = flush.groups
      BY <2>3 DEF SendDigest, GiveUp, TypeOK, Flush
    <3> QED
      BY <1>1, <2>3, <3>1 DEF SendDigest, GiveUp
  <2>4. NextGroup.rows = flush.rows /\ NextGroup.groups = flush.groups \ {flush.group}
    BY DEF NextGroup, TypeOK, Flush
  <2>5. CASE DigestFails
    BY <1>1, <2>4, <2>5 DEF DigestFails
  <2>6. CASE Clear
    <3>1. /\ queue' = queue \ Cleared(flush.group) /\ rows' = rows
          /\ flush'.rows = flush.rows /\ flush'.groups = flush.groups \ {flush.group}
          /\ flush.group \in flush.groups
      BY <2>4, <2>6 DEF Clear, StageInv
    <3>2. ASSUME NEW g \in flush'.groups, NEW r \in GroupRows(g)'
          PROVE  r \in queue'
      <4>1. r \in GroupRows(g) /\ g \in flush.groups /\ g # flush.group
        BY <3>1, <3>2 DEF GroupRows
      <4>2. r \in queue
        BY <4>1 DEF RowsInv
      <4>3. g \in Contact \X Digest /\ flush.group \in Contact \X Digest
        BY <3>1, <4>1 DEF TypeOK, Flush
      <4>4. r \notin GroupRows(flush.group)
        BY <4>1, <4>3 DEF GroupRows
      <4>5. \A x \in GroupRows(flush.group) : x \in queue
        BY <3>1 DEF RowsInv
      <4>6. r.id \notin Ids(GroupRows(flush.group))
        BY <4>2, <4>4, <4>5 DEF RowsInv, Ids
      <4> QED
        BY <3>1, <4>2, <4>6 DEF Cleared
    <3> QED
      BY <3>1, <3>2 DEF RowsInv
  <2>7. CASE FinishDigests \/ DigestsBreak
    <3>1. flush'.groups = {} /\ UNCHANGED <<queue, rows>>
      BY <2>7 DEF FinishDigests, DigestsBreak, NoFlush
    <3> QED
      BY <3>1 DEF RowsInv
  <2> QED
    BY <1>5, <2>1, <2>2, <2>3, <2>5, <2>6, <2>7 DEF Digests
<1>6. CASE Environment
  <2>1. ASSUME NEW c \in Contact, Comment(c)
        PROVE  RowsInv'
    BY <2>1, InsertRows DEF Comment
  <2> QED
    BY <1>2, <1>6, <2>1 DEF Environment, Tick, Missed, ChangeContact, EditTask, DeleteProject
<1> QED
  BY <1>3, <1>4, <1>5, <1>6 DEF Next

\* The job moves on and no store changes.
LEMMA MovesOn ==
  ASSUME Faultless, faults' = faults, UNCHANGED <<twice, reached, sent, queue, flush>>,
         job.pc # "record", job'.pc # "record", job'.pc = "deliver" => Now' \notin sent
  PROVE  Faultless'
<1> SUFFICES ASSUME faults = 0 PROVE OnceInv'
  BY DEF Faultless
<1>1. OnceInv
  BY DEF Faultless
<1>2. Notices(queue)' = Notices(queue) /\ Doubled(queue)' = Doubled(queue)
  BY DEF Notices, Doubled, Notice
<1>3. \A x \in reached \cup Notices(queue) : x \in sent
  BY <1>1 DEF OnceInv, InHand
<1>4. \A r \in queue : r.key # None /\ Notice(r)' \in reached' => Clearing(r)'
  BY <1>1 DEF OnceInv, Clearing, GroupRows, Notice
<1> QED
  BY <1>1, <1>2, <1>3, <1>4 DEF OnceInv

\* A reminder that is not on record has neither come nor been queued.
LEMMA NewsIsNew ==
  ASSUME OnceInv, job.pc = "deliver"
  PROVE  Now \notin reached /\ Now \notin Notices(queue) /\ Now \notin sent
  BY DEF OnceInv, InHand

LEMMA RemindersOnce ==
  ASSUME TypeOK, StageInv, RowsInv, Faultless, Reminders
  PROVE  Faultless'
<1> USE DEF db, clock, ghosts
<1>1. CASE StartReminders \/ PickTask \/ PickRaises \/ FinishReminders \/ ReadContacts
  <2>1. job.pc # "record"
    BY <1>1 DEF StartReminders, Idle, PickTask, PickRaises, FinishReminders, ReadContacts
  <2>2. job'.pc \notin {"record", "deliver"}
    <3>1. /\ StartReminders => job'.pc = "pick"
          /\ PickRaises => job'.pc = "raised"
          /\ FinishReminders => job'.pc = "idle"
      <4>1. StartReminders => job'.pc = "pick"
        BY DEF StartReminders, NoJob
      <4>2. PickRaises => job'.pc = "raised"
        BY DEF PickRaises, NoJob
      <4>3. FinishReminders => job'.pc = "idle"
        BY DEF FinishReminders, NoJob
      <4> QED
        BY <4>1, <4>2, <4>3
    <3>2. ReadContacts => job'.pc \in {"pick", "check"}
      BY DEF ReadContacts, TypeOK, Job
    <3>3. PickTask => job'.pc \in {"pick", "contacts"}
      BY DEF PickTask, TypeOK, Job
    <3> QED
      BY <1>1, <3>1, <3>2, <3>3
  <2>3. UNCHANGED <<faults, twice, reached, sent, queue, flush>>
    BY <1>1 DEF StartReminders, PickTask, PickRaises, FinishReminders, ReadContacts
  <2> QED
    BY <2>1, <2>2, <2>3, MovesOn
<1>2. ASSUME NEW c \in Contact, NEW ch \in Channel, CheckSent(c, ch)
      PROVE  Faultless'
  <2>1. job.pc = "check" /\ UNCHANGED <<faults, twice, reached, sent, queue, flush>>
    BY <1>2 DEF CheckSent
  <2>2. CASE Done(c, ch)
    <3>1. job'.pc \in {"pick", "check"}
      BY <2>2 DEF Done, TypeOK, Job
    <3> QED
      BY <2>1, <3>1, MovesOn
  <2>3. CASE job' = [job EXCEPT !.pc = "deliver", !.to = <<c, ch>>] /\ ~AlreadySent(c, ch)
    <3>1. job'.pc = "deliver" /\ Now' = <<c, ch, job.event>>
      BY <2>3 DEF Now, TypeOK, Job
    <3> QED
      BY <2>1, <2>3, <3>1, MovesOn DEF AlreadySent
  <2> QED
    BY <1>2, <2>2, <2>3 DEF CheckSent
<1>3. ASSUME NEW c \in Contact, NEW ch \in Channel, Deliver(c, ch)
      PROVE  Faultless'
  <2> SUFFICES ASSUME faults = 0 PROVE OnceInv'
    BY <1>3 DEF Faultless, Deliver
  <2>1. OnceInv /\ job.pc = "deliver" /\ job.to = <<c, ch>>
    BY <1>3 DEF Faultless, Deliver
  <2>2. Now = <<c, ch, job.event>> /\ Now' = Now /\ job'.pc = "record"
    BY <1>3, <2>1 DEF Deliver, Now, TypeOK, Job
  <2>3. reached' = reached \cup {Now} /\ twice' = twice \cup (reached \cap {Now})
    BY <1>3, <2>2 DEF Deliver, Arrive
  <2>4. UNCHANGED <<sent, queue, flush>>
    BY <1>3 DEF Deliver
  <2>5. Now \notin reached /\ Now \notin Notices(queue)
    BY <2>1, NewsIsNew
  <2>6. Notices(queue)' = Notices(queue) /\ Doubled(queue)' = Doubled(queue)
    BY <2>4 DEF Notices, Doubled, Notice
  <2>7. twice' = {}
    BY <2>1, <2>3, <2>5 DEF OnceInv
  <2>8. \A x \in (reached \cup Notices(queue))' : x \in sent' \/ InHand(x)'
    BY <2>1, <2>2, <2>3, <2>4, <2>6 DEF OnceInv, InHand
  <2>9. \A r \in queue' : r.key # None /\ Notice(r)' \in reached' => Clearing(r)'
    BY <2>1, <2>3, <2>4, <2>5 DEF OnceInv, Clearing, GroupRows, Notice, Notices
  <2> QED
    BY <2>1, <2>2, <2>6, <2>7, <2>8, <2>9 DEF OnceInv
<1>4. ASSUME NEW c \in Contact, Enqueue(c)
      PROVE  Faultless'
  <2> SUFFICES ASSUME faults = 0 PROVE OnceInv'
    BY <1>4 DEF Faultless, Enqueue
  <2>1. OnceInv /\ job.pc = "deliver" /\ job.to = <<c, "email">>
    BY <1>4 DEF Faultless, Enqueue
  <2>2. Now = <<c, "email", job.event>> /\ Now' = Now /\ job'.pc = "record"
    BY <1>4, <2>1 DEF Enqueue, Now, TypeOK, Job
  <2>3. job.event \in Key \cup {None} /\ job.event # None
    BY <2>1, NoneIsNoKey DEF StageInv
  <2>4. UNCHANGED <<twice, reached, sent, flush>>
    BY <1>4 DEF Enqueue
  <2>5. PICK r : queue' = queue \cup {r} /\ r.key = job.event /\ r.to = c /\ r \notin queue
    BY <1>4, <2>3, <2>4, InsertRows DEF Enqueue
  <2>6. Notice(r) = Now
    BY <2>2, <2>5 DEF Notice
  <2>7. Now \notin reached /\ Now \notin Notices(queue)
    BY <2>1, NewsIsNew
  <2>8. Notices(queue)' = Notices(queue) \cup {Now}
    BY <2>3, <2>5, <2>6 DEF Notices, Notice
  <2>9. Doubled(queue)' = {}
    <3> SUFFICES ASSUME NEW q \in queue', NEW s \in queue', q # s, q.key # None, s.key # None,
                        Notice(q) = Notice(s)
                 PROVE  FALSE
      BY NoneIsNoKey DEF Doubled, Notices, Notice
    <3>1. q \in queue /\ s \in queue => Notice(q) \in Doubled(queue)
      BY DEF Doubled, Notices, Notice
    <3>2. q = r \/ s = r
      BY <2>1, <2>5, <3>1 DEF OnceInv
    <3>3. Now \in Notices(queue)
      BY <2>5, <2>6, <3>2 DEF Notices, Notice
    <3> QED
      BY <2>7, <3>3
  <2>10. \A x \in (reached \cup Notices(queue))' : x \in sent' \/ InHand(x)'
    BY <2>1, <2>2, <2>4, <2>8 DEF OnceInv, InHand
  <2>11. \A q \in queue' : q.key # None /\ Notice(q)' \in reached' => Clearing(q)'
    BY <2>1, <2>4, <2>5, <2>6, <2>7 DEF OnceInv, Clearing, GroupRows, Notice
  <2> QED
    BY <2>1, <2>2, <2>4, <2>9, <2>10, <2>11 DEF OnceInv
<1>5. ASSUME NEW c \in Contact, NEW ch \in Channel, Record(c, ch)
      PROVE  Faultless'
  <2> SUFFICES ASSUME faults = 0 PROVE OnceInv'
    BY <1>5 DEF Faultless, Record
  <2>1. OnceInv /\ job.pc = "record" /\ job.to = <<c, ch>>
    BY <1>5 DEF Faultless, Record
  <2>2. Now = <<c, ch, job.event>> /\ sent' = sent \cup {Now}
    BY <1>5, <2>1 DEF Record, Recorded, Now
  <2>3. job'.pc \in {"pick", "check"}
    BY <1>5 DEF Record, Done, TypeOK, Job
  <2>4. UNCHANGED <<twice, reached, queue, flush>>
    BY <1>5 DEF Record
  <2>5. Notices(queue)' = Notices(queue) /\ Doubled(queue)' = Doubled(queue)
    BY <2>4 DEF Notices, Doubled, Notice
  <2>6. \A x \in (reached \cup Notices(queue))' : x \in sent'
    BY <2>1, <2>2, <2>4, <2>5 DEF OnceInv, InHand
  <2>7. \A r \in queue' : r.key # None /\ Notice(r)' \in reached' => Clearing(r)'
    BY <2>1, <2>4 DEF OnceInv, Clearing, GroupRows, Notice
  <2> QED
    BY <2>1, <2>3, <2>4, <2>5, <2>6, <2>7 DEF OnceInv
<1>6. ASSUME NEW c \in Contact, NEW ch \in Channel, DeliverFails(c) \/ RecordFails(c, ch)
      PROVE  Faultless'
  <2>1. faults' = faults + 1 /\ faults \in Nat
    BY <1>6 DEF DeliverFails, RecordFails, Fault, TypeOK
  <2> QED
    BY <2>1 DEF Faultless
<1>7. CASE RemindersBreak
  <2>1. faults' = faults + 1 /\ faults \in Nat
    BY <1>7 DEF RemindersBreak, Fault, TypeOK
  <2> QED
    BY <2>1 DEF Faultless
<1> QED
  BY <1>1, <1>2, <1>3, <1>4, <1>5, <1>6, <1>7 DEF Reminders, Channel

LEMMA DigestsOnce ==
  ASSUME TypeOK, StageInv, RowsInv, Faultless, Digests
  PROVE  Faultless'
<1> USE DEF db, clock, ghosts
<1>1. ASSUME UNCHANGED <<faults, twice, reached, sent, queue, job>>, flush.pc # "clear"
      PROVE  Faultless'
  <2> SUFFICES ASSUME faults = 0 PROVE OnceInv'
    BY <1>1 DEF Faultless
  <2>1. OnceInv
    BY DEF Faultless
  <2>2. \A r \in queue : ~(r.key # None /\ Notice(r) \in reached)
    BY <1>1, <2>1 DEF OnceInv, Clearing
  <2>3. \A x \in reached \cup Notices(queue) : x \in sent' \/ InHand(x)'
    BY <1>1, <2>1 DEF OnceInv, InHand, Now
  <2>4. Notices(queue)' = Notices(queue) /\ Doubled(queue)' = Doubled(queue)
    BY <1>1 DEF Notices, Doubled, Notice
  <2>5. \A r \in queue' : ~(r.key # None /\ Notice(r)' \in reached')
    BY <1>1, <2>2 DEF Notice
  <2>6. job'.pc = "deliver" => Now' \notin sent'
    BY <1>1, <2>1 DEF OnceInv, Now
  <2> QED
    BY <1>1, <2>1, <2>3, <2>4, <2>5, <2>6 DEF OnceInv
<1>2. CASE StartDigests \/ GiveUp \/ FinishDigests
  BY <1>1, <1>2 DEF StartDigests, GiveUp, FinishDigests
<1>3. ASSUME NEW g \in Contact \X Digest, CheckHour(g)
      PROVE  Faultless'
  BY <1>1, <1>3 DEF CheckHour
<1>4. CASE SendDigest
  <2> SUFFICES ASSUME faults = 0 PROVE OnceInv'
    BY <1>4 DEF Faultless, SendDigest
  <2> DEFINE out == GroupRows(flush.group)
  <2>1. OnceInv /\ flush.pc = "send" /\ out \subseteq queue
    BY <1>4 DEF Faultless, SendDigest, StageInv, RowsInv
  <2>2. /\ reached' = reached \cup Notices(out)
        /\ twice' = twice \cup (reached \cap Notices(out)) \cup Doubled(out)
        /\ UNCHANGED <<sent, queue, job>>
    BY <1>4 DEF SendDigest, DigestArrives
  <2>3. flush'.pc = "clear" /\ GroupRows(flush.group)' = out
    BY <1>4 DEF SendDigest, GroupRows, TypeOK, Flush
  <2> HIDE DEF out
  <2>4. \A r \in queue : ~(r.key # None /\ Notice(r) \in reached)
    BY <2>1 DEF OnceInv, Clearing
  <2>5. reached \cap Notices(out) = {}
    BY <2>1, <2>4 DEF Notices
  <2>6. Doubled(out) = {}
    <3>1. Doubled(out) \subseteq Doubled(queue)
      BY <2>1 DEF Doubled, Notices
    <3> QED
      BY <2>1, <3>1 DEF OnceInv
  <2>7. twice' = {}
    BY <2>1, <2>2, <2>5, <2>6 DEF OnceInv
  <2>8. Notices(out) \subseteq Notices(queue)
    BY <2>1 DEF Notices
  <2>9. Notices(queue)' = Notices(queue) /\ Doubled(queue)' = Doubled(queue)
    BY <2>2 DEF Notices, Doubled, Notice
  <2>10. \A x \in (reached \cup Notices(queue))' : x \in sent' \/ InHand(x)'
    BY <2>1, <2>2, <2>8, <2>9 DEF OnceInv, InHand, Now
  <2>11. ASSUME NEW r \in queue, r.key # None, Notice(r) \in reached \cup Notices(out)
         PROVE  r \in out
    <3>1. PICK s \in out : s.key # None /\ Notice(s) = Notice(r)
      BY <2>4, <2>11 DEF Notices
    <3>2. r # s => Notice(r) \in Doubled(queue)
      BY <2>1, <2>11, <3>1 DEF Doubled, Notices
    <3> QED
      BY <2>1, <3>1, <3>2 DEF OnceInv
  <2>12. \A r \in queue' : r.key # None /\ Notice(r)' \in reached' => Clearing(r)'
    BY <2>2, <2>3, <2>11 DEF Clearing, Notice
  <2>13. job'.pc = "deliver" => Now' \notin sent'
    BY <2>1, <2>2 DEF OnceInv, Now
  <2> QED
    BY <2>7, <2>9, <2>10, <2>12, <2>13, <2>1 DEF OnceInv
<1>5. CASE DigestFails \/ DigestsBreak
  <2>1. faults' = faults + 1 /\ faults \in Nat
    BY <1>5 DEF DigestFails, DigestsBreak, Fault, TypeOK
  <2> QED
    BY <2>1 DEF Faultless
<1>6. CASE Clear
  <2> SUFFICES ASSUME faults = 0 PROVE OnceInv'
    BY <1>6 DEF Faultless, Clear
  <2>1. OnceInv /\ queue' = queue \ Cleared(flush.group) /\ UNCHANGED <<twice, reached, sent, job>>
    BY <1>6 DEF Faultless, Clear
  <2>2. Notices(queue)' \subseteq Notices(queue)
    BY <2>1 DEF Notices, Notice
  <2>3. Doubled(queue)' \subseteq Doubled(queue)
    BY <2>1 DEF Doubled, Notices, Notice
  <2>4. ASSUME NEW r \in queue', r.key # None, Notice(r)' \in reached'
        PROVE  FALSE
    <3>1. r \in queue /\ r \in GroupRows(flush.group)
      BY <2>1, <2>4 DEF OnceInv, Clearing, Notice
    <3>2. r \in Cleared(flush.group)
      BY <3>1 DEF Cleared, Ids
    <3> QED
      BY <2>1, <2>4, <3>2
  <2>5. \A x \in (reached \cup Notices(queue))' : x \in sent' \/ InHand(x)'
    BY <2>1, <2>2 DEF OnceInv, InHand, Now
  <2>6. job'.pc = "deliver" => Now' \notin sent'
    BY <2>1 DEF OnceInv, Now
  <2> QED
    BY <2>1, <2>3, <2>4, <2>5, <2>6 DEF OnceInv
<1> QED
  BY <1>2, <1>3, <1>4, <1>5, <1>6 DEF Digests

LEMMA StepOnce ==
  ASSUME TypeOK, StageInv, RowsInv, Faultless, [Next]_vars
  PROVE  Faultless'
<1> USE DEF db, clock, ghosts
<1>1. ASSUME UNCHANGED <<faults, twice, reached, sent, queue, job, flush>>
      PROVE  Faultless'
  BY <1>1 DEF Faultless, OnceInv, InHand, Now, Clearing, GroupRows, Notices, Doubled, Notice
<1>2. CASE UNCHANGED vars
  BY <1>1, <1>2 DEF vars
<1>3. CASE Environment
  <2>1. ASSUME NEW c \in Contact, Comment(c)
        PROVE  Faultless'
    <3> SUFFICES ASSUME faults = 0 PROVE OnceInv'
      BY <2>1 DEF Faultless, Comment
    <3>1. OnceInv /\ UNCHANGED <<twice, reached, sent, job, flush>>
      BY <2>1 DEF Faultless, Comment
    <3>2. PICK r : queue' = queue \cup {r} /\ r.key = None
      BY <2>1, InsertRows DEF Comment
    <3>3. Notices(queue)' = Notices(queue) /\ Doubled(queue)' = Doubled(queue)
      <4>1. {s \in queue' : s.key # None} = {s \in queue : s.key # None}
        BY <3>2
      <4>2. Notices(queue)' = Notices(queue)
        BY <4>1 DEF Notices, Notice
      <4>3. Doubled(queue)' \subseteq Doubled(queue)
        <5> SUFFICES ASSUME NEW x \in Doubled(queue)' PROVE x \in Doubled(queue)
          OBVIOUS
        <5>1. PICK q, s \in queue' : q # s /\ Notice(q) = x /\ Notice(s) = x
          BY DEF Doubled, Notice
        <5>2. x[3] # None
          BY <4>2 DEF Doubled, Notices, Notice
        <5>3. q.key # None /\ s.key # None
          BY <5>1, <5>2 DEF Notice
        <5> QED
          BY <3>2, <4>2, <5>1, <5>3 DEF Doubled
      <4>4. Doubled(queue) = {}
        BY <3>1 DEF OnceInv
      <4> QED
        BY <4>2, <4>3, <4>4
    <3>4. \A x \in (reached \cup Notices(queue))' : x \in sent' \/ InHand(x)'
      BY <3>1, <3>3 DEF OnceInv, InHand, Now
    <3>5. \A s \in queue' : s.key # None /\ Notice(s)' \in reached' => Clearing(s)'
      BY <3>1, <3>2 DEF OnceInv, Clearing, GroupRows, Notice
    <3>6. job'.pc = "deliver" => Now' \notin sent'
      BY <3>1 DEF OnceInv, Now
    <3> QED
      BY <3>1, <3>3, <3>4, <3>5, <3>6 DEF OnceInv
  <2>2. ASSUME NEW name \in {"reminders", "digests"}, Missed(name)
        PROVE  Faultless'
    <3>1. faults' = faults + 1 /\ faults \in Nat
      BY <2>2 DEF Missed, Fault, TypeOK
    <3> QED
      BY <3>1 DEF Faultless
  <2>3. CASE Tick \/ (\E c \in Contact : ChangeContact(c))
             \/ (\E t \in Task : EditTask(t) \/ DeleteProject(t))
    BY <1>1, <2>3 DEF Tick, ChangeContact, EditTask, DeleteProject
  <2> QED
    BY <1>3, <2>1, <2>2, <2>3 DEF Environment
<1> QED
  BY <1>2, <1>3, RemindersOnce, DigestsOnce DEF Next

\* Without a fault no reminder reaches a contact twice on a channel, for any
\* tasks, contacts and preferences, however they change.
THEOREM NoReminderTwice == Spec => []RemindedOnce
<1>1. Init => TypeOK /\ StageInv /\ RowsInv /\ Faultless
  BY InitTyped, InitOnce
<1>2. TypeOK /\ StageInv /\ RowsInv /\ Faultless /\ [Next]_vars
      => (TypeOK /\ StageInv /\ RowsInv /\ Faultless)'
  BY StepTyped, StepRows, StepOnce
<1>3. Faultless => RemindedOnce
  BY DEF Faultless, OnceInv, RemindedOnce
<1> QED
  BY <1>1, <1>2, <1>3, PTL DEF Spec

-----------------------------------------------------------------------------
(* Digests come in time                                                    *)

LEMMA Divided ==
  ASSUME NEW d \in Nat \ {0}, NEW h \in Nat
  PROVE  h \div d \in Nat /\ (h % d) \in 0 .. d - 1 /\ h = (d * (h \div d)) + (h % d)
  OBVIOUS

LEMMA Composed ==
  ASSUME NEW d \in Nat \ {0}, NEW q \in Nat, NEW r \in 0 .. d - 1
  PROVE  ((d * q) + r) % d = r /\ ((d * q) + r) \div d = q
  OBVIOUS

LEMMA Split ==
  ASSUME NEW d \in Nat \ {0}, NEW a \in Nat
  PROVE  \E q \in Nat, s \in 0 .. d - 1 : a + 1 = (d * q) + s
<1>1. a + 1 \in Nat
  OBVIOUS
<1> QED
  BY <1>1, Divided

\* Any hour of the day comes within a day.
LEMMA HourComes ==
  ASSUME NEW d \in Nat \ {0}, NEW a \in Nat, NEW t \in 0 .. d - 1
  PROVE  \E h \in (a + 1) .. (a + d) : h % d = t
<1>1. PICK q \in Nat, s \in 0 .. d - 1 : a + 1 = (d * q) + s
  BY Split
<1>2. CASE s <= t
  <2> DEFINE h == (d * q) + t
  <2>1. h \in (a + 1) .. (a + d)
    BY <1>1, <1>2
  <2>2. h % d = t
    BY <1>1, Composed
  <2> QED
    BY <2>1, <2>2
<1>3. CASE s > t
  <2> DEFINE h == (d * (q + 1)) + t
  <2>1. q + 1 \in Nat /\ d * (q + 1) = (d * q) + d
    BY <1>1
  <2>2. h \in (a + 1) .. (a + d)
    BY <1>1, <1>3, <2>1
  <2>3. h % d = t
    BY <2>1, Composed
  <2> QED
    BY <2>2, <2>3
<1> QED
  BY <1>1, <1>2, <1>3

AtHour(h, t, k) == h % Day = t /\ (h \div Day) % Week = k

\* Any hour of any day of the week comes within a week.
LEMMA WeekHourComes ==
  ASSUME NEW a \in Nat, NEW t \in 0 .. Day - 1, NEW k \in 0 .. Week - 1
  PROVE  \E h \in (a + 1) .. (a + (Day * Week)) : AtHour(h, t, k)
<1> DEFINE d == Day
           w == Week
<1>0. d \in Nat \ {0} /\ w \in Nat \ {0} /\ t \in 0 .. d - 1 /\ k \in 0 .. w - 1
  BY PeriodsPositive
<1> HIDE DEF d, w
<1> USE <1>0
<1>1. PICK q \in Nat, s \in 0 .. d - 1 : a + 1 = (d * q) + s
  BY Split
<1> DEFINE x == IF s <= t THEN q ELSE q + 1
<1>2. \E n \in x .. (x + w - 1) : n % w = k
  <2>1. CASE x = 0
    <3>1. k % w = k /\ k \in x .. (x + w - 1)
      BY <2>1
    <3> QED
      BY <3>1
  <2>2. CASE x # 0
    <3>1. x - 1 \in Nat
      BY <1>1, <2>2
    <3>2. PICK n \in ((x - 1) + 1) .. ((x - 1) + w) : n % w = k
      BY <3>1, HourComes
    <3>3. n \in x .. (x + w - 1)
      BY <3>1, <1>1
    <3> QED
      BY <3>2, <3>3
  <2> QED
    BY <2>1, <2>2
<1>3. PICK n \in x .. (x + w - 1) : n % w = k
  BY <1>2
<1>4. n \in Nat /\ x \in Nat
  BY <1>1
<1> DEFINE h == (d * n) + t
<1>5. h % d = t /\ h \div d = n
  BY <1>4, Composed
<1>6. h >= a + 1
  <2>1. d * n >= d * x
    BY <1>4, n >= x
  <2>2. CASE s <= t
    BY <1>1, <2>1, <2>2, <1>4
  <2>3. CASE s > t
    <3>1. d * x = (d * q) + d
      BY <2>3, <1>1
    <3> QED
      BY <1>1, <2>1, <3>1, <1>4
  <2> QED
    BY <1>1, <2>2, <2>3
<1>7. h <= a + (d * w)
  <2>1. CASE s <= t
    <3>1. d * n <= d * (q + w - 1)
      BY <2>1, <1>4, <1>1
    <3>2. d * (q + w - 1) = (d * q) + (d * w) - d
      BY <1>1
    <3>3. d * n \in Int /\ d * q \in Int /\ d * w \in Int
      BY <1>1, <1>4
    <3> QED
      BY <3>1, <3>2, <3>3, <1>1
  <2>2. CASE s > t
    <3>1. d * n <= d * (q + w)
      BY <2>2, <1>4, <1>1
    <3>2. d * (q + w) = (d * q) + (d * w)
      BY <1>1
    <3>3. d * n \in Int /\ d * q \in Int /\ d * w \in Int
      BY <1>1, <1>4
    <3> QED
      BY <3>1, <3>2, <3>3, <2>2, <1>1
  <2> QED
    BY <1>1, <2>1, <2>2
<1>8. h \in Nat /\ d * w \in Nat
  BY <1>4
<1>9. h \in (a + 1) .. (a + (d * w)) /\ (h \div d) % w = k
  BY <1>3, <1>5, <1>6, <1>7, <1>8
<1>10. AtHour(h, t, k)
  BY <1>5, <1>9 DEF AtHour, d, w
<1> QED
  BY <1>9, <1>10 DEF d, w

\* The hours at which the rows of a contact go out.
Asked(r, h) ==
  LET p == contact[r.to]
  IN  p = None \/ (h % Day = p.at /\ (r.freq = "weekly" => (h \div Day) % Week = p.day))

\* The run under way has still to look at the group of this row.
Listed(r) == flush.pc # "idle" /\ r \in flush.rows /\ <<r.to, r.freq>> \in flush.groups

\* No hour at which a row that waits should have gone out is over, and if it
\* is this hour, the run is to come or still has the row before it.
Unasked(r) ==
  /\ \A h \in (r.at + 1) .. (hour - 1) : ~Asked(r, h)
  /\ r.at < hour /\ Asked(r, hour) => "digests" \in cron \/ Listed(r)

Punctual == faults = 0 => \A r \in queue : r.id \in excused \/ Unasked(r)

RunsNow ==
  /\ \A r \in queue : r.at <= hour
  /\ flush.pc # "idle" => flush.now = hour

LEMMA InitPunctual == Init => RunsNow /\ Punctual
  BY DEF Init, RunsNow, Punctual, NoFlush

LEMMA InsertPunctual ==
  ASSUME TypeOK, RunsNow, Punctual, NEW c, NEW freq, NEW key, Insert(c, freq, key),
         UNCHANGED <<hour, cron, contact, flush, faults, excused>>
  PROVE  RunsNow' /\ Punctual'
<1>1. \E new : queue' = queue \cup {new} /\ new.at = hour
  <2> WITNESS [id |-> rows + 1, to |-> c, freq |-> freq, key |-> key, at |-> hour]
  <2> QED
    BY DEF Insert
<1>2. PICK new : queue' = queue \cup {new} /\ new.at = hour
  BY <1>1
<1>3. hour \in Nat /\ UNCHANGED <<hour, cron, contact, flush, faults, excused>>
  BY DEF TypeOK
<1>4. ASSUME NEW r \in queue, Unasked(r)
      PROVE  Unasked(r)'
  BY <1>3, <1>4 DEF Unasked, Asked, Listed
<1>5. Unasked(new)'
  BY <1>2, <1>3 DEF Unasked
<1>6. Punctual'
  BY <1>2, <1>3, <1>4, <1>5 DEF Punctual
<1> QED
  BY <1>2, <1>3, <1>6 DEF RunsNow

\* A step that leaves the clock, the contacts and the run alone.
LEMMA AlonePunctual ==
  ASSUME RunsNow, Punctual, UNCHANGED <<hour, cron, contact, queue, flush, excused>>,
         faults' = 0 => faults = 0
  PROVE  RunsNow' /\ Punctual'
  BY DEF RunsNow, Punctual, Unasked, Asked, Listed

LEMMA FaultIsOne == TypeOK /\ Fault => faults' # 0
  BY DEF TypeOK, Fault

\* After a fault nothing is claimed any more.
LEMMA FaultPunctual ==
  ASSUME TypeOK, RunsNow, faults' # 0, UNCHANGED <<hour, queue>>,
         flush'.pc # "idle" => flush.pc # "idle" /\ flush'.now = flush.now
  PROVE  RunsNow' /\ Punctual'
  BY DEF RunsNow, Punctual

LEMMA RemindersPunctual ==
  ASSUME TypeOK, RunsNow, Punctual, Reminders
  PROVE  RunsNow' /\ Punctual'
<1> USE DEF db, clock, ghosts
<1>1. CASE StartReminders
  <2>1. cron' = cron \ {"reminders"} /\ UNCHANGED <<hour, contact, queue, flush, faults, excused>>
    BY <1>1 DEF StartReminders
  <2>2. \A r \in queue : Unasked(r) => Unasked(r)'
    BY <2>1 DEF Unasked, Asked, Listed
  <2> QED
    BY <2>1, <2>2 DEF RunsNow, Punctual
<1>2. CASE PickTask \/ PickRaises \/ FinishReminders \/ ReadContacts
  BY <1>2, AlonePunctual DEF PickTask, PickRaises, FinishReminders, ReadContacts
<1>3. ASSUME NEW c \in Contact, NEW ch \in Channel,
             CheckSent(c, ch) \/ Deliver(c, ch) \/ Record(c, ch)
      PROVE  RunsNow' /\ Punctual'
  BY <1>3, AlonePunctual DEF CheckSent, Deliver, Record
<1>4. ASSUME NEW c \in Contact, NEW ch \in Channel, RecordFails(c, ch) \/ DeliverFails(c)
      PROVE  RunsNow' /\ Punctual'
  BY <1>4, FaultIsOne, FaultPunctual DEF RecordFails, DeliverFails
<1>5. ASSUME NEW c \in Contact, Enqueue(c)
      PROVE  RunsNow' /\ Punctual'
  BY <1>5, InsertPunctual DEF Enqueue
<1>6. CASE RemindersBreak
  BY <1>6, FaultIsOne, FaultPunctual DEF RemindersBreak
<1>7. "email" \in Channel
  BY DEF Channel
<1> QED
  BY <1>1, <1>2, <1>3, <1>4, <1>5, <1>6, <1>7 DEF Reminders

LEMMA DigestsPunctual ==
  ASSUME TypeOK, StageInv, RunsNow, Punctual, Digests
  PROVE  RunsNow' /\ Punctual'
<1> USE DEF db, clock, ghosts
<1>0. flush \in Flush
  BY DEF TypeOK
<1>1. CASE StartDigests
  <2>1. /\ flush'.pc = "group" /\ flush'.now = hour /\ flush'.rows = queue
        /\ flush'.groups = {<<r.to, r.freq>> : r \in queue}
        /\ UNCHANGED <<hour, contact, queue, faults, excused>>
    BY <1>1 DEF StartDigests, NoFlush
  <2>2. \A r \in queue : Listed(r)'
    BY <2>1 DEF Listed
  <2>3. \A r \in queue : Unasked(r) => Unasked(r)'
    BY <2>1, <2>2 DEF Unasked, Asked
  <2> QED
    BY <2>1, <2>3 DEF RunsNow, Punctual
<1>2. ASSUME NEW g \in Contact \X Digest, CheckHour(g)
      PROVE  RunsNow' /\ Punctual'
  <2>1. /\ flush.pc = "group" /\ flush'.now = flush.now /\ flush'.rows = flush.rows
        /\ flush'.pc # "idle"
        /\ \/ flush'.groups = flush.groups
           \/ flush'.groups = flush.groups \ {g} /\ ~ShouldFlush(g)
        /\ UNCHANGED <<hour, cron, contact, queue, faults, excused>>
    BY <1>0, <1>2 DEF CheckHour, Flush
  <2>2. flush.now = hour
    BY <2>1 DEF RunsNow
  <2>3. ASSUME NEW r \in queue, Unasked(r)
        PROVE  Unasked(r)'
    <3>1. CASE Listed(r) /\ ~Listed(r)'
      <4>1. g = <<r.to, r.freq>> /\ ~ShouldFlush(g)
        BY <2>1, <3>1 DEF Listed
      <4>2. ~Asked(r, hour)
        BY <2>2, <4>1 DEF ShouldFlush, FlushHour, Asked
      <4> QED
        BY <2>1, <2>3, <4>2 DEF Unasked, Asked
    <3>2. CASE Listed(r) => Listed(r)'
      BY <2>1, <2>3, <3>2 DEF Unasked, Asked
    <3> QED
      BY <3>1, <3>2
  <2> QED
    BY <2>1, <2>2, <2>3 DEF RunsNow, Punctual
<1>3. CASE SendDigest \/ GiveUp
  <2>1. /\ flush.pc = "send" /\ flush'.pc = "clear" /\ flush'.now = flush.now
        /\ flush'.rows = flush.rows /\ flush'.groups = flush.groups
        /\ UNCHANGED <<hour, cron, contact, queue, faults, excused>>
    BY <1>0, <1>3 DEF SendDigest, GiveUp, Flush
  <2>2. \A r \in queue : Unasked(r) => Unasked(r)'
    BY <2>1 DEF Unasked, Asked, Listed
  <2> QED
    BY <2>1, <2>2 DEF RunsNow, Punctual
<1>4. /\ NextGroup.pc = "group" /\ NextGroup.now = flush.now
      /\ NextGroup.rows = flush.rows /\ NextGroup.groups = flush.groups \ {flush.group}
  BY <1>0 DEF NextGroup, Flush
<1>5. CASE DigestFails
  BY <1>4, <1>5, FaultIsOne, FaultPunctual DEF DigestFails
<1>6. CASE Clear
  <2>1. /\ flush.pc = "clear" /\ queue' = queue \ Cleared(flush.group)
        /\ flush' = NextGroup
        /\ UNCHANGED <<hour, cron, contact, faults, excused>>
    BY <1>6 DEF Clear
  <2>2. ASSUME NEW r \in queue', Unasked(r)
        PROVE  Unasked(r)'
    <3>1. ASSUME Listed(r) PROVE Listed(r)'
      <4>1. r \in flush.rows /\ <<r.to, r.freq>> \in flush.groups
        BY <3>1 DEF Listed
      <4>2. r \notin Cleared(flush.group) /\ r \in queue
        BY <2>1
      <4>3. r \notin GroupRows(flush.group)
        BY <4>2 DEF Cleared, Ids
      <4>4. <<r.to, r.freq>> # flush.group
        BY <4>1, <4>3 DEF GroupRows
      <4> QED
        BY <1>4, <2>1, <4>1, <4>4 DEF Listed
    <3> QED
      BY <2>1, <2>2, <3>1 DEF Unasked, Asked
  <2> QED
    BY <1>4, <2>1, <2>2 DEF RunsNow, Punctual
<1>7. CASE FinishDigests
  <2>1. /\ flush.groups = {} /\ flush'.pc = "idle"
        /\ UNCHANGED <<hour, cron, contact, queue, faults, excused>>
    BY <1>7 DEF FinishDigests, NoFlush
  <2>2. \A r \in queue : Unasked(r) => Unasked(r)'
    BY <2>1 DEF Unasked, Asked, Listed
  <2> QED
    BY <2>1, <2>2 DEF RunsNow, Punctual
<1>8. CASE DigestsBreak
  <2>1. flush'.pc = "idle"
    BY <1>8 DEF DigestsBreak, NoFlush
  <2> QED
    BY <1>8, <2>1, FaultIsOne, FaultPunctual DEF DigestsBreak
<1> QED
  BY <1>1, <1>2, <1>3, <1>5, <1>6, <1>7, <1>8 DEF Digests

LEMMA EnvironmentPunctual ==
  ASSUME TypeOK, RunsNow, Punctual, Environment
  PROVE  RunsNow' /\ Punctual'
<1> USE DEF db, clock, ghosts
<1>1. CASE Tick
  <2>1. /\ cron = {} /\ flush.pc = "idle" /\ hour' = hour + 1 /\ "digests" \in cron'
        /\ UNCHANGED <<contact, queue, flush, faults, excused>>
    BY <1>1 DEF Tick
  <2>2. hour \in Nat /\ \A r \in queue : r.at \in Nat /\ r.at <= hour
    BY DEF TypeOK, Row, RunsNow
  <2>3. ASSUME NEW r \in queue, Unasked(r)
        PROVE  Unasked(r)'
    <3>1. r.at < hour => ~Asked(r, hour)
      BY <2>1, <2>3 DEF Unasked, Listed
    <3>2. \A h \in (r.at + 1) .. (hour - 1) : ~Asked(r, h)
      BY <2>3 DEF Unasked
    <3>3. ASSUME NEW h \in (r.at + 1) .. (hour' - 1) PROVE ~Asked(r, h)
      <4>1. h \in (r.at + 1) .. (hour - 1) \/ (h = hour /\ r.at < hour)
        BY <2>1, <2>2
      <4> QED
        BY <3>1, <3>2, <4>1
    <3>4. \A h : Asked(r, h)' <=> Asked(r, h)
      BY <2>1 DEF Asked
    <3> QED
      BY <2>1, <3>3, <3>4 DEF Unasked
  <2> QED
    BY <2>1, <2>2, <2>3 DEF RunsNow, Punctual
<1>2. ASSUME NEW name \in {"reminders", "digests"}, Missed(name)
      PROVE  RunsNow' /\ Punctual'
  BY <1>2, FaultIsOne, FaultPunctual DEF Missed
<1>3. ASSUME NEW c \in Contact, Comment(c)
      PROVE  RunsNow' /\ Punctual'
  BY <1>3, InsertPunctual DEF Comment
<1>4. ASSUME NEW c \in Contact, ChangeContact(c)
      PROVE  RunsNow' /\ Punctual'
  <2>1. PICK p : contact' = [contact EXCEPT ![c] = p]
    BY <1>4 DEF ChangeContact
  <2>2. /\ excused' = excused \cup RowsOf(c)
        /\ UNCHANGED <<hour, cron, queue, flush, faults>>
    BY <1>4 DEF ChangeContact
  <2>3. \A r \in queue : r.to = c => r.id \in excused'
    BY <2>2 DEF RowsOf, Ids
  <2>4. \A r \in queue : r.to # c => contact'[r.to] = contact[r.to]
    BY <2>1 DEF TypeOK, Row
  <2>5. ASSUME NEW r \in queue, Unasked(r), r.to # c
        PROVE  Unasked(r)'
    BY <2>2, <2>4, <2>5 DEF Unasked, Asked, Listed
  <2> QED
    BY <2>2, <2>3, <2>5 DEF RunsNow, Punctual
<1>5. ASSUME NEW t \in Task, EditTask(t) \/ DeleteProject(t)
      PROVE  RunsNow' /\ Punctual'
  BY <1>5, AlonePunctual DEF EditTask, DeleteProject
<1> QED
  BY <1>1, <1>2, <1>3, <1>4, <1>5 DEF Environment

LEMMA StepPunctual ==
  ASSUME TypeOK, StageInv, RunsNow, Punctual, [Next]_vars
  PROVE  RunsNow' /\ Punctual'
<1>1. CASE UNCHANGED vars
  BY <1>1, AlonePunctual DEF vars, clock, db, ghosts
<1> QED
  BY <1>1, RemindersPunctual, DigestsPunctual, EnvironmentPunctual DEF Next

\* A row of which no such hour is over has not waited longer than its period.
LEMMA PunctualIsInTime == TypeOK /\ Punctual => DigestsInTime
<1> SUFFICES ASSUME TypeOK, Punctual, faults = 0, NEW r \in queue, r.id \notin excused
             PROVE  hour <= r.at + (IF r.freq = "daily" THEN Day ELSE Day * Week)
  BY DEF DigestsInTime
<1>1. hour \in Nat /\ r.at \in Nat /\ r.freq \in {"daily", "weekly"}
      /\ contact[r.to] \in Prefs \cup {None}
  BY DEF TypeOK, Row, Digest
<1>2. Day \in Nat \ {0} /\ Week \in Nat \ {0} /\ Day * Week \in Nat \ {0}
  BY PeriodsPositive
<1>3. \A h \in (r.at + 1) .. (hour - 1) : ~Asked(r, h)
  BY DEF Punctual, Unasked
<1>4. contact[r.to] # None => contact[r.to].at \in 0 .. Day - 1 /\ contact[r.to].day \in 0 .. Week - 1
  BY <1>1, PrefsTyped
<1>5. ASSUME NEW span \in Nat \ {0}, \E h \in (r.at + 1) .. (r.at + span) : Asked(r, h)
      PROVE  hour <= r.at + span
  <2>1. PICK h \in (r.at + 1) .. (r.at + span) : Asked(r, h)
    BY <1>5
  <2>2. h \notin (r.at + 1) .. (hour - 1)
    BY <1>3, <2>1
  <2> QED
    BY <1>1, <2>2
<1>6. CASE contact[r.to] = None
  <2>1. \A h : Asked(r, h)
    BY <1>6 DEF Asked
  <2>2. ASSUME NEW span \in Nat \ {0} PROVE hour <= r.at + span
    <3>1. r.at + 1 \in (r.at + 1) .. (r.at + span)
      BY <1>1
    <3> QED
      BY <1>5, <2>1, <3>1
  <2> QED
    BY <1>2, <2>2
<1>7. CASE contact[r.to] # None /\ r.freq = "daily"
  <2>1. PICK h \in (r.at + 1) .. (r.at + Day) : h % Day = contact[r.to].at
    BY <1>1, <1>2, <1>4, <1>7, HourComes
  <2>2. Asked(r, h)
    BY <1>7, <2>1 DEF Asked
  <2>3. hour <= r.at + Day
    BY <1>2, <1>5, <2>1, <2>2
  <2> QED
    BY <1>7, <2>3
<1>8. CASE contact[r.to] # None /\ r.freq = "weekly"
  <2>1. contact[r.to].at \in 0 .. Day - 1 /\ contact[r.to].day \in 0 .. Week - 1
    BY <1>4, <1>8
  <2>2. PICK h \in (r.at + 1) .. (r.at + (Day * Week)) :
          AtHour(h, contact[r.to].at, contact[r.to].day)
    BY <1>1, <2>1, WeekHourComes
  <2>3. Asked(r, h)
    BY <1>8, <2>2 DEF Asked, AtHour
  <2>4. hour <= r.at + (Day * Week)
    BY <1>2, <1>5, <2>2, <2>3
  <2> QED
    BY <1>8, <2>4
<1> QED
  BY <1>1, <1>6, <1>7, <1>8

\* Without a fault no row of a contact that did not change waits for a digest
\* longer than a day, or a week: the hour and the weekday a reader chose come
\* round in that time, and the run of that hour (_should_flush) takes the row.
THEOREM DigestsComeInTime == Spec => []DigestsInTime
<1>1. Init => TypeOK /\ StageInv /\ RunsNow /\ Punctual
  BY InitTyped, InitPunctual
<1>2. TypeOK /\ StageInv /\ RunsNow /\ Punctual /\ [Next]_vars
      => (TypeOK /\ StageInv /\ RunsNow /\ Punctual)'
  BY StepTyped, StepPunctual
<1>3. TypeOK /\ Punctual => DigestsInTime
  BY PunctualIsInTime
<1> QED
  BY <1>1, <1>2, <1>3, PTL DEF Spec

-----------------------------------------------------------------------------
(* Refinement                                                              *)

\* A new row is a put.
LEMMA InsertPuts ==
  ASSUME NEW c, NEW freq, NEW key, Insert(c, freq, key), UNCHANGED <<digested, dropped>>
  PROVE  Queue!Put
<1> DEFINE new == [id |-> rows + 1, to |-> c, freq |-> freq, key |-> key, at |-> hour]
<1>1. queue' = queue \cup {new} /\ rows' = rows + 1
  BY DEF Insert
<1>2. new.id = rows + 1
  OBVIOUS
<1> HIDE DEF new
<1>3. Ids(queue)' = Ids(queue) \cup {rows + 1}
  BY <1>1, <1>2 DEF Ids
<1> QED
  BY <1>1, <1>3 DEF Queue!Put

\* The rows of the group in hand are still kept.
LEMMA GroupWaits ==
  ASSUME StageInv, RowsInv, flush.pc \in {"send", "clear"}
  PROVE  Ids(GroupRows(flush.group)) \in SUBSET Ids(queue)
  BY DEF StageInv, RowsInv, Ids

\* Every step of the model is a step of the queue, or none.
LEMMA StepQueues ==
  ASSUME TypeOK, StageInv, RowsInv, ClearingInv, [Next]_vars
  PROVE  [Queue!Next]_(Queue!vars)
<1> USE DEF db, clock, ghosts
<1>1. ASSUME UNCHANGED <<queue, rows, digested, dropped>>
      PROVE  [Queue!Next]_(Queue!vars)
  BY <1>1 DEF Queue!vars, Ids
<1>2. ASSUME NEW c, NEW freq, NEW key, Insert(c, freq, key), UNCHANGED <<digested, dropped>>
      PROVE  [Queue!Next]_(Queue!vars)
  BY <1>2, InsertPuts DEF Queue!Next
<1>3. CASE UNCHANGED vars
  BY <1>1, <1>3 DEF vars
<1>4. CASE Reminders
  <2>1. CASE \/ StartReminders \/ PickTask \/ PickRaises \/ FinishReminders \/ ReadContacts
             \/ RemindersBreak
    BY <1>1, <2>1 DEF StartReminders, PickTask, PickRaises, FinishReminders, ReadContacts,
                      RemindersBreak
  <2>2. CASE \/ \E c \in Contact, ch \in Channel :
                  CheckSent(c, ch) \/ Deliver(c, ch) \/ Record(c, ch) \/ RecordFails(c, ch)
             \/ \E c \in Contact : DeliverFails(c)
    BY <1>1, <2>2 DEF CheckSent, Deliver, Record, RecordFails, DeliverFails
  <2>3. ASSUME NEW c \in Contact, Enqueue(c)
        PROVE  [Queue!Next]_(Queue!vars)
    BY <1>2, <2>3 DEF Enqueue
  <2> QED
    BY <1>4, <2>1, <2>2, <2>3 DEF Reminders
<1>5. CASE Digests
  <2> DEFINE them == Ids(GroupRows(flush.group))
  <2>1. CASE \/ StartDigests \/ \E g \in Contact \X Digest : CheckHour(g)
             \/ DigestFails \/ FinishDigests \/ DigestsBreak
    BY <1>1, <2>1 DEF StartDigests, CheckHour, DigestFails, FinishDigests, DigestsBreak
  <2>2. CASE SendDigest
    <3>1. digested' = digested \cup them /\ UNCHANGED <<queue, rows, dropped>>
      BY <2>2 DEF SendDigest
    <3>2. them \in SUBSET Ids(queue)
      BY <2>2, GroupWaits DEF SendDigest
    <3> HIDE DEF them
    <3>3. Queue!Deliver(them)
      BY <3>1 DEF Queue!Deliver, Ids
    <3> QED
      BY <3>2, <3>3 DEF Queue!Next
  <2>3. CASE GiveUp
    <3>1. dropped' = dropped \cup them /\ UNCHANGED <<queue, rows, digested>>
      BY <2>3 DEF GiveUp
    <3>2. them \in SUBSET Ids(queue)
      BY <2>3, GroupWaits DEF GiveUp
    <3> HIDE DEF them
    <3>3. Queue!GiveUp(them)
      BY <3>1 DEF Queue!GiveUp, Ids
    <3> QED
      BY <3>2, <3>3 DEF Queue!Next
  <2>4. CASE Clear
    <3>1. queue' = queue \ Cleared(flush.group) /\ UNCHANGED <<rows, digested, dropped>>
      BY <2>4 DEF Clear
    <3>2. them \in SUBSET Ids(queue)
      BY <2>4, GroupWaits DEF Clear
    <3>3. them \subseteq digested \cup dropped
      BY <2>4 DEF Clear, ClearingInv
    <3>4. \A r \in queue : r \in Cleared(flush.group) <=> r.id \in them
      BY DEF Cleared
    <3> HIDE DEF them
    <3>5. Ids(queue)' = Ids(queue) \ them
      BY <3>1, <3>4 DEF Ids
    <3>6. Queue!Forget(them)
      BY <3>1, <3>3, <3>5 DEF Queue!Forget
    <3> QED
      BY <3>2, <3>6 DEF Queue!Next
  <2> QED
    BY <1>5, <2>1, <2>2, <2>3, <2>4 DEF Digests
<1>6. CASE Environment
  <2>1. ASSUME NEW c \in Contact, Comment(c)
        PROVE  [Queue!Next]_(Queue!vars)
    BY <1>2, <2>1 DEF Comment
  <2> QED
    BY <1>1, <1>6, <2>1 DEF Environment, Tick, Missed, ChangeContact, EditTask, DeleteProject
<1> QED
  BY <1>3, <1>4, <1>5, <1>6 DEF Next

\* The jobs, the dispatcher and the deletion by id implement the queue: a
\* row is kept until a digest with it is out or its contact is gone, and one
\* that was removed is in no later digest, whatever fails and whatever the
\* sets of tasks, contacts and preferences.
THEOREM RemindersIsADigestQueue == Spec => IsDigestQueue
<1>1. Init => TypeOK /\ StageInv /\ RowsInv /\ QueuedIsDelivered /\ ClearingInv
  BY InitTyped, InitOnce, InitQueue
<1>2. TypeOK /\ StageInv /\ RowsInv /\ QueuedIsDelivered /\ ClearingInv /\ [Next]_vars
      => (TypeOK /\ StageInv /\ RowsInv /\ QueuedIsDelivered /\ ClearingInv)'
  BY StepTyped, StepRows, StepQueue
<1>3. Init => Queue!Init
  BY DEF Init, Queue!Init, Ids
<1>4. TypeOK /\ StageInv /\ RowsInv /\ ClearingInv /\ [Next]_vars => [Queue!Next]_(Queue!vars)
  BY StepQueues
<1> QED
  BY <1>1, <1>2, <1>3, <1>4, PTL DEF Spec, IsDigestQueue, Queue!Spec
=============================================================================
