------------------------------ MODULE Reminders ------------------------------
(***************************************************************************)
(* Hourly task reminders and e-mail digests: the cron jobs                 *)
(* check_and_send_reminders (services/task_reminders.py) and               *)
(* process_digests (services/digest.py) of the arq worker (worker.py), the *)
(* dispatcher between them (services/notifications.py) and the stored      *)
(* preferences (services/notification_prefs.py).                           *)
(*                                                                         *)
(* Time is counted in hourly runs: a task's due date stands for the first  *)
(* run that finds it in the past.  Every task is owned by the partner and  *)
(* has a project of its own; every contact is a primary contact of the     *)
(* partner with an e-mail address.                                         *)
(***************************************************************************)
EXTENDS Naturals

CONSTANTS
  Task,
  Contact,
  Dates,      \* due dates: the hour, and whether an UTC offset is written
  Prefs,      \* the preferences contacts may store
  Day,        \* hours of a day (24)
  Week,       \* days of a week (7)
  Cap,        \* the last day overdue with a threshold of its own (7)
  LastHour,   \* bound of a run
  Rows,       \* bound of a run: rows ever put in db.notification_queue
  MaxFaults,  \* bound of a run
  MaxEdits,   \* bound of a run: changes of tasks and contacts
  None        \* no such document

ASSUME PeriodsPositive == Day \in Nat \ {0} /\ Week \in Nat \ {0} /\ Cap \in Nat
ASSUME BoundsAreNumbers == LastHour \in Nat /\ Rows \in Nat
                           /\ MaxFaults \in Nat /\ MaxEdits \in Nat
\* Rows are kept for thirty days and records of what was sent for ninety
\* (migration 005); a run ends before that.
ASSUME WithinRetention == LastHour < 30 * Day
ASSUME DatesTyped == Dates \subseteq [at : Nat, aware : BOOLEAN]
\* An hour or a weekday out of range is read as the default.
ASSUME PrefsTyped == Prefs \subseteq [in_app : {"instant", "off"},
                                      email : {"instant", "daily", "weekly", "off"},
                                      at : 0 .. Day - 1, day : 0 .. Week - 1]
ASSUME NoneIsNoPrefs == None \notin Prefs

VARIABLES
  hour,       \* hours since the start
  cron,       \* the jobs the worker has still to run this hour
  status,     \* of each task: open, done or deleted, gone with its project
  due,        \* the due date of each task
  contact,    \* the preferences of each contact, None once it is deleted
  sent,       \* db.notifications_sent
  queue,      \* db.notification_queue
  job,        \* the run of check_and_send_reminders
  flush,      \* the run of process_digests
  faults,     \* how many faults there were
  edits,      \* how many changes of tasks and contacts
  reached,    \* the reminders that reached a contact, per channel
  twice,      \* those that reached it more than once
  rows,       \* how many rows were queued so far
  digested,   \* the rows whose content was sent in a digest
  dropped,    \* the rows given up because their contact is gone
  excused,    \* the rows queued before a change of their contact
  owed        \* what the current or last run has to put in the inboxes

db == <<status, due, contact, sent, queue>>
clock == <<hour, cron>>
ghosts == <<reached, twice, rows, digested, dropped, excused, owed>>
vars == <<clock, db, job, flush, faults, edits, ghosts>>

-----------------------------------------------------------------------------
Channel == {"in_app", "email"}
Digest == {"daily", "weekly"}

\* 0 stands for "48h", 1 + n for overdue_day_n.
Key == Task \X (0 .. Cap + 1)
Reminder == Contact \X Channel \X Key

\* A comment's notice has no dedup key.
Row == [id : Nat, to : Contact, freq : Digest, key : Key \cup {None}, at : Nat]

ASSUME NoneIsNoKey == None \notin Key

\* Mutant: min(days_overdue, 7) is left out.
ThresholdUncapped(now, date) ==
  IF date.at <= now THEN 1 + (now - date.at) \div Day ELSE 0

\* _classify_task
Threshold(now, date) ==
  IF date.at <= now
  THEN LET days == (now - date.at) \div Day
       IN  1 + IF days <= Cap THEN days ELSE Cap
  ELSE 0

\* dedup_key: the task and the threshold.
Event(t, date, now) == <<t, Threshold(now, date)>>

\* The query of check_and_send_reminders: open and due within two days.
DueTasks(now) == {t \in Task : status[t] = "open" /\ due[t].at <= now + 2 * Day}

\* The tasks a run starts with, and what it has to put in the inboxes.
Batch == {<<t, due[t]>> : t \in DueTasks(hour)}

InAppReaders == {c \in Contact : contact[c] # None /\ contact[c].in_app = "instant"}

Owed == {<<c, "in_app", Event(t, due[t], hour)>> : c \in InAppReaders, t \in DueTasks(hour)}

NoJob == [pc |-> "idle", now |-> 0, batch |-> {}, event |-> None,
          left |-> {}, prefs |-> [c \in Contact |-> None], to |-> None]

NoFlush == [pc |-> "idle", now |-> 0, rows |-> {}, groups |-> {}, group |-> None]

Init ==
  /\ hour = 0 /\ cron = {}
  /\ status = [t \in Task |-> "open"]
  /\ due \in [Task -> Dates]
  /\ contact \in [Contact -> Prefs]
  /\ sent = {} /\ queue = {}
  /\ job = NoJob /\ flush = NoFlush
  /\ faults = 0 /\ edits = 0
  /\ reached = {} /\ twice = {} /\ rows = 0
  /\ digested = {} /\ dropped = {} /\ excused = {} /\ owed = {}

\* No run of check_and_send_reminders is under way.
Idle == job.pc \in {"idle", "raised"}

Fault == faults < MaxFaults /\ faults' = faults + 1

Edit == edits < MaxEdits /\ edits' = edits + 1

\* These reminders arrive.
Arrive(them) ==
  /\ reached' = reached \cup them
  /\ twice' = twice \cup (reached \cap them)

-----------------------------------------------------------------------------
(* The reminder job: the tasks, then for each its project, its contacts    *)
(* and for each contact the in-app channel and the e-mail channel.         *)

StartReminders ==
  /\ "reminders" \in cron
  /\ Idle
  /\ cron' = cron \ {"reminders"}
  /\ job' = [NoJob EXCEPT !.pc = "pick", !.now = hour, !.batch = Batch]
  /\ owed' = Owed
  /\ UNCHANGED <<hour, db, flush, faults, edits, reached, twice, rows, digested, dropped, excused>>

\* The project of the next task; a task whose project is gone is skipped.
PickTask ==
  /\ job.pc = "pick"
  /\ \E x \in job.batch :
       LET rest == job.batch \ {x} IN
       \/ /\ status[x[1]] = "gone"
          /\ job' = [job EXCEPT !.batch = rest]
       \/ /\ status[x[1]] # "gone"
          /\ x[2].aware
          /\ job' = [job EXCEPT !.batch = rest, !.pc = "contacts",
                                !.event = Event(x[1], x[2], job.now)]
  /\ UNCHANGED <<clock, db, flush, faults, edits, ghosts>>

\* A due date without an offset cannot be subtracted from an aware now: the
\* job ends with a TypeError, which arq does not retry.
PickRaises ==
  /\ job.pc = "pick"
  /\ \E x \in job.batch : status[x[1]] # "gone" /\ ~x[2].aware
  /\ job' = [NoJob EXCEPT !.pc = "raised"]
  /\ UNCHANGED <<clock, db, flush, faults, edits, ghosts>>

FinishReminders ==
  /\ job.pc = "pick"
  /\ job.batch = {}
  /\ job' = NoJob
  /\ UNCHANGED <<clock, db, flush, faults, edits, ghosts>>

\* _partner_principals_for: the contacts with their preferences.
ReadContacts ==
  /\ job.pc = "contacts"
  /\ LET to == {c \in Contact : contact[c] # None}
     IN  job' = [job EXCEPT !.pc = IF to = {} THEN "pick" ELSE "check",
                            !.left = to \X Channel,
                            !.prefs = contact]
  /\ UNCHANGED <<clock, db, flush, faults, edits, ghosts>>

\* Contact by contact, in_app before email.
Turn(c, ch) ==
  /\ <<c, ch>> \in job.left
  /\ IF ch = "email" THEN <<c, "in_app">> \notin job.left
     ELSE \A d \in Contact : <<d, "email">> \in job.left => <<d, "in_app">> \in job.left

\* dispatch has done with a contact and a channel.
Done(c, ch) ==
  LET left == job.left \ {<<c, ch>>}
  IN  job' = [job EXCEPT !.left = left, !.to = None,
                         !.pc = IF left = {} THEN "pick" ELSE "check"]

\* get_frequency
Frequency(c, ch) == job.prefs[c][ch]

\* Mutant: the dedup key is the task, whatever the threshold.
AlreadySentOfTask(c, ch) ==
  \E k \in Key : k[1] = job.event[1] /\ <<c, ch, k>> \in sent

\* _was_already_sent
AlreadySent(c, ch) == <<c, ch, job.event>> \in sent

CheckSent(c, ch) ==
  /\ job.pc = "check"
  /\ Turn(c, ch)
  /\ IF Frequency(c, ch) = "off" \/ AlreadySent(c, ch)
     THEN Done(c, ch)
     ELSE job' = [job EXCEPT !.pc = "deliver", !.to = <<c, ch>>]
  /\ UNCHANGED <<clock, db, flush, faults, edits, ghosts>>

\* _persist_inbox, or an instant e-mail that the server takes.
Deliver(c, ch) ==
  /\ job.pc = "deliver"
  /\ job.to = <<c, ch>>
  /\ Frequency(c, ch) = "instant"
  /\ Arrive({<<c, ch, job.event>>})
  /\ job' = [job EXCEPT !.pc = "record"]
  /\ UNCHANGED <<clock, db, flush, faults, edits, rows, digested, dropped, excused, owed>>

\* send_email catches the exception: the e-mail did not go out, or it did
\* and the answer was lost.  The outcome "skipped" is recorded like any other.
DeliverFails(c) ==
  /\ job.pc = "deliver"
  /\ job.to = <<c, "email">>
  /\ Frequency(c, "email") = "instant"
  /\ Fault
  /\ \/ Arrive({<<c, "email", job.event>>})
     \/ UNCHANGED <<reached, twice>>
  /\ job' = [job EXCEPT !.pc = "record"]
  /\ UNCHANGED <<clock, db, flush, edits, rows, digested, dropped, excused, owed>>

\* insert_one into notification_queue
Insert(c, freq, key) ==
  /\ rows < Rows
  /\ rows' = rows + 1
  /\ queue' = queue \cup {[id |-> rows + 1, to |-> c, freq |-> freq,
                           key |-> key, at |-> hour]}

\* _enqueue_for_digest
Enqueue(c) ==
  /\ job.pc = "deliver"
  /\ job.to = <<c, "email">>
  /\ Frequency(c, "email") \in Digest
  /\ Insert(c, Frequency(c, "email"), job.event)
  /\ job' = [job EXCEPT !.pc = "record"]
  /\ UNCHANGED <<clock, status, due, contact, sent, flush, faults, edits,
                 reached, twice, digested, dropped, excused, owed>>

\* Mutant: an outcome other than "sent" is not recorded.
RecordedIfSent(c, ch) ==
  IF Frequency(c, ch) = "instant" THEN sent \cup {<<c, ch, job.event>>} ELSE sent

\* _record_sent, whatever the outcome.
Recorded(c, ch) == sent \cup {<<c, ch, job.event>>}

Record(c, ch) ==
  /\ job.pc = "record"
  /\ job.to = <<c, ch>>
  /\ sent' = Recorded(c, ch)
  /\ Done(c, ch)
  /\ UNCHANGED <<clock, status, due, contact, queue, flush, faults, edits, ghosts>>

\* The insert fails; the error is logged and swallowed.
RecordFails(c, ch) ==
  /\ job.pc = "record"
  /\ job.to = <<c, ch>>
  /\ Fault
  /\ Done(c, ch)
  /\ UNCHANGED <<clock, db, flush, edits, ghosts>>

\* The job dies: at its timeout, of a database error, or with the worker,
\* and then it may be run again.
RemindersBreak ==
  /\ ~Idle
  /\ Fault
  /\ job' = NoJob
  /\ owed' = {}
  /\ \/ cron' = cron \cup {"reminders"}
     \/ cron' = cron
  /\ UNCHANGED <<hour, db, flush, edits, reached, twice, rows, digested, dropped, excused>>

-----------------------------------------------------------------------------
(* The digest job: the queued rows, then group by group.                   *)

StartDigests ==
  /\ "digests" \in cron
  /\ flush.pc = "idle"
  /\ cron' = cron \ {"digests"}
  /\ flush' = [NoFlush EXCEPT !.pc = "group", !.now = hour, !.rows = queue,
                              !.groups = {<<r.to, r.freq>> : r \in queue}]
  /\ UNCHANGED <<hour, db, job, faults, edits, ghosts>>

GroupRows(g) == {r \in flush.rows : r.to = g[1] /\ r.freq = g[2]}
Ids(rs) == {r.id : r \in rs}

\* Mutant: the weekday is asked of the daily digest.
FlushHourMixedUp(p, freq) ==
  flush.now % Day = p.at /\ (freq = "daily" => (flush.now \div Day) % Week = p.day)

\* now matches daily_hour, and weekly_day for a weekly digest.
FlushHour(p, freq) ==
  flush.now % Day = p.at /\ (freq = "weekly" => (flush.now \div Day) % Week = p.day)

\* _should_flush: TRUE for a contact that is gone.
ShouldFlush(g) == contact[g[1]] = None \/ FlushHour(contact[g[1]], g[2])

CheckHour(g) ==
  /\ flush.pc = "group"
  /\ g \in flush.groups
  /\ flush' = IF ShouldFlush(g)
              THEN [flush EXCEPT !.pc = "send", !.group = g]
              ELSE [flush EXCEPT !.groups = @ \ {g}]
  /\ UNCHANGED <<clock, db, job, faults, edits, ghosts>>

\* Mutant: a group that was sent stays in the list of the run.
NextGroupKept == [flush EXCEPT !.pc = "group", !.group = None]

NextGroup == [flush EXCEPT !.pc = "group", !.groups = @ \ {flush.group}, !.group = None]

\* The reminders among some rows, and those that are there twice.
Notice(r) == <<r.to, "email", r.key>>
Notices(rs) == {Notice(r) : r \in {s \in rs : s.key # None}}
Doubled(rs) == {x \in Notices(rs) : \E r, s \in rs : r # s /\ Notice(r) = x /\ Notice(s) = x}

DigestArrives(rs) ==
  /\ reached' = reached \cup Notices(rs)
  /\ twice' = twice \cup (reached \cap Notices(rs)) \cup Doubled(rs)

\* The contact is read again and the digest sent.
SendDigest ==
  /\ flush.pc = "send"
  /\ contact[flush.group[1]] # None
  /\ DigestArrives(GroupRows(flush.group))
  /\ digested' = digested \cup Ids(GroupRows(flush.group))
  /\ flush' = [flush EXCEPT !.pc = "clear"]
  /\ UNCHANGED <<clock, db, job, faults, edits, rows, dropped, excused, owed>>

\* The rows of a contact that is gone are given up.
GiveUp ==
  /\ flush.pc = "send"
  /\ contact[flush.group[1]] = None
  /\ dropped' = dropped \cup Ids(GroupRows(flush.group))
  /\ flush' = [flush EXCEPT !.pc = "clear"]
  /\ UNCHANGED <<clock, db, job, faults, edits, reached, twice, rows, digested, excused, owed>>

\* The rows stay, with last_attempt_at stamped; the e-mail may be out.
DigestFails ==
  /\ flush.pc = "send"
  /\ contact[flush.group[1]] # None
  /\ Fault
  /\ \/ DigestArrives(GroupRows(flush.group))
     \/ UNCHANGED <<reached, twice>>
  /\ flush' = NextGroup
  /\ UNCHANGED <<clock, db, job, edits, rows, digested, dropped, excused, owed>>

\* Mutant: delete_many by the group instead of the ids that were sent.
ClearedGroup(g) == {r \in queue : r.to = g[1] /\ r.freq = g[2]}

\* delete_many by id
Cleared(g) == {r \in queue : r.id \in Ids(GroupRows(g))}

Clear ==
  /\ flush.pc = "clear"
  /\ queue' = queue \ Cleared(flush.group)
  /\ flush' = NextGroup
  /\ UNCHANGED <<clock, status, due, contact, sent, job, faults, edits, ghosts>>

FinishDigests ==
  /\ flush.pc = "group"
  /\ flush.groups = {}
  /\ flush' = NoFlush
  /\ UNCHANGED <<clock, db, job, faults, edits, ghosts>>

DigestsBreak ==
  /\ flush.pc # "idle"
  /\ Fault
  /\ flush' = NoFlush
  /\ \/ cron' = cron \cup {"digests"}
     \/ cron' = cron
  /\ UNCHANGED <<hour, db, job, edits, ghosts>>

-----------------------------------------------------------------------------
(* Everything else.                                                        *)

\* The next hour.  A job is killed after five minutes, so none is left.
Tick ==
  /\ hour < LastHour
  /\ cron = {} /\ Idle /\ flush.pc = "idle"
  /\ hour' = hour + 1
  /\ cron' = {"reminders", "digests"}
  /\ UNCHANGED <<db, job, flush, faults, edits, ghosts>>

\* No worker is up when a job should start.
Missed(name) ==
  /\ name \in cron
  /\ Fault
  /\ cron' = cron \ {name}
  /\ UNCHANGED <<hour, db, job, flush, edits, ghosts>>

\* A request dispatches a notice without a dedup key, of a comment say;
\* unless it is queued for a digest nothing kept here changes.
Comment(c) ==
  /\ contact[c] # None
  /\ contact[c].email \in Digest
  /\ Insert(c, contact[c].email, None)
  /\ UNCHANGED <<clock, status, due, contact, sent, job, flush, faults, edits,
                 reached, twice, digested, dropped, excused, owed>>

RowsOf(c) == Ids({r \in queue : r.to = c})

\* save_prefs, or the deletion of the contact.
ChangeContact(c) ==
  /\ Edit
  /\ contact[c] # None
  /\ \E p \in (Prefs \cup {None}) \ {contact[c]} : contact' = [contact EXCEPT ![c] = p]
  /\ excused' = excused \cup RowsOf(c)
  /\ owed' = {x \in owed : x[1] # c}
  /\ UNCHANGED <<clock, status, due, sent, queue, job, flush, faults,
                 reached, twice, rows, digested, dropped>>

\* A task is completed, reopened, rescheduled.
EditTask(t) ==
  /\ Edit
  /\ status[t] # "gone"
  /\ \/ /\ status' = [status EXCEPT ![t] = IF @ = "open" THEN "done" ELSE "open"]
        /\ UNCHANGED due
     \/ /\ \E d \in Dates \ {due[t]} : due' = [due EXCEPT ![t] = d]
        /\ UNCHANGED status
  /\ UNCHANGED <<clock, contact, sent, queue, job, flush, faults, ghosts>>

DeleteProject(t) ==
  /\ Edit
  /\ status[t] # "gone"
  /\ status' = [status EXCEPT ![t] = "gone"]
  /\ owed' = {x \in owed : x[3][1] # t}
  /\ UNCHANGED <<clock, due, contact, sent, queue, job, flush, faults,
                 reached, twice, rows, digested, dropped, excused>>

Reminders ==
  \/ StartReminders \/ PickTask \/ PickRaises \/ FinishReminders \/ ReadContacts
  \/ \E c \in Contact, ch \in Channel :
       CheckSent(c, ch) \/ Deliver(c, ch) \/ Record(c, ch) \/ RecordFails(c, ch)
  \/ \E c \in Contact : DeliverFails(c) \/ Enqueue(c)
  \/ RemindersBreak

Digests ==
  \/ StartDigests \/ \E g \in Contact \X Digest : CheckHour(g)
  \/ SendDigest \/ GiveUp \/ DigestFails \/ Clear \/ FinishDigests \/ DigestsBreak

Environment ==
  \/ Tick \/ \E name \in {"reminders", "digests"} : Missed(name)
  \/ \E c \in Contact : Comment(c) \/ ChangeContact(c)
  \/ \E t \in Task : EditTask(t) \/ DeleteProject(t)

Next == Reminders \/ Digests \/ Environment

Spec == Init /\ [][Next]_vars

-----------------------------------------------------------------------------
Job == [pc : {"idle", "raised", "pick", "contacts", "check", "deliver", "record"},
        now : Nat, batch : SUBSET (Task \X Dates), event : Key \cup {None},
        left : SUBSET (Contact \X Channel),
        prefs : [Contact -> Prefs \cup {None}],
        to : (Contact \X Channel) \cup {None}]

Flush == [pc : {"idle", "group", "send", "clear"}, now : Nat, rows : SUBSET Row,
          groups : SUBSET (Contact \X Digest), group : (Contact \X Digest) \cup {None}]

\* Every variable holds values of its type.
TypeOK ==
  /\ hour \in Nat /\ cron \subseteq {"reminders", "digests"}
  /\ status \in [Task -> {"open", "done", "gone"}]
  /\ due \in [Task -> Dates]
  /\ contact \in [Contact -> Prefs \cup {None}]
  /\ sent \subseteq Reminder
  /\ queue \subseteq Row
  /\ job \in Job /\ flush \in Flush
  /\ faults \in Nat /\ edits \in Nat
  /\ reached \subseteq Reminder /\ twice \subseteq Reminder
  /\ rows \in Nat
  /\ digested \subseteq Nat /\ dropped \subseteq Nat /\ excused \subseteq Nat
  /\ owed \subseteq Reminder

\* Nothing queued for a digest is lost: a row that has left the queue was in
\* a digest that went out, or its contact is gone.  What is queued while the
\* digest is being sent waits for the next one (delete_many by id).
QueuedIsDelivered ==
  \A n \in 1..rows : n \in Ids(queue) \cup digested \cup dropped

\* "The dispatcher honours per-threshold dedup": without a fault no reminder
\* reaches a contact twice on one channel, instantly or in a digest, however
\* often the hourly job finds the task and its date is changed.
RemindedOnce == faults = 0 => twice = {}

\* Once a run of the reminder job has come to its end, everything it had to
\* put in the inboxes is there, other than for contacts that changed and
\* projects that were deleted meanwhile: no failed channel, dedup record or
\* threshold of an earlier run keeps a due task from being told.
FinishedRunReminded == job.pc = "idle" => owed \subseteq reached

\* "For each open task due within 48h or already past due, it resolves the
\* owning principal(s) and dispatches a notification": the same, for a run
\* that ended by itself, but not at the end of its list, too.
DueTasksReminded == Idle => owed \subseteq reached

\* A digest comes when its reader asked for it: without a fault, a row of a
\* contact that did not change since waits no longer than a day, or a week.
DigestsInTime ==
  faults = 0 =>
    \A r \in queue : r.id \notin excused =>
      hour <= r.at + (IF r.freq = "daily" THEN Day ELSE Day * Week)

\* The rows as DigestQueue sees them.
Queue == INSTANCE DigestQueue
           WITH put <- rows, waiting <- Ids(queue), out <- digested, givenUp <- dropped

\* The two jobs, the dispatcher and the deletion by id together are a queue
\* that keeps a row until a digest with it is out, and never sends one again
\* that was removed, through faults, interrupted runs and rows that arrive
\* while a digest is being sent.
IsDigestQueue == Queue!Spec
=============================================================================
