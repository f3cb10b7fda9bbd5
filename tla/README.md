# Verification of the Hubspoke scheduler

Hubspoke schedules the classes of an outreach team: employees drive from a hub
to the locations of partner organisations. A React client talks to a FastAPI
backend; the backend keeps everything in MongoDB (a standalone server, so no
multi-document transaction), uses Redis for locks, job queues and cache
markers, and hands slow work to an `arq` worker. Several API processes and one
worker run at the same time. A request gives way at every `await`, so between a
read and the write that depends on it any other request, job or replica may
act; a single MongoDB operation on one document is atomic and nothing else is.
The client is no different: between the request of a handler and the rest of it,
its user clicks on, closes the dialog and opens another one, other requests are
answered, and lists are fetched again.
That is what these models are about.

Every module was translated from the code under `src/backend` and
`src/frontend`; `PROJECT.json` names, definition by definition, the lines it
stands for.

## Inventory

| Component (source) | State | Operations | Talks to |
|---|---|---|---|
| Schedules (`routers/schedule_crud.py`, `schedule_bulk.py`) | `schedules`, `schedule_slot_claims` | relocate, update, status, series, bulk, delete, restore | projects (phase), calendars, workload cache |
| Schedule creation (`schedule_create.py`, `schedule_import.py`, `worker.py`) | `schedules`, idempotency records | create, bulk create, series job, CSV import | conflicts, calendars |
| Algorithms (`services/schedule_utils.py`) | none | overlap with drive time, recurrence dates, month arithmetic | called by both above |
| Task assignment (`routers/project_tasks.py`) | `tasks.assigned_to`, `assigned_rev` | create, update by compare-and-swap, delete | notifications |
| Project phase (`projects.py`, `project_tasks.py`, `portal/tasks.py`, `services/phase_advance.py`) | `projects.phase`, `tasks.completed` | toggle, put, auto-advance, advance, status sync, delete | schedules, tasks |
| Calendar sync (`services/calendar_sync.py`, `worker_jobs.py`) | `schedules.calendar_events`, the providers' calendars | create and remove events in background tasks and worker jobs | Google, Outlook |
| Reminders and digests (`services/task_reminders.py`, `notifications.py`, `digest.py`, `notification_prefs.py`) | `notifications`, `notifications_sent`, `notification_queue`, preferences | hourly reminder run, dispatch, hourly digest run | tasks, contacts, e-mail |
| Migration runner (`migrations/runner.py`, `app_factory.py`) | `schema_migrations`, a lock in Redis | lock, wait, run, record, release | every replica that boots |
| Workload cache, denormalised names (`services/workload_cache.py`, `worker.py`) | Redis entries, names copied into schedules | get or compute, invalidate, sync job | schedules, employees |
| Sessions (`core/auth.py`, `routers/auth.py`) | password versions in process, Redis and MongoDB, refresh tokens | login, refresh, change and reset of passwords | every request |
| Accounts and invitations (`routers/users.py`, `auth.py`) | `users`, `invitations` | roles, deletion, registration | partner contacts |
| Outcomes and promotion checklist (`event_outcomes.py`, `promotion_checklist.py`) | `event_outcomes`, `promotion_checklists` | bulk insert, status with a warning, funnel; get or create, toggle, add | projects |
| Partner portal, partner organisations, documents, messages, members | one document per request | CRUD | projects |
| Master data (employees, locations, classes, drive times) | single documents | CRUD | the sync job |
| Webhooks | outbox | nothing: `fire_webhook_event` has no caller | - |
| E-mail, calendar clients, exports, logging, rate limits, uploads | none of their own | I/O | providers |
| Client: task dialogs (`TaskDetailModal`, `PortalTaskDetailModal`) | a copy of one task, its drafts | load, save on blur, status and flags at once, comments, files, delete | tasks |
| Client: kanban and calendar (`KanbanBoard`, `CalendarView`) | lists cached by SWR, conflict dialog, selection | drag, status, forced move, bulk actions | schedules |
| Client: boards of projects and tasks (`ProjectBoard`, `ProjectDetail`, `PortalTaskBoard`) | lists, the gate's dialog, optimistic copies | advance, drag, add, delete | projects, tasks |
| Client: managers (`EmployeeManager`, `ClassManager`, `LocationManager`, `UserManager`, `WebhooksManager`) | lists, the form that is open, questions, secrets | add, edit, delete, look up, invite, rotate | master data, accounts |
| Client: reports (`WeeklyReport`, profiles, analytics) | a filter and its numbers | change the filter | reports |
| Client: schedule form (`ScheduleForm` and its sections) | the fields, the conflict preview, the override, recurrence | check, save, delete, series | creation, conflicts |
| Client: session (`lib/api.ts`, `AuthContext`, `LoginPage`) | cookies of a browser, who is signed in per tab | sign in and out, refresh, password | sessions |
| Client: CSV import, inboxes, settings | a file's preview; rows and alerts; preferences | preview, import; poll, read, dismiss; save, connect | import, notifications |
| Client: outcomes, checklist, the partner's messages (`OutcomeTracker`, `PromotionChecklist`, `MessageThread`) | rows loaded into the component, a warning; the thread of one project and its draft | load, change, force, add; toggle; write, send | outcomes, checklist, portal |
| Client: layout of a day (`calendar/layout.ts`, `lib/utils.ts`) | the list as fetched or as dragged | columns, drives, dragging | kanban and calendar |
| Client: views that only read, sign-in pages, building blocks | none | presentation | - |

What makes each of them hard, and what makes it correct:

- **Schedules.** Requests race between their awaits; relocate claims one slot
  per employee before its swap and takes the claims back when one fails; it may
  die at each await. Correct: nobody is booked twice by relocate, the swap moves
  what was checked, versions do not come back, no claim stays for ever.
- **Task assignment.** A compare-and-swap that may miss and start again, and a
  notice made from a later read. Correct: revisions count transitions, notices
  are true, the last assignee is told, a 409 means contention.
- **Project phase.** Five writers, one of which pins what it read. Correct: a
  finished phase is left, once; the gate of `advance_phase` holds when the phase
  is written.
- **Calendar sync.** Requests, background tasks and worker jobs act on two
  external calendars in an order of their own, are lost, fail half-way and run
  twice. Correct: no event is forgotten, the calendars end up as the schedule is.
- **Reminders and digests.** Two hourly jobs, a queue between them, and
  preferences, contacts and tasks that change meanwhile. Correct: nothing due is
  left out, nothing is lost from the queue, nothing comes twice without a fault.
- **Migrations.** Replicas boot together, die, and lose Redis. Correct: order,
  exclusion, and no instance serves data that is not migrated.
- **Creation.** A series is checked once and inserted later; a request is
  repeated. Correct: a repeated request creates once, a series books nobody twice.
- **Caches and sessions.** A value computed before a write is stored after it; a
  password version is cached on three levels. Correct: what is served is not
  older than the caches promise, and a session that ended stays ended.
- **Accounts.** The admins are counted, then one is removed. Correct: one is left.
- **Pages of the client.** Handlers captured what was there when they began;
  answers come late, in another order, or after the dialog was replaced.
  Correct: what is shown belongs to what it is shown for; when all is answered,
  the page agrees with the server or says that it may not; nothing stays
  disabled; nothing is forced past an objection that was not shown.
- **Session of the client.** Tabs share cookies, a refresh token is good once,
  and a second use of it is taken for a theft. Correct: the tabs raise no false
  alarm, and who signed out is out.
- **Form and layout.** Simple and custom recurrence share fields; columns are
  packed greedily. Correct: a rule that is sent is whole; the packing is minimal.

## Modules

| Module | Models | TLC | Proofs |
|---|---|---|---|
| `Schedules` | schedule documents, slot claims, their writers | `MCSchedules`, 3 runs | `Schedules_proofs` |
| `TaskAssignment` | the assignee of a task and its notices | `MCTaskAssignment`, 1 run | `TaskAssignment_proofs` |
| `ProjectPhase` | the phase of a project and its tasks' completion | `MCProjectPhase`, 1 run | `ProjectPhase_proofs` |
| `MigrationRunner` | booting replicas | `MCMigrationRunner`, 2 runs | `MigrationRunner_proofs` |
| `CalendarSync` | the events of one schedule in two calendars | `MCCalendarSync`, 2 runs | `CalendarSync_proofs` |
| `Reminders` | the hourly jobs, the queue, the records | `MCReminders`, 2 runs | `Reminders_proofs` |
| `DigestQueue` | what the queue of digests promises (abstract) | property of `Reminders_hourly` | `Reminders_proofs` |
| `Requests`, `Lists`, `Loads` | requests of a page, a list that SWR caches, a list that a component loads itself | with `Client` | - |
| `TaskModal`, `ScheduleBoard`, `ProjectBoards`, `Records`, `Users`, `Webhooks`, `Reports`, `ScheduleForm`, `ScheduleWizard`, `Session`, `Import`, `Inbox`, `Settings`, `DayLayout`, `Outcomes`, `Checklist`, `Conversations` | the pages of the client | with `Client` | with `Client` |
| `Client` | the pages together | `MCClient`, 1 run | `Client_proofs`, `ClientServer_proofs` |
| `ClientInvariants` | nothing: the invariants that those proofs are about | - | with `Client` |

In the modules of the backend a request, replica or job is a process with a
program counter `pc`, and one action is what runs from one await to the next; local variables
that survive an await (`snap`, `seen`, `todo`, ...) are variables indexed by
process. A request is used once: a client that repeats itself is another
request. `None` stands for a missing document.

### Schedules

A slot is a date with a start and an end; `Overlap` and `Padded` are the pairs
of slots that meet without and with drive time around them. `doc[s]` keeps slot,
staff, version and whether the schedule is live; every other field is abstracted
to the version its change bumps. `claims` is `db.schedule_slot_claims`.

- `relocate_schedule`: `BeginRelocate`, `RelocateRead` (404, 409 on the version),
  `RelocateConflicts` (the drive-time check, unless forced), `RelocateSlotCheck`
  (the slot query for every employee), `RelocateClaim` (one insert per
  employee, a duplicate key sends it to `RelocateUndo`), `RelocateSwap` (the
  compare-and-swap on version, date and start). Without transactions this is
  `_run_relocate_with_fallback`'s plain path; a swap that succeeds leaves its
  claims to the TTL index, against the comment at `schedule_crud.py:621`.
- `update_schedule`: `UpdateLoad` is the client that loads the version it later
  pins, `UpdateRead` the server's read, `UpdateWrite` the write, pinned to the
  version only when the body carries `expected_version`.
- `BumpVersion` (status), `BulkWrite` (bulk and series), `ProjectMove` (the date
  a project moves without a new version), `SoftDelete`, `Restore`: one MongoDB
  operation each.
- `ExpireClaim` is the TTL index (`startup/indexes.py:138`): its ten minutes are
  far longer than two requests, so it waits for the owner and for the relocates
  that were in flight beside it (`overlapped`).
  `Crash` ends a request at any await.

`RelocationExclusive` is the promise of the endpoint: two live schedules that
relocate placed on one slot share no employee.

### TaskAssignment

One task. `Create`, `BeginUpdate`, `Write`/`WriteMisses`, `Resnapshot` follow
`_cas_apply_task_update` with its `Attempts`; `Reread`, `CheckSent`, `Deliver`,
`Record` follow `notify_task_assigned` into the dispatcher. `history` is a ghost
variable: all values the assignee took. `Delete` is another request's delete,
`Lose` a process that dies or an insert in the inbox that fails.

### ProjectPhase

One project and its tasks. `ReadTask`, `WriteTask`, `Reread` are the four task
writers (`toggle`, `put` and their portal versions); `AutoRead`, `AutoTotal`,
`AutoRemaining`, `AutoCas` are `maybe_auto_advance_phase_for_task` query by
query; `AdvanceRead`, `AdvanceGate`, `AdvanceWrite` are `advance_phase`;
`StatusRead`, `StatusWrite` are the phase sync of `update_schedule_status`;
`SetPhase` is drag and drop, `DeleteProject` and `TrashTasks` the two halves of
`delete_project`. `Track` keeps the ghost that says whether a toggle finished
the present phase.

### MigrationRunner

`Acquire`/`AcquireFails` (SET NX, or SET that raises although Redis may have
carried it out), `Poll`, `PollFails`, `WaitTimesOut` (the loser's wait),
`ReadApplied`, `NextMigration`, `RunMigration`, `RecordApplied`,
`MigrationFails`, `RecordFailed`, `DatabaseFails` (`_run_unlocked`),
`ReleaseGet`, `ReleaseDelete`, `ReleaseFails` (the two commands of the release),
`Leave` with `AfterRelease` (what `run_startup_sequence` makes of the result).
`Expire` and `Crash` are the environment. A migration function is one step that
ends or raises; what it does to documents is left out.

### CalendarSync

One schedule. A slot stands for everything an event shows. `Create`, `Update`
(with `UpdateRefused` for a miss), `Relocate`, `SoftDelete`, `BulkDelete`,
`BulkEdit`, `StatusChange`, `Restore` are handlers; `ReadBack`, `Erase`,
`EraseFails`, `Erased`, `Renew` are `sync_calendar_events_if_needed` inside
them. `GoogleCreate`, `GoogleRecord`, `OutlookQueue`, `TaskFails`, `ServerDies`
are the background tasks of the API process. `JobStarts`, `JobSkips`,
`JobCreates`, `JobFails`, `JobRecords`, `JobInterrupted`, `DeleteRuns`,
`DeleteFails` are the worker's jobs with their tries. `calendar` is what the
providers hold. Google's answers and the queue are external and modelled from
their use. The ghosts `calm`, `leaked` and `aligned` say whether handlers have
overlapped, whether an event was lost to a fault, and whether the last change
went through the calendar sync and has made every event it meant to.

### Reminders

Time is counted in hourly runs. `StartReminders`, `PickTask`, `PickRaises`,
`FinishReminders` are `check_and_send_reminders`; `ReadContacts`, `CheckSent`,
`Deliver`, `DeliverFails`, `Record`, `RecordFails` are the dispatcher, channel by
channel; `StartDigests`, `CheckHour`, `NextGroup`, `SendDigest`, `DigestFails`,
`GiveUp`, `Clear`, `FinishDigests` are `process_digests`; `RemindersBreak` and
`DigestsBreak` are jobs that die. `Tick`, `Missed`, `Comment`, `ChangeContact`,
`EditTask`, `DeleteProject` are what happens beside them. An event is a task and
its threshold (48 h before, due, and a day of being overdue up to `Cap`), which
is the dedup key. Assumed: every task is owned by the partner and has a project
of its own, contacts are primary contacts with an e-mail address, one run of a
job at a time (its timeout is 300 s, its period an hour). `Comment` stands for
every notice without a dedup key that is queued beside the reminders.
MongoDB drops rows of the queue after thirty days and records of what was sent
after ninety (`migrations/manage_secondary_indexes.py:193`): the module is about
the time before that, which `WithinRetention` says of `LastHour`.

`DigestQueue` is what the queue promises to whoever puts a notice into it,
without the jobs, the dispatcher, the hours and the failures: a row is kept until
it was in a digest or its reader is gone, may be sent more than once until it is
removed, and is in no digest after that. `Reminders` implements it with `put`
read as `rows`, `waiting` as the ids in `queue`, `out` as `digested` and
`givenUp` as `dropped`: enqueueing is a `Put`, an e-mail that goes out (also one
whose sender fails after it) a `Deliver`, a contact found to be gone a `GiveUp`,
the delete by id a `Forget`, and every other step a stutter.

### The client

`Requests` has what the pages share. A handler that sends a request is a call
with what it captured (`inst`, `item`, `value`, `prev`); it is carried out or
refused at some time, in any order, and the rest of the handler runs when its
answer comes, on whatever is rendered by then. An instance number tells the
component that asked from one that was mounted later in its place, since React
drops what a handler sets on a component that is gone. `Lists` adds a list under SWR: a handler
ends by fetching it again, and a fetch that a later one or a local change has
overtaken is dropped; `Loads` a list that a component keeps itself, where every
answer is shown, in the order in which they come. `server` is the part of the backend that the page is
about; `Write`/`Applied` say what a request does there, `Refuse` why it may not.
`clean` becomes false when something happened that the code does not handle; the
properties that need it say what, and the last list under Findings what goes
wrong then.

| Module | Page | What it follows |
|---|---|---|
| `TaskModal` | the task dialog of the staff and of the partner | `OpenTask`, `Loaded`, `Retry`; `BlurText`, `PickOwner` (`saveField`), `PickStatus`, `ToggleFlag` with `StatusFails` and `FlagAnswered`, which roll back unless the user chose again; `Send` with its two awaits, `Upload`, `Detach`, `Delete`; `Close` and the answers that come after it |
| `ScheduleBoard` | kanban and calendar | `ChangeStatus`, `Relocate`, `DropOnSlot`, each changing the cached lists before its request; `RelocateFails` opens the conflict dialog, `TypeReason`, `ForceRelocate`; the selection, `AskBulk`, `ConfirmBulk`; `Overtaken` is SWR's rule of dropping answers |
| `ProjectBoards` | projects by phase, tasks by phase, the partner's tasks | `DropProject` with the gate's dialog (`Warned`, `ForceAdvance`), `DropTask`, `AddTask`, `DeleteTask`, `DragTask` with its optimistic copy |
| `Records` | employees, classes, locations | `OpenEdit`, `Submit`, `OpenDelete`, `Delete`, and `SelectPlace` with the lookup of a drive time |
| `Users` | accounts, invitations, lockouts, sessions | `Act` for one click of a row, `Invite`, `OpenSessions`, `RevokeSessions`; lists that any answer overwrites |
| `Webhooks` | subscriptions and their secrets | `Create`, `Rotate`, `Dismiss`, `Delete` |
| `Reports` | profiles, weekly report, analytics | `ChangeFilter` under the three ways of fetching |
| `ScheduleForm` | creating and editing a schedule | `Change` and the debounced `FetchPreview`, `Submit`, `SaveFails` with the override, `Delete`, `DeleteSeries`, `AnswerDiscard` |
| `ScheduleWizard` | the three steps of a new schedule | `PickRepeat`, `PickEnd`, `OpenCustom`, `DoneCustom`, `CreateClass`, `Payload` |
| `Session` | the tabs of the browsers of one account | `Denied`, `Refreshed`, `NotRefreshed` (the interceptor that shares one refresh per tab), `LogIn`, `LogOut`, `Reload`; `ServeRefresh` with rotation, grace and alarm is the backend's `auth.py` |
| `Import` | the CSV dialog | `Preview`, `Commit`, `ChangeFile` |
| `Inbox` | the bell of the staff and of the partner | `Poll` with abort and two requests, `Read`, `Dismiss`, `DismissAll`, `HideAlert` |
| `Settings` | calendars, preferences, password | `Connect` (the page is left and loaded anew), `Disconnect`, `ChangePrefs`, `ChangePassword` |
| `Outcomes` | the attendees of a project | `Change`, the warning of a step back (`Warned`, `Confirm`) and the second load after a forced change (`Changed`), `QuickAdd`, `BulkAdd`; `ReadStatus` and `WriteStatus` are the two awaits of the backend's `update_outcome` |
| `Checklist` | the promotion checklist | `Toggle`, `Add`; `FindNone` and `Create` make the checklist on the first request, `Find` and `Turn` read a box and write its opposite |
| `Conversations` | the partner's messages | `Choose` another project, `Write`, `Send` and `Sent` with its refresh, `Retry`; `Renders` is the skeleton or error that unmounts the thread |
| `DayLayout` | one day | `Sorted`, `Assign`, `Columns`, `TotalColumns`; `Mine`, `Chained`, `Drives`, `Blocks`; `DragStart`, `DragEnd` (drawn at once, also past the end of the day), `Serve` and `Refuse`, `Relocated` and `ListArrives` |

`Client` puts them together: one of the pages is rendered in a behaviour, and a
property of `Client` says of every page that has the hazard what must hold there.
The pages have no state in common but the browser's cookies, which are
`Session`'s.

`DayLayout` sorts with `Ordered`, the one sequence that ascends in a total order: what
the code compares (`Packs`, `Follows`), then the place in the list, because JavaScript's
sort is stable. The condition `away` of `DrivesLinkTheDay` is there because the backend
takes a drive time of 0 (`backend/models/schemas.py:62`), and a drive that takes no time is not drawn
(`Blocks`).
`DragEnd` adds the duration to wherever the card was dropped: `handleDragEnd` has no
upper bound, so what is `Drawn` may end, and for a tall card begin, after midnight. The
backend's `strptime` refuses such a time, so what it keeps is a `Booking` (`DayEnd` is
the last time of a day). The move is drawn before it is answered, and the list is
fetched again after either answer (`handleRelocate`); `DaySettles` says that the refused
move is gone then. The pointer reaches no further than the bottom of the grid and the
height of the card below it, so a start is less than two days (`Next`). The run makes one
move; what a second one overtakes (`Moves`) is covered by the proofs. Cached windows,
failed fetches and the conflict dialog are `ScheduleBoard`'s.

## Runs

| Run | Instance | Shows |
|---|---|---|
| `Schedules_pinned` | 2 schedules, 2 employees, 2 slots, 3 requests, crashes; 1.4 million states | If every PUT is pinned: no double booking by relocate, no claim after a 409, the swap moves whom it claimed for, versions grow, a pinned PUT overwrites what its client saw |
| `Schedules_release` | 2 requests, crashes, project moves, fairness; 68 thousand | Every claim is given back in the end |
| `Schedules_reused_version` (violation) | 4 requests, unpinned PUTs | A reused version number lets two relocates book one employee |
| `TaskAssignment_race` | 2 people, 4 requests, 2 attempts, faults; 2.3 million | Revisions count transitions, notices are true, the last assignee knows, 409 means contention |
| `ProjectPhase_writers` | 2 tasks, 3 phases, 2 requests, drag and drop, faults; 3.0 million | Auto-advance moves one step or none; a phase a toggle finished is left |
| `MigrationRunner_boot` | 3 instances, 3 migrations, the second optional, faults; 8.1 million | Exclusion without faults; order and migrated data with them; nobody deletes another's lock |
| `MigrationRunner_disk` (violation) | 2 instances | A full disk in the optional migration skips the ones after it |
| `CalendarSync_events` | 2 employees (one in both providers), 2 slots, 3 requests, 2 tries; 1.3 million | No event is forgotten; Google follows every change; a delete clears Outlook |
| `CalendarSync_moved` (violation) | 1 Outlook user, 2 requests | After a move the Outlook event is gone and no new one comes |
| `Reminders_hourly` | 2 tasks, 1 contact, 4 hours, 2 rows, 1 fault, 1 edit; 6.4 million | No row lost, no reminder twice without a fault, finished runs are complete, digests are in time; the queue implements `DigestQueue` |
| `Reminders_naive` (violation) | no fault, no edit | A due date without an offset ends the run for all tasks behind it |
| `Client_pages` | 25 kinds of pages, 2 items, 2 values, 3 statuses, 1 to 4 calls, 1 fault; 2.6 million | On every page: what is shown belongs to what it is shown for, pages settle, nothing stays disabled, nothing is forced unasked, rules are whole, no false alarm, signed out is out, the day is laid out |

**Why these bounds.** A lost update or a double booking needs a victim, a rival
and one writer that changes what the victim read: three requests on two
schedules; the fourth of `Schedules_reused_version` is needed because the version
has to be used twice. Two employees give staff lists that share one member, so a
relocate can hold one claim and lose the next. Four assignments against two
attempts let a request miss as often as it may and still leave one to tell.
Three phases are the fewest in which moving on one step differs from moving to
the end. Three migrations have one before and one after the optional one, three
instances an owner, a waiter and a latecomer. Two tries are the fewest that run
a job twice. In `Reminders_hourly` a day has two hours and a week two days, so
that hours, days and thresholds all pass within the run; `Cap = 0` makes every
day overdue the last one. A weekly row that waits its full week would need more
hours than `LastHour = 3`; instances with two contacts and with `LastHour = 5`,
`Rows = 3` were checked as well and hold, but take longer than is practical
here. What does not depend on the bounds is proved below for all of them.

`Client_pages` explores every page by itself, so its bounds are per page
(`Bounds` in `MCClient`). A hazard of a page needs a handler that waits, a
second one that overtakes it, and what the user does meanwhile, which is not
counted: two calls. Three are needed where a change, its refresh and a reload
meet (task dialogs), where a secret is made, rotated and read, where a file is
replaced between preview and import, where an item is added to a checklist that
is made and turned over at the same time, and where a gate is asked, forced and
another project moved; four where a filter goes away and comes back. Two items
tell a late answer's item from the one on the screen, two values what was typed
before from what was typed after, three statuses a rollback from both values
that a change was between. One fault is enough to fail either of two awaits of a
handler. For `DayLayout` all sets of at most three classes of `MCClient` are
laid out, on a day of four hours (`DayEnd`), and one of them is dragged to anywhere in twice that
time: three are the fewest in which an unsorted
packing takes a column too many.

**Deadlock** is not checked anywhere: requests are used once and clocks are
bounded, so every behaviour of these models stops in the end. That the last state
is a good one is what the properties over ended requests say
(`LastAssigneeKnows`, `FinishedPhaseAdvances`, `GoogleInLine`, ...), and
`ClaimsReleased`.

**Symmetry** is used only for sets whose members the specification and the
instance treat alike (requests, instances; tasks or slots where no constant names
one of them; the client's items, values and statuses), and never in the run with a liveness property.

**State constraint.** `CalendarSync_events` does not go beyond the first overlap
of two handlers or the first lost event (`Telling`): from there on all its
properties but the type invariant hold vacuously, because `calm` never comes back
and `leaked` never goes. The proofs need no such constraint.

**Fairness.** `FairSpec` of `Schedules` is the only fair specification: weak
fairness of every request's next step (the event loop resumes a coroutine whose
await is over; it may still die, which is its own action and not fair), and of
the TTL monitor of MongoDB. No fairness is assumed of clients:
their properties are about states in which nothing is under way, or in which
something waits.

## Findings

Each is a run that TLC must refute.

1. `Schedules_reused_version` (`schedule_crud.py:288`): an update without
   `expected_version` writes the version it once read plus one. A number is used
   twice, and a relocate's swap passes on a schedule whose staff was replaced.
2. `MigrationRunner_disk` (`app_factory.py:22`): the optional migration's full
   disk ends the pass; the app serves without the migrations behind it.
3. `CalendarSync_moved` (`worker_jobs.py:83`): the id of the removed Outlook
   event is still recorded, so the job that should create the new one skips.
4. `Reminders_naive` (`task_reminders.py:38`): a due date without an offset
   raises, in this run and in every later one.

Other behaviours the models of the backend show, for which no run is set:

- `advance_phase` checks, then writes without pinning (`projects.py:835`): a task
  created or reopened in between is left behind, though `projects.py:824` says
  that a project "can only advance when every task" is completed.
- A transition overtaken by the next is never notified
  (`project_tasks.py:315` says "exactly once per logical transition"), and two
  workers that pass the dedup check together both deliver.
- A PUT decided on a snapshot completes a task reopened meanwhile without an
  auto-advance; the slower of two status changes takes a project back.
- A project that moves the date of a schedule does not bump its version, so a
  pinned PUT of an older client overwrites the move: `PinnedWriteSawCurrent`
  holds only with `ProjectSync = FALSE`.
- After a failed winner two waiters may run one migration side by side; only the
  idempotence of the migrations makes that harmless.
- Calendar handlers that overlap orphan events; bulk changes leave the calendars
  as they were; where an employee has both providers the Google record replaces
  the Outlook id (`Shadowed`).
- A failed digest is retried at the next configured hour, a day or a week later
  (`digest.py:12` says the next hour). A failed e-mail is recorded as handled. A
  rescheduled task's thresholds count as sent.

What the client's modules let happen once `clean` is false, or in state that no
property is about:

- Task dialogs: a field saved on blur does not change the copy it is compared
  with, so typing the old text again is not saved (`TaskDetailModal.tsx:735`);
  two refused changes that overlap roll back to a value that was never saved;
  requests that overlap may be carried out out of order; a reload puts back text
  not saved yet; a comment sent again after only its refresh failed is doubled, and
  what was typed while one is sent is cleared; a partner's upload drops the draft;
  a late deletion closes the dialog that was opened again.
- Boards: the answer of one move closes the conflict dialog of another; the
  selection survives filters, and an answer clears what was selected since; a
  second "Advance Anyway" moves a phase further than was told; a refused drag on
  the partner's board rolls back to an older list; viewers are offered moves
  that the backend refuses.
- Managers: the answer of a first save closes the form of another record with
  what was typed there; so do answers to deletions; a drive time that was looked
  up late overwrites a typed one (`LocationFormDialog.tsx:115`: "Preserve an
  explicit drive-time value if the user already typed one"); a failed lookup
  leaves the old place's time to be saved; lists of accounts may settle on an
  older fetch; sessions of one account show under the name of another; of two
  rotations the second answer replaces a secret nobody has read.
- Reports: the weekly report and an employee's profile show a slow earlier
  answer; analytics keeps the last filter's numbers after a failure.
- Schedule form: a refusal that arrives after the form was edited offers
  "Schedule Anyway" for the new values; overlapping checks may leave the older
  preview; answers of an earlier form close the present one; the scope "All
  future in series" (`ScheduleForm.tsx:251`) is ignored by an update; "until a
  date" without a date is sent.
- Session: a password change ends the other devices' sessions, and when one of
  them refreshes with its revoked token after the grace, that counts as a theft
  and ends the session that was just made (`auth.py:1176`: "so they stay logged
  in"); so does a refresh whose answer was lost; the tab that loses a race of
  two refreshes goes to the login page; a refresh answered after a logout puts
  the cookies back, and a logout that fails leaves them.
- Import, inbox, settings: a preview that arrives late shows under another
  file's name (`ImportCsvDialog.tsx:113`: "Reset preview when new file is
  selected"); "Dismiss all" dismisses rows the panel never showed; a poll served
  before a dismissal brings the row back until the next one; preferences that
  were not saved stay on the screen (`NotificationPreferences.tsx:129`: "toast +
  state reset"); the password form is cleared with what was typed since.
- Outcomes: the warning about one attendee is replaced by that about another, or
  closed by the answer to an earlier forced change; "Confirm" stays enabled, so a
  second click sends the change again; a slow load is shown over a later one.
- Checklist: a request says which box to turn, not to what, so a click on a box
  that somebody turned meanwhile undoes it, and two that are read together count
  once; loads that fail are silent; two clicks on "Add" add two items.
- Messages: the text and the report "Last delivery" stay under another project's
  thread if that is cached (`pages.tsx:569`: "Project-specific partner
  conversations with delivery confirmation."); the refresh after a message goes
  to the project shown by then, and the one it was sent to stays without it until
  it is fetched again; a refresh that fails takes the thread away, and the draft
  with it.
- Layout: schedules that overlap a common third one may get shares of different
  width and be drawn over each other; drives of a schedule with several
  employees are those of the last one (`lib/utils.ts:34`); an override of no minutes
  counts as none.

## Proofs

TLAPS checks the following for every value of the constants that satisfies the
modules' named assumptions. Conditions beyond those are in the statements.

**Schedules.** `TypeCorrect`, by `Typed`: the type invariant with what a
request's command and snapshot are at each point of its code. `ClaimsTakenBack`:
a request that undoes owns no more than the first `held` claims, in order.
`VersionsGrow` and `PinnedWritesAreCurrent` assume that every PUT is pinned (the
second, also, that no project moves dates); they need `SnapshotsFresh`: as long
as a document has the version a request read, it is what the request read.
`ExclusiveRelocation` is the main result. At a swap by `r`, take another placed
schedule in the slot that shares an employee, placed by `q`. Had `q` swapped
before `r`'s slot query, `r` would have been refused; so they overlapped
(`Rivals`). A claim outlives the requests that overlapped its owner
(`PlacedClaims`), so `q` still holds the claim that `r` must hold
(`HeldOwned`): a contradiction. That `r` claimed for those it moves
(`RelocationMovesClaimed`) is freshness again, and fails without pinned PUTs
as finding 1 shows.

**TaskAssignment.** `TransitionsAreCounted`, `TrueNotices`, `LastAssigneeIsTold`,
`ConflictIsContention`. `HistoryInv` ties `assigned_rev` to the history;
`SnapshotInv` says that whatever document a request holds was current at its
revision; `ToldInv`, the strengthening of `LastAssigneeKnows`, names the request
that has still to tell the present assignee; `ContentionInv` bounds the misses by
the transitions since the request first read the task.

**ProjectPhase.** `OneStepOnly` needs no more than the types.
`FinishedPhaseIsLeft` assumes that nobody completes tasks by PUT (`NoPuts`,
because there it fails); `OwedInv` names the request whose auto-advance is still
to come, and where in its queries it stands.

**MigrationRunner.** `OrderInv` (every migration before the one an instance has come
to has run to its end, and so has whatever is recorded) gives
`OrderedMigrations` and `MigratedBeforeServing` under all faults; `SmoothInv`
(while nothing has failed, died or expired, whoever runs owns the lock, and who
waited finds nothing to do) gives
`ExclusiveMigrations`; `DeleteInv` gives `LocksAreKept` if no owner outlives its
lock.

**CalendarSync.** `EventsAreKept`, `GoogleFollows`, `OutlookIsCleared`. While
handlers do not overlap and no event was lost, the handler at work is alone with
no task or job beside it (`Alone`), and what it has to remove is all there is
(`TodoCovers`); each employee has at most one source of events per provider
(`OneGoogle`, `OneOutlook`), and every event is recorded or in hand (`Kept`).

**Reminders.** `NoRowIsLost`: a group that is being cleared was digested or its
contact is gone (`ClearingInv`), for the very rows that were read. `FinishedRunIsComplete`:
whatever a run owes is in the inbox already, or the task or the contact is still
before it (`OwedInv`). `NoReminderTwice`: without a fault every reminder sent or
queued has its record, but for the one between delivery and record (`OnceInv`),
and a row in the queue has not been digested (`RowsInv`). Both, and
`NoRowIsLost`, hold within the retention of `WithinRetention`. `DigestsComeInTime`:
no hour at which a waiting row should have gone out is over, and if it is the
hour that runs, the digest run is still to come or has the group of the row before it
(`Punctual`, `RunsNow`); every hour of the day comes within a day and every hour of a
weekday within a week (`HourComes`, `WeekHourComes`), so a row that waited longer would
have seen its hour pass. It needs the hours and weekdays of `PrefsTyped`, which the
code makes true by reading any other value as the default (`digest.py:60`).
`RemindersIsADigestQueue`: `Spec => IsDigestQueue`. The simulation
(`StepQueues`) takes from `RowsInv` that ids are given out in order and a queued
row is neither out nor given up, from `StageInv` that what a digest sends is
still queued, and from `ClearingInv` that what is removed was sent or given up.

**Client.** `ForcedIsWhatWasAsked` and `WizardSendsWholeRules`. On the calendar
(`BoardInv`) a reason exists only for the conflict that is shown, because every
step that changes the one clears the other. In the form (`SaveInv`) the override
is set only while the fields are those of the refusal, and a save that is out
carries the fields of its form, as long as none is edited while a save is under
way. On the project boards (`ToldInv`) at most one change of a project is under
way, and the dialog of the gate, like every forced advance that is out, names
the phase that follows the one the server has. `SaveInv` and `ToldInv` are what
`clean` excludes the rest from. The wizard's invariant (`WizardInv`) is that
fields stay in their domains and that what was sent is whole; `DoneCustom` and
`Submit` validate, and the payload is put together from the rule that was
validated.

`NothingIsStuck`: `StuckInv` is one invariant per page. Each says more than its part
of `NoStuckControl`: of which instance of the dialog the call is (`LoadsFor`,
`Barring`, `Handled`), or also the reverse, that a call that is out disables its
button (`Adding`, `ImportWaits`), without which a second click would not be
excluded. A call that is answered, refused or overtaken stays the same call
(`SameCall`), and what removes it also frees what waited for it.

`ShownIsOwn`: `ShowsInv` is again one invariant per page, of the calls whose answers
will be shown. A task dialog waits only for answers about its task (`ShowsFor`). The
filter, the account and the file are those that the calls asked about
(`ReportsShow`, `UsersShow`, `ImportShows`: at most one preview, of the file that is
selected). A form's checks that are out carry the slot that it holds, and when none
is out that slot's conflicts are shown (`FormShows`). One lookup of a drive time is
out at most, for the place in the form, and lists and saves carry only what fitted
(`Fitting`). Nobody rotates a secret that is shown (`Secrets`). A status from which
a warning or a forced change starts stays the server's until the one change of its
attendee that may be under way is written (`Warns`); insertions leave it alone, since
they fill free places (`NoneIsNoStatus`). A message that is sent is of the
conversation that is shown (`ThreadsShow`).

`SigningOutEndsAccess` and `NothingLooksStolen` (`ClientServer_proofs`) rest on one
invariant, `SessionInv`. Whatever happens, browsers, tabs and calls keep their
shape. As long as `clean`: a tab that loads has asked who is there (`TabsAsk`);
the present password's access token is only in a browser where somebody is signed
in or is just being asked for (`AccessInv`); every refresh token is one browser's,
and that of an answer nobody's yet (`Owned`); and the tokens that browsers hold,
send or are about to get have not been used up for long (`Fresh`).
`NothingLooksStolen` also needs that tabs and calls are finitely many,
which `ItemsAreFinite` and induction over the steps give. `NoneIsNothing` says that
`None` is no item, value or number, `NoneIsNoStatus`, `NoneIsNoRow`, `NoneIsNoTask` and
`NoneIsNoChecklist` that it is no attendee's status, no row of an inbox, no task and no
checklist.

`StatusesSettle`: `SettlesInv` types the calls of both pages and says of a task
dialog (`Settling`), as long as `clean`: what it shows is what its last write that is
not carried out yet will make it, or else what the server has, and then no such write
is still to be carried out; no other write lies between one and the earlier one
whose value it goes back to. So a refused write goes back either to the last write
that is left, or to what is there for good, which is what `Baseless` asks. Of the
checklist (`FreshRows`, `Turns`): what the newest load brought is the server's but for
the boxes that were turned over since, whose handlers will load again; each box is
turned over by one handler at a time, which asks for the opposite of what is there.

`PagesCatchUp` (`ClientServer_proofs`): once every call is answered, what a page shows
is what the server has, or a fetch has failed and the page says so or `clean` excludes
it. `CatchInv` is one invariant per page, and for most of them the same sentence, said
at every moment instead of at rest: what is shown is what there is, or the last fetch
failed, or one is on its way that the server has not carried out or carried out with
what there is now, or a change was carried out whose handler will fetch (`CatchesUp`
for managers and webhooks, `ListCatchesUp`, `KeyCatchesUp`, `ThreadCatchesUp`,
`RowsCatchUp`, `ConnectionsCatchUp`, `PrefsCatchUp`, `FetchesUp`). Without the last
two parts it would not be inductive: the server changes before the page hears of it.
The partner's board, which moves a card before it is answered, draws every card as it
was fetched, as the server has it or as it was dragged just now, one change at a time
(`DrawnWell`). The inbox shows every row as it will be when the calls that are out are
carried out, but for one that was refused and not answered (`RowFits`); a poll that no
click disturbed is up to date and the only one (`Undisturbed`). `CatchInv` rests on
`StuckInv` and `ShowsInv` for which calls may be out together. Of the day
(`DayCatchesUp`): a move is under way, or what the list was answered is what there is and
it is drawn or on its way.

`DaysAreLaidOut`: what has to hold of one day is a fact about a pure function of its
schedules, for any number of them, so it needs induction over data. The library's
induction theorems take an operator and cannot be used; instead, if a fact fails for
some set of positions, it fails for one of those that contains no other such
(`SmallestSet`, from `WFMin` over the order of finite sets). So `OrderExists` shows that
what `Ordered` chooses is there (`OrderedWell`), and `FoldExists` and `FoldsAlong` that
the fold in `Columns` takes the schedules one after the other (`ColumnsGrow`).
`PackedSoFar` holds after every schedule (`NextPacked`): each one so far is in one
column, those of a column follow each other, and each one that is in a later column was
kept out of every earlier one by a schedule that is under way when it begins. Hence as
many schedules as there are columns are under way when a schedule of the last column
begins, and fewer columns would not do (`BusiestTime`). Drives: a chain holds an
employee's schedules in the order in which they begin (`ChainedWell`), so that the entry
after one and the one before the next are of the same two places. `DayKept` keeps the
backend's list, and the lists it answers, lists of `n` bookings, and what the page draws
a list of `n` schedules that end after they begin, wherever they were dragged.

`TypesAreKept`: `TypesInv` types each page's server, components and calls, and says of a
call what it asks for (`Asking`, `FormCall`, `ThreadCall`, ...), because that is what its
answer is about to put on the page. With the counts (`Counted`, and `Tallies` for one
step) and what the other invariants know already (`TaskTyped`, `CheckTyped`,
`SessionShape`, `WizardInv`, `UsersTyped`, `OutcomesKeep`), it gives `TypeOK`. Two types
are more than shapes: no file is imported more often than imports were asked for
(`ImportCounts`, which counts those that are still out), and every number of a funnel is
at most that of the attendees (`FunnelCounts`).

The assumptions of both are on the constants: schedules of `Class` are bookings, hubs and
minutes are numbers (`DayIsTyped`), columns are numbered (`ColumnsAreNumbered`), and the
bound of a page of numbers lets it ask once, as it does when it is mounted
(`NumbersAreAsked`).

Proving found what TLC's bounds had hidden. A refresh answered in a tab whose user
had signed out meanwhile, two refused statuses in a row in a task dialog, also when a
third one that was carried out lies between them, and a
refused drag on the partner's board over a list fetched meanwhile break
`NoFalseAlarm`, `StatusSettles` and `PagesSettle` with more calls than the run
makes; `clean` names them now (`Refreshed`, `Baseless`, `RollsBack`). It also found
places where the model said less than it seemed to: the order of schedules that begin and
end together was left to the sort, and what a bulk deletion makes of a schedule to
the choice between two arms of a `CASE` that both applied (`ScheduleBoard!Write`).

**Only model-checked:** `ClaimsReleased` (liveness under fairness is out of the
prover's reach) and the four refutations. Every other property of the runs has a theorem.

## Not modelled

- Data that no property tells apart: names, classes, notes, attachments, text of
  e-mails, layout of lists.
- Calendar sync leaves out the top-level event ids of schedules older than
  `calendar_events`, a drive-time event that fails beside its main event, a
  handler whose location is gone, and connections that change meanwhile. A PUT
  that changes no calendar field is a `StatusChange`.
- Webhooks that are delivered: nothing in production fires them. Exports,
  logging, rate limits and uploads: I/O and library configuration. Documents, members
  and partner organisations: one document per request.
- Creation of schedules: of a repeated request, of the job for a long series and
  of the import only what the client sees. Conflict and recurrence algorithms:
  pure functions of one request, with unit tests of their own.
- The workload cache and the names copied into schedules delay what pages of
  numbers show. The caches of password versions (`auth.py:363`), the last admin
  (`users.py:129`) and the claims of invitations are short races of their own.
- Hazards of modelled code that no property covers: a restore onto a slot
  given away meanwhile (`schedule_crud.py:372`), two workers that both pass the
  dedup check (`notifications.py:280`), a partner's PUT from a snapshot
  (`portal/tasks.py:251`), the unpinned phase (`schedule_crud.py:445`), a project
  deleted in part (`projects.py:742`), the series checked for its first employee
  (`worker.py:74`).
- In the client: views that only read, printing, pixels, texts, dialogs of the
  library. Managers of partners and the dialogs in which projects are created and
  edited are forms like those of `Records`, over other fields. A request that
  fails has not been carried out, unless the module says otherwise (`Session`).

## Plan

The plan was to model the most important behaviour first and to prove what TLC
had agreed to. Done, in this order: `Schedules` with its proofs,
`TaskAssignment`, `ProjectPhase`, `MigrationRunner`, `CalendarSync`, `Reminders`,
the pages of the client with `Client_proofs` and `ClientServer_proofs`, and
`DigestQueue` with the refinement that `Reminders` implements it.

What would come next, if the project went on:

1. `ScheduleCreation`: idempotency of a repeated request, the series job, the
   import; the abstract specification creates at most once for one key.
2. The password version in process, Redis and MongoDB, and the last admin; the
   abstract specification is a session that never comes back.
3. `WorkloadCache`, as a cache that is at most its time to live behind.
4. An atomic booking table that relocate implements, as `Reminders` does
   `DigestQueue`.
