---------------------------- MODULE ProjectPhase ----------------------------
(***************************************************************************)
(* The phase of one project and the completion of its tasks.  The phase is *)
(* moved by maybe_auto_advance_phase_for_task (services/phase_advance.py), *)
(* called by the four task writers of routers/project_tasks.py and         *)
(* routers/portal/tasks.py; by advance_phase and update_project            *)
(* (routers/projects.py); and by update_schedule_status                    *)
(* (routers/schedule_crud.py).  Each reads the project some awaits before  *)
(* it writes; only the first pins the phase it read.                       *)
(***************************************************************************)
EXTENDS Naturals

CONSTANTS
  Task,      \* task ids
  Request,   \* HTTP requests, each used once
  Last,      \* the index of the last phase; PROJECT_PHASES has indices 0..4
  Commands,  \* the requests that may be made
  DragDrop,  \* whether PUT /projects/{id} may set any phase
  Faults,    \* whether a process may die or auto-advance raise
  Keep,      \* a field the body leaves out
  None       \* no document

Phase == 0..Last
TaskPhase == 0..(Last - 1)

ToggleCommand == [op : {"toggle", "portal_toggle"}, task : Task]
PutCommand == [op : {"put", "portal_put"}, task : Task,
               done : BOOLEAN \cup {Keep}, phase : TaskPhase \cup {Keep}]
AdvanceCommand == [op : {"advance"}, force : BOOLEAN]
\* PUT /schedules/{id}/status of the linked schedule; target is the phase
\* SCHEDULE_STATUS_TO_PROJECT_PHASE maps the status to.
StatusCommand == [op : {"status"}, target : Phase]

ASSUME LastPositive == Last \in Nat \ {0}
ASSUME CommandsKnown ==
  Commands \subseteq ToggleCommand \cup PutCommand \cup AdvanceCommand \cup StatusCommand
ASSUME Flags == DragDrop \in BOOLEAN /\ Faults \in BOOLEAN
ASSUME KeepApart == Keep \notin BOOLEAN \cup Nat
ASSUME NoneApart == None \notin [phase : TaskPhase, done : BOOLEAN, live : BOOLEAN]
                    /\ None \notin Commands

VARIABLES
  phase,  \* the project's phase
  alive,  \* deleted_at of the project is None
  tasks,  \* db.tasks of the project
  pc,     \* where each request stands
  cmd,    \* what each request asks for
  seen,   \* the task as the request read it
  about,  \* the phase an auto-advance is about
  got,    \* the phase an advance or a status change read
  owed    \* a completion finished the current phase, and it still is

vars == <<phase, alive, tasks, pc, cmd, seen, about, got, owed>>

-----------------------------------------------------------------------------
Doc == [phase : TaskPhase, done : BOOLEAN, live : BOOLEAN]

TaskOps == {"toggle", "portal_toggle", "put", "portal_put"}
Ended == {"ok", "missing", "refused", "lost"}
Quiet == \A r \in Request : pc[r] \in Ended \cup {"new"}

Live(t) == tasks[t] # None /\ tasks[t].live
InPhase(p) == {t \in Task : Live(t) /\ tasks[t].phase = p}
Remaining(p) == {t \in InPhase(p) : ~tasks[t].done}
Finished(p) == InPhase(p) # {} /\ Remaining(p) = {}

Go(r, label) == pc' = [pc EXCEPT ![r] = label]

\* A completion finishes the current phase when it turns an unfinished
\* phase into a finished one.
Completion == \E t \in Task : Live(t) /\ ~tasks[t].done /\ tasks'[t].done
Track == owed' = /\ Finished(phase)' /\ phase' = phase /\ alive'
                 /\ owed \/ (Completion /\ ~Finished(phase))

Init ==
  /\ phase = 0
  /\ alive = TRUE
  /\ tasks \in [Task -> [phase : TaskPhase, done : {FALSE}, live : {TRUE}] \cup {None}]
  /\ pc = [r \in Request |-> "new"]
  /\ cmd = [r \in Request |-> None]
  /\ seen = [r \in Request |-> None]
  /\ about = [r \in Request |-> 0]
  /\ got = [r \in Request |-> 0]
  /\ owed = FALSE

-----------------------------------------------------------------------------
\* A request arrives, for a task its client has seen; the portal looks for
\* the partner's project first.
Arrive(r) ==
  /\ pc[r] = "new"
  /\ \E c \in Commands :
       /\ c.op \in TaskOps => tasks[c.task] # None
       /\ cmd' = [cmd EXCEPT ![r] = c]
       /\ Go(r, IF c.op \in {"portal_toggle", "portal_put"} /\ ~alive
                THEN "missing" ELSE "read")
  /\ UNCHANGED <<phase, alive, tasks, seen, about, got, owed>>

(* Writers of a task                                                       *)

\* The snapshot of the task.  A missing one is a 404, except in update_task,
\* which finds out when its write matches nothing.
ReadTask(r) ==
  /\ pc[r] = "read" /\ cmd[r].op \in TaskOps
  /\ LET t == cmd[r].task IN
       /\ seen' = [seen EXCEPT ![r] = IF Live(t) THEN tasks[t] ELSE None]
       /\ Go(r, IF Live(t) \/ cmd[r].op = "put" THEN "write" ELSE "missing")
  /\ UNCHANGED <<phase, alive, tasks, cmd, about, got, owed>>

\* The completed flag a request writes: a toggle negates what it read.
NewDone(r) == IF cmd[r].op \in {"toggle", "portal_toggle"} THEN ~seen[r].done
              ELSE cmd[r].done
NewPhase(r) == IF cmd[r].op \in {"put", "portal_put"} THEN cmd[r].phase ELSE Keep

\* toggle_task_completion filters by id alone.
TaskMatches(r) == cmd[r].op = "toggle" \/ Live(cmd[r].task)

Edited(d, done, p) == [d EXCEPT !.done = IF done = Keep THEN @ ELSE done,
                                !.phase = IF p = Keep THEN @ ELSE p]

\* Whether the writer calls maybe_auto_advance_phase_for_task at once.
CallsAutoAdvance(r) ==
  \/ (cmd[r].op \in {"toggle", "portal_toggle"} /\ NewDone(r))
  \/ (cmd[r].op = "portal_put" /\ cmd[r].done = TRUE /\ ~seen[r].done)

\* update_one, and the call of auto-advance with the phase of the task as
\* the request read (and edited) it.
WriteTask(r) ==
  /\ pc[r] = "write" /\ cmd[r].op \in TaskOps
  /\ tasks' = IF TaskMatches(r)
              THEN [tasks EXCEPT ![cmd[r].task] = Edited(@, NewDone(r), NewPhase(r))]
              ELSE tasks
  /\ IF cmd[r].op = "put"
     THEN /\ Go(r, IF TaskMatches(r) THEN "reread" ELSE "missing")
          /\ UNCHANGED about
     ELSE /\ about' = [about EXCEPT ![r] = Edited(seen[r], Keep, NewPhase(r)).phase]
          /\ Go(r, IF CallsAutoAdvance(r) THEN "auto" ELSE "ok")
  /\ UNCHANGED <<phase, alive, cmd, seen, got>>
  /\ Track

\* update_task reads the task again and compares it with its snapshot.
Reread(r) ==
  /\ pc[r] = "reread"
  /\ LET d == tasks[cmd[r].task] IN
       /\ about' = [about EXCEPT ![r] = d.phase]
       /\ Go(r, IF seen[r] # None /\ d.done /\ ~seen[r].done THEN "auto" ELSE "ok")
  /\ UNCHANGED <<phase, alive, tasks, cmd, seen, got, owed>>

-----------------------------------------------------------------------------
(* maybe_auto_advance_phase_for_task: four awaits                          *)

AutoRead(r) ==
  /\ pc[r] = "auto"
  /\ Go(r, IF alive /\ phase = about[r] /\ phase # Last THEN "total" ELSE "ok")
  /\ UNCHANGED <<phase, alive, tasks, cmd, seen, about, got, owed>>

AutoTotal(r) ==
  /\ pc[r] = "total"
  /\ Go(r, IF InPhase(about[r]) # {} THEN "remaining" ELSE "ok")
  /\ UNCHANGED <<phase, alive, tasks, cmd, seen, about, got, owed>>

\* Mutant: soft-deleted tasks count as left to do.
LeftToDoWithDeleted(p) ==
  {t \in Task : tasks[t] # None /\ tasks[t].phase = p /\ ~tasks[t].done}

\* The tasks auto-advance still waits for: soft-deleted ones do not count.
LeftToDo(p) == Remaining(p)
AutoRemaining(r) ==
  /\ pc[r] = "remaining"
  /\ Go(r, IF LeftToDo(about[r]) = {} THEN "cas" ELSE "ok")
  /\ UNCHANGED <<phase, alive, tasks, cmd, seen, about, got, owed>>

\* Mutant: the write does not pin the phase.
AutoMatchesAlive(r) == alive

\* The filter of the write pins the phase.
AutoMatches(r) == alive /\ phase = about[r]

AutoCas(r) ==
  /\ pc[r] = "cas"
  /\ phase' = IF AutoMatches(r) THEN about[r] + 1 ELSE phase
  /\ Go(r, "ok")
  /\ UNCHANGED <<alive, tasks, cmd, seen, about, got>>
  /\ Track

-----------------------------------------------------------------------------
(* advance_phase                                                           *)

\* Mutant: advance_phase does not stop at the last phase.
NeverAtEnd(p) == FALSE

AtEnd(p) == p >= Last

AdvanceRead(r) ==
  /\ pc[r] = "read" /\ cmd[r].op = "advance"
  /\ got' = [got EXCEPT ![r] = phase]
  /\ Go(r, IF ~alive THEN "missing" ELSE IF AtEnd(phase) THEN "refused" ELSE "gate")
  /\ UNCHANGED <<phase, alive, tasks, cmd, seen, about, owed>>

\* Incomplete tasks stop whoever does not force.
AdvanceGate(r) ==
  /\ pc[r] = "gate"
  /\ Go(r, IF Remaining(got[r]) = {} \/ cmd[r].force THEN "write" ELSE "refused")
  /\ UNCHANGED <<phase, alive, tasks, cmd, seen, about, got, owed>>

AdvanceWrite(r) ==
  /\ pc[r] = "write" /\ cmd[r].op = "advance"
  /\ phase' = IF alive THEN got[r] + 1 ELSE phase
  /\ Go(r, "ok")
  /\ UNCHANGED <<alive, tasks, cmd, seen, about, got>>
  /\ Track

(* update_schedule_status                                                  *)

StatusRead(r) ==
  /\ pc[r] = "read" /\ cmd[r].op = "status"
  /\ got' = [got EXCEPT ![r] = phase]
  /\ Go(r, IF alive /\ cmd[r].target > phase THEN "write" ELSE "ok")
  /\ UNCHANGED <<phase, alive, tasks, cmd, seen, about, owed>>

StatusWrite(r) ==
  /\ pc[r] = "write" /\ cmd[r].op = "status"
  /\ phase' = IF alive THEN cmd[r].target ELSE phase
  /\ Go(r, "ok")
  /\ UNCHANGED <<alive, tasks, cmd, seen, about, got>>
  /\ Track

-----------------------------------------------------------------------------
(* One-step writers                                                        *)

\* The process dies, or maybe_auto_advance_phase_for_task swallows an error.
Lose(r) ==
  /\ Faults
  /\ pc[r] \notin Ended \cup {"new"}
  /\ Go(r, "lost")
  /\ UNCHANGED <<phase, alive, tasks, cmd, seen, about, got, owed>>

\* create_task does not look at the phase of the project.
CreateTask ==
  /\ alive
  /\ \E t \in Task, p \in TaskPhase, done \in BOOLEAN :
       /\ tasks[t] = None
       /\ tasks' = [tasks EXCEPT ![t] = [phase |-> p, done |-> done, live |-> TRUE]]
  /\ UNCHANGED <<phase, alive, pc, cmd, seen, about, got>>
  /\ Track

DeleteTask ==
  /\ \E t \in Task : Live(t) /\ tasks' = [tasks EXCEPT ![t].live = FALSE]
  /\ UNCHANGED <<phase, alive, pc, cmd, seen, about, got>>
  /\ Track

\* update_project with a phase: the board's drag and drop.
SetPhase ==
  /\ DragDrop /\ alive
  /\ \E p \in Phase : phase' = p
  /\ UNCHANGED <<alive, tasks, pc, cmd, seen, about, got>>
  /\ Track

\* delete_project; its tasks follow one write later.
DeleteProject ==
  /\ alive
  /\ alive' = FALSE
  /\ UNCHANGED <<phase, tasks, pc, cmd, seen, about, got>>
  /\ Track

TrashTasks ==
  /\ ~alive
  /\ \E t \in Task : Live(t)
  /\ tasks' = [t \in Task |-> IF Live(t) THEN [tasks[t] EXCEPT !.live = FALSE]
                              ELSE tasks[t]]
  /\ UNCHANGED <<phase, alive, pc, cmd, seen, about, got>>
  /\ Track

Step(r) == \/ Arrive(r) \/ ReadTask(r) \/ WriteTask(r) \/ Reread(r)
           \/ AutoRead(r) \/ AutoTotal(r) \/ AutoRemaining(r) \/ AutoCas(r)
           \/ AdvanceRead(r) \/ AdvanceGate(r) \/ AdvanceWrite(r)
           \/ StatusRead(r) \/ StatusWrite(r) \/ Lose(r)
Elsewhere == CreateTask \/ DeleteTask \/ SetPhase \/ DeleteProject \/ TrashTasks

Next == (\E r \in Request : Step(r)) \/ Elsewhere

Spec == Init /\ [][Next]_vars

-----------------------------------------------------------------------------
Label == {"new", "read", "write", "reread", "auto", "total", "remaining", "cas", "gate"}
         \cup Ended

\* Every variable holds values of its type.
TypeOK ==
  /\ phase \in Phase
  /\ alive \in BOOLEAN
  /\ tasks \in [Task -> Doc \cup {None}]
  /\ pc \in [Request -> Label]
  /\ cmd \in [Request -> Commands \cup {None}]
  /\ seen \in [Request -> Doc \cup {None}]
  /\ about \in [Request -> TaskPhase]
  /\ got \in [Request -> Phase]
  /\ owed \in BOOLEAN

\* "Only ever moves forward one step": whatever moves the phase meanwhile,
\* the write of an auto-advance takes the phase one step on or leaves it.
AutoAdvancesOneStep ==
  [][\A r \in Request :
       pc[r] = "cas" /\ pc'[r] = "ok" => phase' = phase \/ phase' = phase + 1]_vars

\* A phase finished by completing a task is not left standing: once all
\* requests have ended, none of them lost and none a PUT of a task, the
\* project has moved on. Whichever of two racing toggles counts last sees both.
FinishedPhaseAdvances ==
  (/\ Quiet
   /\ \A r \in Request : /\ pc[r] # "lost"
                         /\ cmd[r] # None => cmd[r].op \notin {"put", "portal_put"})
  => ~owed
=============================================================================
