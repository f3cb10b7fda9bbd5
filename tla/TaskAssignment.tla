--------------------------- MODULE TaskAssignment ---------------------------
(***************************************************************************)
(* The assignee of one task and the notices its changes send:              *)
(* create_task, update_task with _cas_apply_task_update, delete_task       *)
(* (routers/project_tasks.py), notify_task_assigned                        *)
(* (services/notification_events.py) and the in-app channel of dispatch    *)
(* (services/notifications.py).                                            *)
(*                                                                         *)
(* A person stands for an assigned_to value and the principal it resolves  *)
(* to.  A PUT that leaves assigned_to out touches nothing kept here.       *)
(***************************************************************************)
EXTENDS Naturals, Sequences

CONSTANTS
  Person,    \* who a task can be assigned to
  Request,   \* HTTP requests, each used once
  Attempts,  \* max_attempts of _cas_apply_task_update
  Faults,    \* whether a process may die or an inbox insert fail
  Nobody,    \* assigned_to = None
  None       \* no document

ASSUME AttemptsPositive == Attempts \in Nat \ {0}
ASSUME FaultsFlag == Faults \in BOOLEAN
ASSUME Markers == Nobody \notin Person /\ None \notin [assignee : Person \cup {Nobody},
                                                       rev : Nat, live : BOOLEAN]
                  /\ None \notin Person \X Nat

VARIABLES
  task,     \* the document in db.tasks
  history,  \* every value assigned_to took since the first assignment
  pc,       \* where each request stands
  want,     \* the assignee each PUT asks for
  prev,     \* the snapshot the compare-and-swap is pinned to
  misses,   \* how often the compare-and-swap of a request matched nothing
  first,    \* assigned_rev when the request first read the task
  changed,  \* whether the request performed a transition
  seen,     \* the document the notice is made from
  sent,     \* db.notifications_sent: the dedup keys recorded
  inbox     \* db.notifications: the key of the notice each request inserted

vars == <<task, history, pc, want, prev, misses, first, changed, seen, sent, inbox>>

-----------------------------------------------------------------------------
Assignee == Person \cup {Nobody}
Task == [assignee : Assignee, rev : Nat, live : BOOLEAN]

Ended == {"ok", "missing", "conflict", "lost"}
Quiet == \A r \in Request : pc[r] \in Ended \cup {"new"}

\* The dedup key of task.assigned_to_you.
Key(d) == <<d.assignee, d.rev>>

Go(r, label) == pc' = [pc EXCEPT ![r] = label]

Init ==
  /\ task = None
  /\ history = <<>>
  /\ pc = [r \in Request |-> "new"]
  /\ want = [r \in Request |-> Nobody]
  /\ prev = [r \in Request |-> None]
  /\ misses = [r \in Request |-> 0]
  /\ first = [r \in Request |-> 0]
  /\ changed = [r \in Request |-> FALSE]
  /\ seen = [r \in Request |-> None]
  /\ sent = {}
  /\ inbox = [r \in Request |-> None]

-----------------------------------------------------------------------------
\* POST /tasks, with or without an assignee; the notice is made from the
\* inserted document.
Create(r) ==
  /\ pc[r] = "new"
  /\ task = None
  /\ \E p \in Assignee :
       LET d == [assignee |-> p, rev |-> IF p = Nobody THEN 0 ELSE 1, live |-> TRUE]
       IN  /\ task' = d
           /\ history' = IF p = Nobody THEN <<>> ELSE <<p>>
           /\ seen' = [seen EXCEPT ![r] = d]
           /\ Go(r, IF p = Nobody THEN "ok" ELSE "check")
  /\ UNCHANGED <<want, prev, misses, first, changed, sent, inbox>>

\* PUT /tasks/{id} with assigned_to: the first snapshot.  It is None when
\* the task is deleted; the request goes on to the write all the same.
BeginUpdate(r) ==
  /\ pc[r] = "new"
  /\ task # None
  /\ \E p \in Assignee : want' = [want EXCEPT ![r] = p]
  /\ prev' = [prev EXCEPT ![r] = IF task.live THEN task ELSE None]
  /\ first' = [first EXCEPT ![r] = task.rev]
  /\ Go(r, "write")
  /\ UNCHANGED <<task, history, misses, changed, seen, sent, inbox>>

\* (prev or {}).get("assigned_to")
PrevAssigned(r) == IF prev[r] = None THEN Nobody ELSE prev[r].assignee

\* assignment_will_change
WillChange(r) == want[r] # PrevAssigned(r)

\* Mutant: the compare-and-swap is not pinned on assigned_to.
WriteMatchesUnpinned(r) == task.live

\* The filter of update_one, pinned on assigned_to.
WriteMatches(r) == task.live /\ task.assignee = PrevAssigned(r)

\* Mutant: one attempt too few.
ExhaustedEarly(r) == misses[r] + 1 >= Attempts

\* The retry budget is spent.
Exhausted(r) == misses[r] >= Attempts

\* update_one: $set assigned_to, and $inc assigned_rev on a real transition.
Write(r) ==
  /\ pc[r] = "write"
  /\ WriteMatches(r)
  /\ task' = [task EXCEPT !.assignee = want[r],
                          !.rev = IF WillChange(r) THEN @ + 1 ELSE @]
  /\ history' = IF WillChange(r) THEN Append(history, want[r]) ELSE history
  /\ changed' = [changed EXCEPT ![r] = WillChange(r)]
  /\ Go(r, "reread")
  /\ UNCHANGED <<want, prev, misses, first, seen, sent, inbox>>

WriteMisses(r) ==
  /\ pc[r] = "write"
  /\ ~WriteMatches(r)
  /\ misses' = [misses EXCEPT ![r] = @ + 1]
  /\ Go(r, "resnapshot")
  /\ UNCHANGED <<task, history, want, prev, first, changed, seen, sent, inbox>>

\* After a miss: 404 when the task is gone, 409 when the budget is spent,
\* else another attempt on the new baseline.
Resnapshot(r) ==
  /\ pc[r] = "resnapshot"
  /\ prev' = [prev EXCEPT ![r] = IF task.live THEN task ELSE None]
  /\ Go(r, IF ~task.live THEN "missing"
           ELSE IF Exhausted(r) THEN "conflict" ELSE "write")
  /\ UNCHANGED <<task, history, want, misses, first, changed, seen, sent, inbox>>

\* Mutant: the notice says what the request asked for, not what is stored.
NoticedWanted(r) == [task EXCEPT !.assignee = want[r]]

\* updated = find_one({"id": task_id}), live or not: what the notice says.
Noticed(r) == task

\* Mutant: an unassigned task is announced too.
ResolvesBlindly(d) == TRUE

\* _resolve_task_assignee
Resolves(d) == d.assignee # Nobody

\* The document is read again; a notice follows a transition to somebody,
\* and goes to whoever the document now names.
Reread(r) ==
  /\ pc[r] = "reread"
  /\ seen' = [seen EXCEPT ![r] = Noticed(r)]
  /\ Go(r, IF changed[r] /\ want[r] # Nobody /\ Resolves(Noticed(r))
           THEN "check" ELSE "ok")
  /\ UNCHANGED <<task, history, want, prev, misses, first, changed, sent, inbox>>

-----------------------------------------------------------------------------
(* dispatch on the in-app channel                                          *)

\* Mutant: dedup by person, whatever the revision.
AlreadySentToPerson(k) == \E j \in sent : j[1] = k[1]

\* _was_already_sent
AlreadySent(k) == k \in sent

CheckSent(r) ==
  /\ pc[r] = "check"
  /\ Go(r, IF AlreadySent(Key(seen[r])) THEN "ok" ELSE "deliver")
  /\ UNCHANGED <<task, history, want, prev, misses, first, changed, seen, sent, inbox>>

\* _persist_inbox
Deliver(r) ==
  /\ pc[r] = "deliver"
  /\ inbox' = [inbox EXCEPT ![r] = Key(seen[r])]
  /\ Go(r, "record")
  /\ UNCHANGED <<task, history, want, prev, misses, first, changed, seen, sent>>

\* _record_sent; the unique index makes a second insert a no-op.
Record(r) ==
  /\ pc[r] = "record"
  /\ sent' = sent \cup {Key(seen[r])}
  /\ Go(r, "ok")
  /\ UNCHANGED <<task, history, want, prev, misses, first, changed, seen, inbox>>

\* The process dies, or the insert raises and _fan_out swallows it.
Lose(r) ==
  /\ Faults
  /\ pc[r] \notin Ended \cup {"new"}
  /\ Go(r, "lost")
  /\ UNCHANGED <<task, history, want, prev, misses, first, changed, seen, sent, inbox>>

\* DELETE /tasks/{id}, or DELETE of its project.
Delete ==
  /\ task # None
  /\ task.live
  /\ task' = [task EXCEPT !.live = FALSE]
  /\ UNCHANGED <<history, pc, want, prev, misses, first, changed, seen, sent, inbox>>

Step(r) == \/ Create(r) \/ BeginUpdate(r) \/ Write(r) \/ WriteMisses(r)
           \/ Resnapshot(r) \/ Reread(r) \/ CheckSent(r) \/ Deliver(r)
           \/ Record(r) \/ Lose(r)

Next == Delete \/ \E r \in Request : Step(r)

Spec == Init /\ [][Next]_vars

-----------------------------------------------------------------------------
Label == {"new", "write", "resnapshot", "reread", "check", "deliver", "record"} \cup Ended

\* Every variable holds values of its type.
TypeOK ==
  /\ task \in Task \cup {None}
  /\ history \in Seq(Assignee)
  /\ pc \in [Request -> Label]
  /\ want \in [Request -> Assignee]
  /\ prev \in [Request -> Task \cup {None}]
  /\ misses \in [Request -> Nat]
  /\ first \in [Request -> Nat]
  /\ changed \in [Request -> BOOLEAN]
  /\ seen \in [Request -> Task \cup {None}]
  /\ sent \in SUBSET (Person \X Nat)
  /\ inbox \in [Request -> (Person \X Nat) \cup {None}]

\* assigned_rev counts the transitions: no step changes the assignee of a
\* task without adding one to it, nor adds to it without changing the
\* assignee (the pin of _cas_apply_task_update, even when new == prev).
RevCountsTransitions ==
  [][task # None =>
       IF task'.assignee = task.assignee THEN task'.rev = task.rev
       ELSE task'.rev = task.rev + 1]_vars

\* A notice tells the truth about the revision it names: the person it went
\* to was the assignee at that revision, although the document it is made
\* from is read again after the write.
NoticesAreTrue ==
  \A r \in Request : inbox[r] # None =>
    /\ inbox[r][2] \in 1..Len(history)
    /\ history[inbox[r][2]] = inbox[r][1]

\* Once every request has ended and none was lost, whoever the task is
\* assigned to has been told, for the revision the task is at.
LastAssigneeKnows ==
  (/\ Quiet
   /\ \A r \in Request : pc[r] # "lost"
   /\ task # None
   /\ task.assignee # Nobody)
  => \E r \in Request : inbox[r] = Key(task)

\* A PUT answers 409 only after as many transitions of others, during the
\* request, as it had attempts.
ConflictMeansContention ==
  \A r \in Request : pc[r] = "conflict" => task.rev >= first[r] + Attempts
=============================================================================
