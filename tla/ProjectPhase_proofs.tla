------------------------ MODULE ProjectPhase_proofs ------------------------
(***************************************************************************)
(* A phase that a toggle finished is left, for any number of tasks, phases *)
(* and requests, as long as nobody completes tasks by PUT: the invariant   *)
(* names the request whose auto-advance is still to come.                  *)
(***************************************************************************)
EXTENDS ProjectPhase, TLAPS

NoPuts == \A c \in Commands : c.op \notin {"put", "portal_put"}

\* What a request relies on from its arrival on.
ArrivedInv ==
  \A r \in Request :
    /\ pc[r] # "new" => cmd[r] \in Commands
    /\ pc[r] \notin {"new", "missing", "lost"} /\ cmd[r].op \in TaskOps =>
         tasks[cmd[r].task] # None
    /\ pc[r] = "write" /\ cmd[r].op \in {"toggle", "portal_toggle", "portal_put"} =>
         seen[r] # None
    /\ pc[r] = "reread" => cmd[r].op = "put"
    /\ pc[r] = "gate" => cmd[r].op = "advance"
    /\ pc[r] \in {"gate", "write"} /\ cmd[r].op = "advance" => got[r] < Last

LEMMA CommandShape ==
  ASSUME NEW c \in Commands
  PROVE  /\ c.op \in TaskOps \cup {"advance", "status"}
         /\ c.op \in TaskOps => c.task \in Task
         /\ c.op \in {"put", "portal_put"} =>
              c.done \in BOOLEAN \cup {Keep} /\ c.phase \in TaskPhase \cup {Keep}
         /\ c.op = "status" => c.target \in Phase
<1>1. \/ c \in ToggleCommand \/ c \in PutCommand
      \/ c \in AdvanceCommand \/ c \in StatusCommand
  BY CommandsKnown
<1>2. CASE c \in ToggleCommand
  BY <1>2 DEF ToggleCommand, TaskOps
<1>3. CASE c \in PutCommand
  BY <1>3 DEF PutCommand, TaskOps
<1>4. CASE c \in AdvanceCommand
  BY <1>4 DEF AdvanceCommand, TaskOps
<1>5. CASE c \in StatusCommand
  BY <1>5 DEF StatusCommand, TaskOps
<1> QED
  BY <1>1, <1>2, <1>3, <1>4, <1>5

LEMMA DocNotNone == ASSUME NEW d \in Doc PROVE d # None
  BY NoneApart DEF Doc

LEMMA EditedTyped ==
  ASSUME NEW d \in Doc, NEW done \in BOOLEAN \cup {Keep}, NEW p \in TaskPhase \cup {Keep}
  PROVE  /\ Edited(d, done, p) \in Doc
         /\ Edited(d, done, p).live = d.live
         /\ done # Keep => Edited(d, done, p).done = done
         /\ Edited(d, done, p).phase = IF p = Keep THEN d.phase ELSE p
<1>1. PICK e \in BOOLEAN : e = IF done = Keep THEN d.done ELSE done
  BY DEF Doc
<1>2. PICK q \in TaskPhase : q = IF p = Keep THEN d.phase ELSE p
  BY DEF Doc
<1>3. Edited(d, done, p) = [d EXCEPT !.done = e, !.phase = q]
  BY <1>1, <1>2 DEF Edited
<1> QED
  BY <1>1, <1>2, <1>3 DEF Doc

LEMMA PhaseArithmetic ==
  /\ 0 \in TaskPhase /\ TaskPhase \subseteq Phase /\ Phase \subseteq Nat
  /\ Last \notin TaskPhase
  /\ \A p \in TaskPhase : p + 1 \in Phase
  /\ \A p \in Phase : p < Last => p + 1 \in Phase
  BY LastPositive DEF TaskPhase, Phase

LEMMA InitTyped == Init => TypeOK /\ ArrivedInv
<1> SUFFICES ASSUME Init PROVE TypeOK /\ ArrivedInv
  OBVIOUS
<1>1. [phase : TaskPhase, done : {FALSE}, live : {TRUE}] \subseteq Doc
  BY DEF Doc
<1>2. tasks \in [Task -> Doc \cup {None}]
  BY <1>1 DEF Init
<1>3. 0 \in TaskPhase /\ 0 \in Phase
  BY PhaseArithmetic
<1> QED
  BY <1>2, <1>3 DEF Init, TypeOK, ArrivedInv, Label

\* What the writers of a task write is a document.
LEMMA WriteTyped ==
  ASSUME TypeOK, ArrivedInv, NEW r \in Request, WriteTask(r)
  PROVE  /\ tasks' \in [Task -> Doc \cup {None}]
         /\ \A t \in Task : tasks[t] # None => tasks'[t] # None
         /\ about' \in [Request -> TaskPhase]
         /\ pc' \in [Request -> Label]
<1> DEFINE c == cmd[r]
           t == c.task
<1>1. c \in Commands /\ c.op \in TaskOps /\ t \in Task
  BY CommandShape DEF WriteTask, ArrivedInv
<1>2. tasks[t] \in Doc
  BY <1>1 DEF WriteTask, ArrivedInv, TypeOK
<1>3. c.op # "put" => seen[r] \in Doc
  BY <1>1 DEF WriteTask, ArrivedInv, TypeOK, TaskOps
<1>4. NewDone(r) \in BOOLEAN \cup {Keep} /\ NewPhase(r) \in TaskPhase \cup {Keep}
  BY <1>1, <1>3, CommandShape DEF NewDone, NewPhase, Doc, TaskOps
<1>5. tasks' \in [Task -> Doc \cup {None}] /\ (\A u \in Task : tasks[u] # None => tasks'[u] # None)
  <2>1. PICK e \in Doc : e = Edited(tasks[t], NewDone(r), NewPhase(r))
    BY <1>2, <1>4, EditedTyped
  <2>2. tasks' = tasks \/ tasks' = [tasks EXCEPT ![t] = e]
    BY <2>1 DEF WriteTask
  <2> QED
    BY <1>1, <2>2, DocNotNone DEF TypeOK
<1>6. about' \in [Request -> TaskPhase]
  <2>1. CASE c.op = "put"
    BY <2>1 DEF WriteTask, TypeOK
  <2>2. CASE c.op # "put"
    <3>1. Edited(seen[r], Keep, NewPhase(r)) \in Doc
      BY <1>3, <1>4, <2>2, EditedTyped
    <3>2. PICK p \in TaskPhase : p = Edited(seen[r], Keep, NewPhase(r)).phase
      BY <3>1 DEF Doc
    <3> QED
      BY <2>2, <3>2 DEF WriteTask, TypeOK
  <2> QED
    BY <2>1, <2>2
<1>7. pc' \in [Request -> Label]
  BY DEF WriteTask, Go, TypeOK, Label, Ended
<1> QED
  BY <1>5, <1>6, <1>7

LEMMA StepTyped ==
  ASSUME TypeOK, ArrivedInv, NEW r \in Request, Step(r)
  PROVE  TypeOK'
<1> USE PhaseArithmetic DEF TypeOK, Go, Label, Ended
<1>1. CASE Arrive(r)
  BY <1>1 DEF Arrive
<1>2. CASE ReadTask(r)
  <2>1. cmd[r].task \in Task
    BY <1>2, CommandShape DEF ReadTask, ArrivedInv
  <2> QED
    BY <1>2, <2>1 DEF ReadTask
<1>3. CASE WriteTask(r)
  <2>1. owed' \in BOOLEAN
    BY <1>3 DEF WriteTask, Track
  <2> QED
    BY <1>3, <2>1, WriteTyped DEF WriteTask
<1>4. CASE Reread(r)
  <2>1. tasks[cmd[r].task] \in Doc
    BY <1>4, CommandShape DEF Reread, ArrivedInv, TaskOps
  <2>2. PICK p \in TaskPhase : p = tasks[cmd[r].task].phase
    BY <2>1 DEF Doc
  <2> QED
    BY <1>4, <2>2 DEF Reread
<1>5. CASE AutoRead(r)
  BY <1>5 DEF AutoRead
<1>6. CASE AutoTotal(r)
  BY <1>6 DEF AutoTotal
<1>7. CASE AutoRemaining(r)
  BY <1>7 DEF AutoRemaining
<1>8. CASE AutoCas(r)
  <2>1. owed' \in BOOLEAN /\ phase' \in Phase
    BY <1>8 DEF AutoCas, Track
  <2> QED
    BY <1>8, <2>1 DEF AutoCas
<1>9. CASE AdvanceRead(r)
  BY <1>9 DEF AdvanceRead
<1>10. CASE AdvanceGate(r)
  BY <1>10 DEF AdvanceGate
<1>11. CASE AdvanceWrite(r)
  <2>1. owed' \in BOOLEAN /\ phase' \in Phase
    BY <1>11 DEF AdvanceWrite, Track, ArrivedInv
  <2> QED
    BY <1>11, <2>1 DEF AdvanceWrite
<1>12. CASE StatusRead(r)
  BY <1>12 DEF StatusRead
<1>13. CASE StatusWrite(r)
  <2>1. cmd[r] \in Commands
    BY <1>13 DEF StatusWrite, ArrivedInv
  <2>2. owed' \in BOOLEAN /\ phase' \in Phase
    BY <1>13, <2>1, CommandShape DEF StatusWrite, Track
  <2> QED
    BY <1>13, <2>2 DEF StatusWrite
<1>14. CASE Lose(r)
  BY <1>14 DEF Lose
<1> QED
  BY <1>1, <1>2, <1>3, <1>4, <1>5, <1>6, <1>7, <1>8, <1>9, <1>10, <1>11, <1>12, <1>13,
     <1>14 DEF Step

LEMMA ElsewhereTyped ==
  ASSUME TypeOK, Elsewhere
  PROVE  TypeOK' /\ \A t \in Task : tasks[t] # None => tasks'[t] # None
<1>1. owed' \in BOOLEAN /\ UNCHANGED <<pc, cmd, seen, about, got>>
  BY DEF Elsewhere, CreateTask, DeleteTask, SetPhase, DeleteProject, TrashTasks, Track
<1>2. phase' \in Phase /\ alive' \in BOOLEAN
  BY DEF Elsewhere, CreateTask, DeleteTask, SetPhase, DeleteProject, TrashTasks, TypeOK
<1>3. \A d \in Doc : [d EXCEPT !.live = FALSE] \in Doc
  BY DEF Doc
<1>4. /\ tasks' \in [Task -> Doc \cup {None}]
      /\ \A t \in Task : tasks[t] # None => tasks'[t] # None
  <2>1. CASE CreateTask
    <3>1. PICK t \in Task, p \in TaskPhase, done \in BOOLEAN :
            tasks' = [tasks EXCEPT ![t] = [phase |-> p, done |-> done, live |-> TRUE]]
      BY <2>1 DEF CreateTask
    <3>2. [phase |-> p, done |-> done, live |-> TRUE] \in Doc
      BY DEF Doc
    <3>3. PICK e \in Doc : tasks' = [tasks EXCEPT ![t] = e]
      BY <3>1, <3>2
    <3> QED
      BY <3>3, DocNotNone DEF TypeOK
  <2>2. CASE DeleteTask
    <3>1. PICK t \in Task : Live(t) /\ tasks' = [tasks EXCEPT ![t].live = FALSE]
      BY <2>2 DEF DeleteTask
    <3>2. tasks[t] \in Doc
      BY <3>1 DEF Live, TypeOK
    <3>3. PICK e \in Doc : tasks' = [tasks EXCEPT ![t] = e]
      BY <1>3, <3>1, <3>2
    <3> QED
      BY <3>3, DocNotNone DEF TypeOK
  <2>3. CASE TrashTasks
    <3>1. \A t \in Task : Live(t) => [tasks[t] EXCEPT !.live = FALSE] \in Doc
      BY <1>3 DEF Live, TypeOK
    <3> QED
      BY <2>3, <3>1, DocNotNone DEF TrashTasks, TypeOK
  <2>4. CASE SetPhase \/ DeleteProject
    BY <2>4 DEF SetPhase, DeleteProject, TypeOK
  <2> QED
    BY <2>1, <2>2, <2>3, <2>4 DEF Elsewhere
<1> QED
  BY <1>1, <1>2, <1>4 DEF TypeOK

LEMMA StepArrived ==
  ASSUME TypeOK, ArrivedInv, NEW r \in Request, Step(r)
  PROVE  ArrivedInv'
<1> USE DEF TypeOK, Go
<1>1. \A t \in Task : tasks[t] # None => tasks'[t] # None
  BY WriteTyped DEF Step, Arrive, ReadTask, Reread, AutoRead, AutoTotal, AutoRemaining,
     AutoCas, AdvanceRead, AdvanceGate, AdvanceWrite, StatusRead, StatusWrite, Lose
<1>2. \A q \in Request \ {r} : /\ pc'[q] = pc[q] /\ cmd'[q] = cmd[q]
                               /\ seen'[q] = seen[q] /\ got'[q] = got[q]
  BY DEF Step, Arrive, ReadTask, WriteTask, Reread, AutoRead, AutoTotal, AutoRemaining,
     AutoCas, AdvanceRead, AdvanceGate, AdvanceWrite, StatusRead, StatusWrite, Lose
<1>3. \A q \in Request : pc[q] # "new" => cmd[q] \in Commands /\
                           (cmd[q].op \in TaskOps => cmd[q].task \in Task)
  BY CommandShape DEF ArrivedInv
<1>4. SUFFICES
        /\ pc'[r] # "new" => cmd'[r] \in Commands
        /\ pc'[r] \notin {"new", "missing", "lost"} /\ cmd'[r].op \in TaskOps =>
             tasks'[cmd'[r].task] # None
        /\ pc'[r] = "write" /\ cmd'[r].op \in {"toggle", "portal_toggle", "portal_put"} =>
             seen'[r] # None
        /\ pc'[r] = "reread" => cmd'[r].op = "put"
        /\ pc'[r] = "gate" => cmd'[r].op = "advance"
        /\ pc'[r] \in {"gate", "write"} /\ cmd'[r].op = "advance" => got'[r] < Last
  BY <1>1, <1>2, <1>3 DEF ArrivedInv
<1>5. CASE Arrive(r)
  <2>1. PICK c \in Commands :
          /\ c.op \in TaskOps => tasks[c.task] # None
          /\ cmd' = [cmd EXCEPT ![r] = c]
          /\ pc'[r] \in {"missing", "read"}
    BY <1>5 DEF Arrive
  <2>2. tasks' = tasks
    BY <1>5 DEF Arrive
  <2> QED
    BY <2>1, <2>2
<1>6. CASE ReadTask(r)
  BY <1>3, <1>6 DEF ReadTask, ArrivedInv, Live, TaskOps
<1>7. CASE WriteTask(r)
  <2>1. cmd' = cmd /\ pc'[r] \in {"reread", "missing", "auto", "ok"}
        /\ (pc'[r] = "reread" => cmd[r].op = "put")
    BY <1>7 DEF WriteTask
  <2> QED
    BY <1>1, <1>3, <1>7, <2>1 DEF WriteTask, ArrivedInv
<1>8. CASE AdvanceRead(r)
  BY <1>8, LastPositive DEF AdvanceRead, ArrivedInv, AtEnd, Phase, TaskOps
<1>9. CASE AdvanceGate(r)
  BY <1>9 DEF AdvanceGate, ArrivedInv, TaskOps
<1>11. CASE StatusRead(r)
  BY <1>11 DEF StatusRead, ArrivedInv, TaskOps
<1>12. CASE AdvanceWrite(r)
  BY <1>12 DEF AdvanceWrite, ArrivedInv, TaskOps
<1>13. CASE StatusWrite(r)
  BY <1>13 DEF StatusWrite, ArrivedInv, TaskOps
<1>10. CASE Reread(r) \/ AutoRead(r) \/ AutoTotal(r) \/ AutoRemaining(r) \/ AutoCas(r)
            \/ Lose(r)
  BY <1>10 DEF Reread, AutoRead, AutoTotal, AutoRemaining, AutoCas, Lose, ArrivedInv
<1> QED
  BY <1>5, <1>6, <1>7, <1>8, <1>9, <1>10, <1>11, <1>12, <1>13 DEF Step

LEMMA TypedNext == TypeOK /\ ArrivedInv /\ [Next]_vars => (TypeOK /\ ArrivedInv)'
<1> SUFFICES ASSUME TypeOK, ArrivedInv, [Next]_vars PROVE (TypeOK /\ ArrivedInv)'
  OBVIOUS
<1>1. CASE Elsewhere
  <2>1. UNCHANGED <<pc, cmd, seen, got>>
    BY <1>1 DEF Elsewhere, CreateTask, DeleteTask, SetPhase, DeleteProject, TrashTasks
  <2>2. \A q \in Request : pc[q] # "new" =>
                             (cmd[q].op \in TaskOps => cmd[q].task \in Task)
    BY CommandShape DEF ArrivedInv
  <2>3. TypeOK' /\ \A t \in Task : tasks[t] # None => tasks'[t] # None
    BY <1>1, ElsewhereTyped
  <2> QED
    BY <2>1, <2>2, <2>3 DEF ArrivedInv
<1>2. ASSUME NEW r \in Request, Step(r) PROVE (TypeOK /\ ArrivedInv)'
  BY <1>2, StepTyped, StepArrived
<1>3. CASE UNCHANGED vars
  BY <1>3 DEF vars, TypeOK, ArrivedInv
<1> QED
  BY <1>1, <1>2, <1>3 DEF Next

\* Every reachable state of the project is well typed: no writer leaves the
\* list of phases.
THEOREM TypeCorrectPhase == Spec => []TypeOK
<1> QED
  BY InitTyped, TypedNext, PTL DEF Spec

\* An auto-advance takes the phase one step on, whatever moved it meanwhile.
THEOREM OneStepOnly == Spec => AutoAdvancesOneStep
<1>1. TypeOK /\ ArrivedInv /\ [Next]_vars =>
        [\A r \in Request :
           pc[r] = "cas" /\ pc'[r] = "ok" => phase' = phase \/ phase' = phase + 1]_vars
  <2> SUFFICES ASSUME TypeOK, Next, NEW r \in Request, pc[r] = "cas", pc'[r] = "ok"
               PROVE  phase' = phase \/ phase' = phase + 1
    BY DEF vars
  <2>1. ~Elsewhere
    BY DEF Elsewhere, CreateTask, DeleteTask, SetPhase, DeleteProject, TrashTasks
  <2>2. PICK q \in Request : Step(q)
    BY <2>1 DEF Next
  <2>3. \A p \in Request \ {q} : pc'[p] = pc[p]
    BY <2>2 DEF Step, Arrive, ReadTask, WriteTask, Reread, AutoRead, AutoTotal,
       AutoRemaining, AutoCas, AdvanceRead, AdvanceGate, AdvanceWrite, StatusRead,
       StatusWrite, Lose, TypeOK, Go
  <2>4. Step(r)
    BY <2>2, <2>3
  <2>5. phase' = phase \/ AutoCas(r)
    BY <2>4 DEF Step, Arrive, ReadTask, WriteTask, Reread, AutoRead, AutoTotal,
       AutoRemaining, AdvanceRead, AdvanceGate, AdvanceWrite, StatusRead, StatusWrite,
       Lose
  <2> QED
    BY <2>5 DEF AutoCas, AutoMatches
<1> QED
  BY <1>1, InitTyped, TypedNext, PTL DEF Spec, AutoAdvancesOneStep

-----------------------------------------------------------------------------
(* A finished phase is left                                                *)

\* Without PUTs a task stays in its phase, so a toggle knows it.
SamePhaseInv ==
  \A r \in Request :
    pc[r] = "write" /\ cmd[r].op \in {"toggle", "portal_toggle"} =>
      seen[r].phase = tasks[cmd[r].task].phase

\* The request whose auto-advance will find the phase finished.
Advancing(r) == \/ pc[r] \in {"auto", "total", "remaining", "cas"} /\ about[r] = phase
                \/ pc[r] = "lost"

OwedInv == owed => /\ alive
                   /\ Finished(phase)
                   /\ \E r \in Request : Advancing(r)

LEMMA PhasesKept ==
  ASSUME NoPuts, TypeOK, ArrivedInv, [Next]_vars
  PROVE  \A t \in Task : tasks[t] # None =>
           tasks'[t] # None /\ tasks'[t].phase = tasks[t].phase
<1>1. CASE tasks' = tasks
  BY <1>1
<1>2. ASSUME NEW r \in Request, WriteTask(r)
      PROVE  \A t \in Task : tasks[t] # None =>
               tasks'[t] # None /\ tasks'[t].phase = tasks[t].phase
  <2>1. cmd[r] \in Commands /\ cmd[r].op \in {"toggle", "portal_toggle"} /\ cmd[r].task \in Task
    BY <1>2, CommandShape DEF WriteTask, ArrivedInv, NoPuts, TaskOps
  <2>2. tasks[cmd[r].task] \in Doc /\ seen[r] \in Doc
    BY <1>2, <2>1 DEF WriteTask, ArrivedInv, TypeOK, TaskOps
  <2>3. NewDone(r) \in BOOLEAN /\ NewPhase(r) = Keep
    BY <2>1, <2>2 DEF NewDone, NewPhase, Doc
  <2>4. PICK e \in Doc : /\ e = Edited(tasks[cmd[r].task], NewDone(r), Keep)
                         /\ e.phase = tasks[cmd[r].task].phase
    BY <2>2, <2>3, EditedTyped
  <2>5. tasks' = tasks \/ tasks' = [tasks EXCEPT ![cmd[r].task] = e]
    BY <1>2, <2>3, <2>4 DEF WriteTask
  <2> QED
    BY <2>1, <2>4, <2>5, DocNotNone DEF TypeOK
<1>3. CASE CreateTask
  BY <1>3 DEF CreateTask, TypeOK
<1>4. CASE DeleteTask
  <2>1. PICK t \in Task : Live(t) /\ tasks' = [tasks EXCEPT ![t].live = FALSE]
    BY <1>4 DEF DeleteTask
  <2>2. tasks[t] \in Doc /\ [tasks[t] EXCEPT !.live = FALSE].phase = tasks[t].phase
        /\ [tasks[t] EXCEPT !.live = FALSE] \in Doc
    BY <2>1 DEF Live, TypeOK, Doc
  <2> QED
    BY <2>1, <2>2, DocNotNone DEF TypeOK
<1>5. CASE TrashTasks
  <2>1. \A t \in Task : tasks[t] # None =>
          /\ [tasks[t] EXCEPT !.live = FALSE].phase = tasks[t].phase
          /\ [tasks[t] EXCEPT !.live = FALSE] \in Doc
    BY DEF TypeOK, Doc
  <2> QED
    BY <1>5, <2>1, DocNotNone DEF TrashTasks, TypeOK
<1> QED
  BY <1>1, <1>2, <1>3, <1>4, <1>5 DEF Next, Step, Arrive, ReadTask, Reread, AutoRead,
     AutoTotal, AutoRemaining, AutoCas, AdvanceRead, AdvanceGate, AdvanceWrite,
     StatusRead, StatusWrite, Lose, Elsewhere, SetPhase, DeleteProject, vars

LEMMA SamePhaseNext ==
  ASSUME NoPuts, TypeOK, ArrivedInv, SamePhaseInv, [Next]_vars
  PROVE  SamePhaseInv'
<1> SUFFICES ASSUME NEW q \in Request, pc'[q] = "write",
                    cmd'[q].op \in {"toggle", "portal_toggle"}
             PROVE  seen'[q].phase = tasks'[cmd'[q].task].phase
  BY DEF SamePhaseInv
<1>1. CASE pc[q] = "write" /\ UNCHANGED <<cmd[q], seen[q]>>
  <2>1. cmd[q].task \in Task /\ tasks[cmd[q].task] # None
    BY <1>1, CommandShape DEF ArrivedInv, TaskOps
  <2> QED
    BY <1>1, <2>1, PhasesKept DEF SamePhaseInv
<1>2. CASE ReadTask(q)
  BY <1>2, CommandShape DEF ReadTask, TypeOK, Go, ArrivedInv, Live, NoPuts
<1>3. ASSUME NEW r \in Request, Step(r)
      PROVE  ReadTask(q) \/ (pc[q] = "write" /\ UNCHANGED <<cmd[q], seen[q]>>)
  <2>1. CASE q # r
    BY <1>3, <2>1 DEF Step, Arrive, ReadTask, WriteTask, Reread, AutoRead, AutoTotal,
       AutoRemaining, AutoCas, AdvanceRead, AdvanceGate, AdvanceWrite, StatusRead,
       StatusWrite, Lose, TypeOK, Go
  <2>2. CASE q = r
    BY <1>3, <2>2 DEF Step, Arrive, WriteTask, Reread, AutoRead, AutoTotal,
       AutoRemaining, AutoCas, AdvanceRead, AdvanceGate, AdvanceWrite, StatusRead,
       StatusWrite, Lose, TypeOK, Go, ArrivedInv
  <2> QED
    BY <2>1, <2>2
<1>4. CASE Elsewhere \/ UNCHANGED vars
  <2>1. UNCHANGED <<pc, cmd, seen>>
    BY <1>4 DEF Elsewhere, CreateTask, DeleteTask, SetPhase, DeleteProject, TrashTasks, vars
  <2> QED
    BY <1>1, <2>1
<1> QED
  BY <1>1, <1>2, <1>3, <1>4 DEF Next

\* Only the write of a task completes one, and a toggle that completes the
\* phase goes on to advance it.
LEMMA CompletionAdvances ==
  ASSUME NoPuts, TypeOK, ArrivedInv, SamePhaseInv, [Next]_vars,
         Completion, ~Finished(phase), Finished(phase)', phase' = phase
  PROVE  \E r \in Request : Advancing(r)'
<1>1. PICK t \in Task : Live(t) /\ ~tasks[t].done /\ tasks'[t].done
  BY DEF Completion
<1>2. tasks[t] \in Doc
  BY <1>1 DEF Live, TypeOK
<1>3. ~Elsewhere /\ ~UNCHANGED vars
  <2>1. ~CreateTask /\ ~SetPhase /\ ~DeleteProject /\ ~UNCHANGED vars
    BY <1>1, <1>2 DEF CreateTask, SetPhase, DeleteProject, vars, Live, TypeOK
  <2>2. ASSUME DeleteTask PROVE FALSE
    <3>1. PICK u \in Task : Live(u) /\ tasks' = [tasks EXCEPT ![u].live = FALSE]
      BY <2>2 DEF DeleteTask
    <3>2. [tasks[t] EXCEPT !.live = FALSE].done = tasks[t].done
      BY <1>2 DEF Doc
    <3> QED
      BY <1>1, <3>1, <3>2 DEF TypeOK
  <2>3. ASSUME TrashTasks PROVE FALSE
    <3>1. [tasks[t] EXCEPT !.live = FALSE].done = tasks[t].done
      BY <1>2 DEF Doc
    <3> QED
      BY <1>1, <2>3, <3>1 DEF TrashTasks
  <2> QED
    BY <2>1, <2>2, <2>3 DEF Elsewhere
<1>4. PICK r \in Request : WriteTask(r)
  BY <1>1, <1>3 DEF Next, Step, Arrive, ReadTask, Reread, AutoRead, AutoTotal,
     AutoRemaining, AutoCas, AdvanceRead, AdvanceGate, AdvanceWrite, StatusRead,
     StatusWrite, Lose
<1>5. cmd[r] \in Commands /\ cmd[r].op \in {"toggle", "portal_toggle"} /\ cmd[r].task \in Task
  BY <1>4, CommandShape DEF WriteTask, ArrivedInv, NoPuts, TaskOps
<1>6. tasks[cmd[r].task] \in Doc /\ seen[r] \in Doc
  BY <1>4, <1>5 DEF WriteTask, ArrivedInv, TypeOK, TaskOps
<1>7. NewDone(r) \in BOOLEAN /\ NewPhase(r) = Keep
  BY <1>5, <1>6 DEF NewDone, NewPhase, Doc
<1>8. PICK e \in Doc : /\ e = Edited(tasks[cmd[r].task], NewDone(r), Keep)
                       /\ e.phase = tasks[cmd[r].task].phase
                       /\ e.done = NewDone(r)
                       /\ e.live = tasks[cmd[r].task].live
  BY <1>6, <1>7, KeepApart, EditedTyped
<1>9. tasks' = [tasks EXCEPT ![cmd[r].task] = e]
  BY <1>1, <1>4, <1>7, <1>8 DEF WriteTask
<1>10. t = cmd[r].task /\ NewDone(r)
  BY <1>1, <1>8, <1>9 DEF TypeOK
<1>11. tasks[t].phase = phase
  <2>1. \A u \in Task \ {t} : tasks'[u] = tasks[u]
    BY <1>9, <1>10 DEF TypeOK
  <2>2. tasks'[t] = e /\ Live(t)' /\ tasks'[t].phase = tasks[t].phase
    BY <1>1, <1>5, <1>8, <1>9, <1>10, DocNotNone DEF TypeOK, Live
  <2>3. ASSUME tasks[t].phase # phase PROVE FALSE
    <3>1. \A u \in Task : u \in InPhase(phase)' <=> u \in InPhase(phase)
      BY <2>1, <2>2, <2>3 DEF InPhase, Live
    <3>2. \A u \in Task : u \in Remaining(phase)' <=> u \in Remaining(phase)
      BY <2>1, <2>2, <2>3, <3>1 DEF Remaining, InPhase, Live
    <3> QED
      BY <3>1, <3>2 DEF Finished, InPhase, Remaining
  <2> QED
    BY <2>3
<1>12. pc'[r] = "auto" /\ about'[r] = phase
  <2>1. Edited(seen[r], Keep, Keep).phase = seen[r].phase
    BY <1>6, EditedTyped
  <2>2. seen[r].phase = phase
    BY <1>4, <1>5, <1>10, <1>11 DEF SamePhaseInv, WriteTask
  <2>3. CallsAutoAdvance(r)
    BY <1>5, <1>10 DEF CallsAutoAdvance
  <2> QED
    BY <1>4, <1>5, <1>7, <2>1, <2>2, <2>3 DEF WriteTask, TypeOK, Go
<1> QED
  BY <1>12 DEF Advancing

\* While the phase stays finished, its auto-advance goes on.
LEMMA AdvancingGoesOn ==
  ASSUME TypeOK, ArrivedInv, [Next]_vars, alive, alive', Finished(phase), phase' = phase,
         NEW q \in Request, Advancing(q)
  PROVE  Advancing(q)'
<1>1. phase # Last
  BY PhaseArithmetic DEF Finished, InPhase, Live, TypeOK, Doc
<1>2. CASE UNCHANGED <<pc[q], about[q]>>
  BY <1>2 DEF Advancing
<1>3. CASE Elsewhere \/ UNCHANGED vars
  BY <1>2, <1>3 DEF Elsewhere, CreateTask, DeleteTask, SetPhase, DeleteProject, TrashTasks, vars
<1>4. ASSUME NEW r \in Request, Step(r), r # q PROVE UNCHANGED <<pc[q], about[q]>>
  BY <1>4 DEF Step, Arrive, ReadTask, WriteTask, Reread, AutoRead, AutoTotal,
     AutoRemaining, AutoCas, AdvanceRead, AdvanceGate, AdvanceWrite, StatusRead,
     StatusWrite, Lose, TypeOK, Go
<1>5. CASE Step(q)
  <2>1. pc[q] \in {"auto", "total", "remaining", "cas", "lost"}
    BY DEF Advancing
  <2>2. CASE AutoRead(q)
    BY <1>1, <2>2 DEF AutoRead, Advancing, TypeOK, Go
  <2>3. CASE AutoTotal(q)
    BY <2>3 DEF AutoTotal, Advancing, TypeOK, Go, Finished
  <2>4. CASE AutoRemaining(q)
    BY <2>4 DEF AutoRemaining, Advancing, TypeOK, Go, Finished, LeftToDo
  <2>5. CASE AutoCas(q)
    <3>1. phase' = phase + 1 /\ phase \in Nat
      BY <2>5, PhaseArithmetic DEF AutoCas, AutoMatches, Advancing, TypeOK
    <3> QED
      BY <3>1
  <2>6. CASE Lose(q)
    BY <2>6 DEF Lose, Advancing, TypeOK, Go
  <2> QED
    BY <1>5, <2>1, <2>2, <2>3, <2>4, <2>5, <2>6 DEF Step, Arrive, ReadTask, WriteTask,
       Reread, AdvanceRead, AdvanceGate, AdvanceWrite, StatusRead, StatusWrite
<1> QED
  BY <1>2, <1>3, <1>4, <1>5 DEF Next

LEMMA OwedNext ==
  ASSUME NoPuts, TypeOK, ArrivedInv, SamePhaseInv, OwedInv, [Next]_vars
  PROVE  OwedInv'
<1>1. CASE Track
  <2> SUFFICES ASSUME owed'
               PROVE  alive' /\ Finished(phase)' /\ \E r \in Request : Advancing(r)'
    BY DEF OwedInv
  <2>1. Finished(phase)' /\ phase' = phase /\ alive'
    BY <1>1 DEF Track
  <2>2. CASE owed
    BY <2>1, <2>2, AdvancingGoesOn DEF OwedInv
  <2>3. CASE ~owed
    BY <1>1, <2>1, <2>3, CompletionAdvances DEF Track
  <2> QED
    BY <2>1, <2>2, <2>3
<1>2. CASE UNCHANGED <<owed, phase, alive, tasks>>
  <2>1. Finished(phase)' = Finished(phase)
    BY <1>2 DEF Finished, InPhase, Remaining, Live
  <2> QED
    BY <1>2, <2>1, AdvancingGoesOn DEF OwedInv
<1> QED
  BY <1>1, <1>2 DEF Next, Step, Arrive, ReadTask, WriteTask, Reread, AutoRead, AutoTotal,
     AutoRemaining, AutoCas, AdvanceRead, AdvanceGate, AdvanceWrite, StatusRead,
     StatusWrite, Lose, Elsewhere, CreateTask, DeleteTask, SetPhase, DeleteProject,
     TrashTasks, vars

\* Without completions by PUT, a phase that a toggle finished is left once
\* all requests have ended and none was lost.
THEOREM FinishedPhaseIsLeft ==
  ASSUME NoPuts
  PROVE  Spec => []FinishedPhaseAdvances
<1>1. Init => SamePhaseInv /\ OwedInv
  BY DEF Init, SamePhaseInv, OwedInv
<1>2. TypeOK /\ ArrivedInv /\ SamePhaseInv /\ OwedInv /\ [Next]_vars
        => (SamePhaseInv /\ OwedInv)'
  BY SamePhaseNext, OwedNext
<1>3. OwedInv => FinishedPhaseAdvances
  BY DEF OwedInv, Advancing, FinishedPhaseAdvances, Quiet, Ended
<1> QED
  BY <1>1, <1>2, <1>3, InitTyped, TypedNext, PTL DEF Spec
=============================================================================
