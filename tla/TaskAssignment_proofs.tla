----------------------- MODULE TaskAssignment_proofs -----------------------
(***************************************************************************)
(* What TaskAssignment guarantees for any number of people, requests and   *)
(* attempts.  The inductive invariant relates every document a request     *)
(* holds to the history of assignments, and names the request that is      *)
(* still about to tell the present assignee.                               *)
(***************************************************************************)
EXTENDS TaskAssignment, TLAPS

\* A request that works on the task has one; one that notifies somebody
\* holds a document that names him.
StageInv ==
  \A r \in Request :
    /\ pc[r] \in {"write", "resnapshot", "reread"} => task # None
    /\ pc[r] \in {"check", "deliver", "record"} =>
         seen[r] # None /\ seen[r].assignee # Nobody

LEMMA InitTyped == Init => TypeOK /\ StageInv
  BY AttemptsPositive DEF Init, TypeOK, StageInv, Label, Assignee

LEMMA WriteTyped ==
  ASSUME TypeOK, task \in Task, NEW r \in Request, Write(r)
  PROVE  task' \in Task
<1>1. want[r] \in Assignee /\ task.rev \in Nat /\ task.rev + 1 \in Nat
  BY DEF TypeOK, Task
<1>2. CASE WillChange(r)
  <2>1. task' = [task EXCEPT !.assignee = want[r], !.rev = task.rev + 1]
    BY <1>2 DEF Write
  <2>2. PICK n \in Nat : n = task.rev + 1
    BY <1>1
  <2>3. task' = [task EXCEPT !.assignee = want[r], !.rev = n]
    BY <2>1, <2>2
  <2> QED
    BY <1>1, <2>3 DEF Task
<1>3. CASE ~WillChange(r)
  <2>1. task' = [task EXCEPT !.assignee = want[r], !.rev = task.rev]
    BY <1>3 DEF Write
  <2> QED
    BY <1>1, <2>1 DEF Task
<1> QED
  BY <1>2, <1>3

LEMMA StepTyped ==
  ASSUME TypeOK, StageInv, NEW r \in Request, Step(r)
  PROVE  TypeOK'
<1> USE DEF TypeOK, Go
<1>1. CASE Create(r)
  <2>1. PICK p \in Assignee :
          LET d == [assignee |-> p, rev |-> IF p = Nobody THEN 0 ELSE 1, live |-> TRUE]
          IN  /\ task' = d
              /\ history' = IF p = Nobody THEN <<>> ELSE <<p>>
              /\ seen' = [seen EXCEPT ![r] = d]
              /\ Go(r, IF p = Nobody THEN "ok" ELSE "check")
    BY <1>1 DEF Create
  <2>2. task' \in Task /\ seen'[r] \in Task /\ history' \in Seq(Assignee)
    BY <2>1 DEF Task
  <2> QED
    BY <1>1, <2>1, <2>2 DEF Create, Label, Ended
<1>2. CASE BeginUpdate(r)
  BY <1>2 DEF BeginUpdate, Task, Label, Assignee
<1>3. CASE Write(r)
  <2>1. task \in Task
    BY <1>3 DEF Write, StageInv
  <2>2. task' \in Task
    BY <1>3, <2>1, WriteTyped
  <2>3. history' \in Seq(Assignee)
    BY <1>3 DEF Write, WillChange
  <2> QED
    BY <1>3, <2>2, <2>3 DEF Write, WillChange, Label
<1>4. CASE WriteMisses(r)
  BY <1>4 DEF WriteMisses, Label
<1>5. CASE Resnapshot(r)
  BY <1>5 DEF Resnapshot, Label, Ended, Task
<1>6. CASE Reread(r)
  BY <1>6 DEF Reread, Noticed, Label, Ended
<1>7. CASE CheckSent(r)
  BY <1>7 DEF CheckSent, Label, Ended
<1>8. ASSUME pc[r] \in {"check", "deliver", "record"}
      PROVE  Key(seen[r]) \in Person \X Nat
  BY <1>8 DEF StageInv, Key, Task, Assignee
<1>9. CASE Deliver(r)
  BY <1>8, <1>9 DEF Deliver, Label
<1>10. CASE Record(r)
  BY <1>8, <1>10 DEF Record, Label, Ended
<1>11. CASE Lose(r)
  BY <1>11 DEF Lose, Label, Ended
<1> QED
  BY <1>1, <1>2, <1>3, <1>4, <1>5, <1>6, <1>7, <1>9, <1>10, <1>11 DEF Step

LEMMA DeleteTyped ==
  ASSUME TypeOK, Delete
  PROVE  TypeOK' /\ (StageInv => StageInv')
<1>1. task \in Task /\ task' \in Task
  BY DEF TypeOK, Delete, Task
<1>2. task # None /\ task' # None
  BY <1>1, Markers DEF Task, Assignee
<1> QED
  BY <1>1, <1>2 DEF TypeOK, StageInv, Delete

LEMMA StepStaged ==
  ASSUME TypeOK, StageInv, NEW r \in Request, Step(r)
  PROVE  StageInv'
<1> USE DEF TypeOK, Go
<1>0. TypeOK'
  BY StepTyped
<1>a. \A d \in Task : d # None
  BY Markers DEF Task, Assignee
<1>1. CASE Create(r)
  <2>1. PICK p \in Assignee :
          LET d == [assignee |-> p, rev |-> IF p = Nobody THEN 0 ELSE 1, live |-> TRUE]
          IN  /\ task' = d
              /\ seen' = [seen EXCEPT ![r] = d]
              /\ Go(r, IF p = Nobody THEN "ok" ELSE "check")
    BY <1>1 DEF Create
  <2>2. task' \in Task /\ seen'[r] = task' /\ task'.assignee = p
    BY <2>1 DEF Task
  <2> QED
    BY <1>1, <1>a, <2>1, <2>2 DEF Create, StageInv
<1>2. CASE BeginUpdate(r)
  BY <1>2 DEF BeginUpdate, StageInv
<1>3. CASE Write(r)
  <2>1. task' # None
    <3>1. task \in Task
      BY <1>3 DEF Write, StageInv
    <3>2. task' \in Task
      BY <1>3, <3>1, WriteTyped
    <3> QED BY <1>a, <3>2
  <2> QED
    BY <1>3, <2>1 DEF Write, StageInv
<1>4. CASE WriteMisses(r)
  BY <1>4 DEF WriteMisses, StageInv
<1>5. CASE Resnapshot(r)
  BY <1>5 DEF Resnapshot, StageInv
<1>6. CASE Reread(r)
  BY <1>6 DEF Reread, Noticed, Resolves, StageInv
<1>7. CASE CheckSent(r)
  BY <1>7 DEF CheckSent, StageInv
<1>8. CASE Deliver(r)
  BY <1>8 DEF Deliver, StageInv
<1>9. CASE Record(r)
  BY <1>9 DEF Record, StageInv
<1>10. CASE Lose(r)
  BY <1>10 DEF Lose, StageInv, Ended
<1> QED
  BY <1>1, <1>2, <1>3, <1>4, <1>5, <1>6, <1>7, <1>8, <1>9, <1>10 DEF Step

LEMMA TypedNext ==
  ASSUME TypeOK, StageInv, [Next]_vars
  PROVE  TypeOK' /\ StageInv'
<1>1. CASE Delete
  BY <1>1, DeleteTyped
<1>2. ASSUME NEW r \in Request, Step(r) PROVE TypeOK' /\ StageInv'
  BY <1>2, StepTyped, StepStaged
<1>3. CASE UNCHANGED vars
  BY <1>3 DEF vars, TypeOK, StageInv
<1> QED
  BY <1>1, <1>2, <1>3 DEF Next

\* Every reachable state of the task, its requests and its notices is well
\* typed.
THEOREM TypeCorrectTask == Spec => []TypeOK
<1>1. Init => TypeOK /\ StageInv
  BY InitTyped
<1>2. TypeOK /\ StageInv /\ [Next]_vars => (TypeOK /\ StageInv)'
  BY TypedNext
<1> QED
  BY <1>1, <1>2, PTL DEF Spec

-----------------------------------------------------------------------------
(* The history of assignments                                              *)

\* What a request that read document d can rely on when the task is t and
\* its history h: the assignee of d is the one the history has at d's
\* revision.
SeenAt(d, t, h) ==
  /\ d \in Task /\ t \in Task
  /\ d.rev <= t.rev
  /\ IF d.rev = 0 THEN d.assignee = Nobody ELSE h[d.rev] = d.assignee

HistoryInv ==
  /\ task = None => history = <<>>
  /\ task # None => Len(history) = task.rev /\ SeenAt(task, task, history)

\* The ways a step may change the task.
Kept == /\ task # None => task' \in Task /\ task'.assignee = task.assignee
                                         /\ task'.rev = task.rev
        /\ task = None => task' = None
        /\ history' = history
Transition == /\ task # None /\ task' \in Task
              /\ task'.assignee # task.assignee
              /\ task'.rev = task.rev + 1
              /\ history' = Append(history, task'.assignee)
Born == /\ task = None /\ task' \in Task
        /\ \/ task'.assignee = Nobody /\ task'.rev = 0 /\ history' = <<>>
           \/ task'.assignee # Nobody /\ task'.rev = 1 /\ history' = <<task'.assignee>>

Evolves == Kept \/ Transition \/ Born

LEMMA TaskIsDocument == TypeOK => (task # None <=> task \in Task)
  BY Markers DEF TypeOK, Task, Assignee

LEMMA CreateIsBirth ==
  ASSUME TypeOK, NEW r \in Request, Create(r)
  PROVE  Born /\ task' = seen'[r] /\ pc'[r] = IF task'.assignee = Nobody THEN "ok" ELSE "check"
<1>1. PICK p \in Assignee :
        LET d == [assignee |-> p, rev |-> IF p = Nobody THEN 0 ELSE 1, live |-> TRUE]
        IN  /\ task' = d
            /\ history' = IF p = Nobody THEN <<>> ELSE <<p>>
            /\ seen' = [seen EXCEPT ![r] = d]
            /\ Go(r, IF p = Nobody THEN "ok" ELSE "check")
  BY DEF Create
<1>2. task' \in Task /\ task'.assignee = p
  BY <1>1 DEF Task
<1> QED
  BY <1>1, <1>2 DEF Born, Create, Go, TypeOK

LEMMA WriteIsTransition ==
  ASSUME TypeOK, StageInv, NEW r \in Request, Write(r)
  PROVE  IF WillChange(r) THEN Transition ELSE Kept
<1>1. task # None /\ task \in Task
  BY TaskIsDocument DEF Write, StageInv
<1>2. task' \in Task
  BY <1>1, WriteTyped
<1>3. task.assignee = PrevAssigned(r)
  BY DEF Write, WriteMatches
<1>4. CASE WillChange(r)
  BY <1>1, <1>2, <1>3, <1>4 DEF Write, WillChange, Transition, Task
<1>5. CASE ~WillChange(r)
  BY <1>1, <1>2, <1>3, <1>5 DEF Write, WillChange, Kept, Task
<1> QED
  BY <1>4, <1>5

LEMMA TaskEvolves ==
  ASSUME TypeOK, StageInv, [Next]_vars
  PROVE  Evolves
<1>1. CASE UNCHANGED <<task, history>>
  BY <1>1, TaskIsDocument DEF Evolves, Kept
<1>2. CASE Delete
  <2>1. task \in Task
    BY <1>2, TaskIsDocument DEF Delete
  <2> QED
    BY <1>2, <2>1 DEF Delete, Evolves, Kept, Task
<1>3. ASSUME NEW r \in Request, Step(r) PROVE Evolves
  <2>1. CASE Create(r)
    BY <2>1, CreateIsBirth DEF Evolves
  <2>2. CASE Write(r)
    BY <2>2, WriteIsTransition DEF Evolves
  <2> QED
    BY <1>1, <1>3, <2>1, <2>2 DEF Step, BeginUpdate, WriteMisses, Resnapshot,
         Reread, CheckSent, Deliver, Record, Lose
<1> QED
  BY <1>1, <1>2, <1>3 DEF Next, vars

\* The history only grows, so what a request read stays true.
LEMMA HistoryGrows ==
  ASSUME TypeOK, HistoryInv, Evolves
  PROVE  /\ HistoryInv'
         /\ task # None => task' # None /\ task.rev <= task'.rev
         /\ \A d : SeenAt(d, task, history) => SeenAt(d, task', history')
         /\ \A n \in 1..Len(history) :
              n \in 1..Len(history') /\ history'[n] = history[n]
<1>0. \A d \in Task : d # None /\ d.rev \in Nat /\ d.assignee \in Assignee
  BY Markers DEF Task, Assignee
<1>1. history \in Seq(Assignee) /\ (task # None => task \in Task)
  BY TaskIsDocument DEF TypeOK
<1>2. CASE Kept
  BY <1>0, <1>1, <1>2 DEF Kept, HistoryInv, SeenAt
<1>3. CASE Transition
  <2>1. task'.assignee \in Assignee /\ task.rev \in Nat /\ Len(history) = task.rev
    BY <1>0, <1>1, <1>3 DEF Transition, HistoryInv
  <2>2. /\ Len(history') = task.rev + 1
        /\ history'[task.rev + 1] = task'.assignee
        /\ \A n \in 1..Len(history) : history'[n] = history[n]
    BY <1>1, <1>3, <2>1 DEF Transition
  <2>3. \A d : SeenAt(d, task, history) => SeenAt(d, task', history')
    BY <1>0, <1>3, <2>1, <2>2 DEF Transition, SeenAt
  <2> QED
    BY <1>0, <1>3, <2>1, <2>2, <2>3 DEF Transition, HistoryInv, SeenAt
<1>4. CASE Born
  <2>1. history = <<>> /\ task \notin Task
    BY <1>0, <1>4 DEF Born, HistoryInv
  <2>2. task' # None /\ Len(history') = task'.rev /\ SeenAt(task', task', history')
    <3>1. CASE task'.assignee = Nobody
      BY <1>0, <1>4, <3>1 DEF Born, SeenAt
    <3>2. CASE task'.assignee # Nobody
      <4>1. task'.rev = 1 /\ history' = <<task'.assignee>> /\ task' \in Task
        BY <1>4, <3>2 DEF Born
      <4>2. Len(history') = 1 /\ history'[1] = task'.assignee
        BY <4>1
      <4> QED
        BY <1>0, <4>1, <4>2 DEF SeenAt
    <3> QED
      BY <3>1, <3>2
  <2>3. HistoryInv'
    BY <2>2 DEF HistoryInv
  <2>4. \A d : ~SeenAt(d, task, history)
    BY <2>1 DEF SeenAt
  <2> QED
    BY <1>0, <1>1, <2>1, <2>3, <2>4
<1> QED
  BY <1>2, <1>3, <1>4 DEF Evolves

\* No step changes the assignee without counting one transition, nor counts
\* one without changing the assignee.
THEOREM TransitionsAreCounted == Spec => RevCountsTransitions
<1>1. Init => TypeOK /\ StageInv
  BY InitTyped
<1>2. TypeOK /\ StageInv /\ [Next]_vars => (TypeOK /\ StageInv)'
  BY TypedNext
<1>3. TypeOK /\ StageInv /\ [Next]_vars =>
        [task # None =>
           IF task'.assignee = task.assignee THEN task'.rev = task.rev
           ELSE task'.rev = task.rev + 1]_vars
  BY TaskEvolves DEF Evolves, Kept, Transition, Born
<1> QED
  BY <1>1, <1>2, <1>3, PTL DEF Spec, RevCountsTransitions

-----------------------------------------------------------------------------
(* Notices                                                                 *)

\* Every document a request holds was once the document of the task.
SnapshotInv ==
  \A r \in Request : /\ prev[r] # None => SeenAt(prev[r], task, history)
                     /\ seen[r] # None => SeenAt(seen[r], task, history)

TrueNotice(k) == k[2] \in 1..Len(history) /\ history[k[2]] = k[1]

NoticeInv ==
  \A r \in Request :
    /\ inbox[r] # None => pc[r] \in {"record", "ok", "lost"} /\ TrueNotice(inbox[r])
    /\ pc[r] = "record" => inbox[r] = Key(seen[r])

IInv == TypeOK /\ StageInv /\ HistoryInv /\ SnapshotInv /\ NoticeInv

LEMMA InitIInv == Init => IInv
  BY InitTyped DEF Init, IInv, HistoryInv, SnapshotInv, NoticeInv

LEMMA Grown ==
  ASSUME IInv, [Next]_vars
  PROVE  /\ TypeOK' /\ StageInv' /\ HistoryInv'
         /\ Evolves
         /\ task # None => task' # None /\ task.rev <= task'.rev
         /\ \A d : SeenAt(d, task, history) => SeenAt(d, task', history')
         /\ \A n \in 1..Len(history) :
              n \in 1..Len(history') /\ history'[n] = history[n]
  BY TypedNext, TaskEvolves, HistoryGrows DEF IInv

LEMMA StepSnapshots ==
  ASSUME IInv, NEW r \in Request, Step(r)
  PROVE  SnapshotInv'
<1>1. /\ TypeOK' /\ HistoryInv'
      /\ \A d : SeenAt(d, task, history) => SeenAt(d, task', history')
  BY Grown DEF Next
<1>2. SnapshotInv /\ HistoryInv /\ TypeOK /\ StageInv
  BY DEF IInv
<1>3. ASSUME task # None PROVE SeenAt(task, task', history')
  BY <1>1, <1>2, <1>3 DEF HistoryInv
<1>4. CASE Create(r)
  <2>1. SeenAt(seen'[r], task', history')
    BY <1>1, <1>2, <1>4, CreateIsBirth, TaskIsDocument DEF HistoryInv, Born, SeenAt
  <2>2. \A q \in Request \ {r} : seen'[q] = seen[q]
    BY <1>2, <1>4 DEF Create, TypeOK
  <2>3. prev' = prev
    BY <1>4 DEF Create
  <2> QED
    BY <1>1, <1>2, <2>1, <2>2, <2>3 DEF SnapshotInv
<1>5. CASE BeginUpdate(r)
  BY <1>1, <1>2, <1>3, <1>5 DEF BeginUpdate, SnapshotInv, TypeOK
<1>6. CASE Resnapshot(r)
  BY <1>1, <1>2, <1>3, <1>6 DEF Resnapshot, SnapshotInv, TypeOK, StageInv
<1>7. CASE Reread(r)
  BY <1>1, <1>2, <1>3, <1>7 DEF Reread, Noticed, SnapshotInv, TypeOK, StageInv
<1>8. CASE UNCHANGED <<prev, seen>>
  BY <1>1, <1>2, <1>8 DEF SnapshotInv
<1> QED
  BY <1>4, <1>5, <1>6, <1>7, <1>8 DEF Step, Write, WriteMisses, CheckSent,
     Deliver, Record, Lose

\* What a request is about to send is true.
LEMMA KeysAreTrue ==
  ASSUME IInv, NEW r \in Request, pc[r] \in {"check", "deliver", "record"}
  PROVE  TrueNotice(Key(seen[r])) /\ Key(seen[r]) \in Person \X Nat
<1>1. /\ seen[r] \in Task /\ seen[r].assignee # Nobody
      /\ SeenAt(seen[r], task, history)
  BY DEF IInv, StageInv, SnapshotInv, SeenAt
<1>2. /\ task \in Task /\ Len(history) = task.rev
      /\ seen[r].rev \in Nat /\ seen[r].rev # 0 /\ seen[r].rev <= task.rev
      /\ history[seen[r].rev] = seen[r].assignee
  BY <1>1, TaskIsDocument DEF IInv, HistoryInv, SeenAt, Task
<1>3. task.rev \in Nat /\ seen[r].assignee \in Person
  BY <1>1, <1>2 DEF Task, Assignee
<1> QED
  BY <1>2, <1>3 DEF TrueNotice, Key

LEMMA StepNotices ==
  ASSUME IInv, NEW r \in Request, Step(r)
  PROVE  NoticeInv'
<1>1. \A n \in 1..Len(history) : n \in 1..Len(history') /\ history'[n] = history[n]
  BY Grown DEF Next
<1>2. NoticeInv /\ TypeOK
  BY DEF IInv
<1>a. \A k : TrueNotice(k) =>
        k[2] \in 1..Len(history') /\ history'[k[2]] = k[1]
  BY <1>1 DEF TrueNotice
<1>3. ASSUME NEW q \in Request, inbox'[q] # None, inbox'[q] = inbox[q]
      PROVE  inbox'[q][2] \in 1..Len(history') /\ history'[inbox'[q][2]] = inbox'[q][1]
  BY <1>2, <1>3, <1>a DEF NoticeInv
<1>4. CASE Deliver(r)
  <2>1. TrueNotice(Key(seen[r]))
    BY <1>4, KeysAreTrue DEF Deliver
  <2>2. /\ inbox'[r] = Key(seen[r]) /\ pc'[r] = "record" /\ seen' = seen
        /\ \A q \in Request \ {r} : inbox'[q] = inbox[q] /\ pc'[q] = pc[q]
    BY <1>2, <1>4 DEF Deliver, TypeOK, Go
  <2>3. inbox'[r][2] \in 1..Len(history') /\ history'[inbox'[r][2]] = inbox'[r][1]
    BY <1>a, <2>1, <2>2
  <2> QED
    BY <1>2, <1>3, <2>2, <2>3 DEF NoticeInv, TrueNotice, Key
<1>5. CASE ~Deliver(r)
  <2>0. inbox' = inbox
    BY <1>5 DEF Step, Create, BeginUpdate, Write, WriteMisses, Resnapshot, Reread,
       CheckSent, Record, Lose
  <2>1. \A q \in Request : pc'[q] = "record" => pc[q] = "record" /\ seen'[q] = seen[q]
    BY <1>2, <1>5 DEF Step, Create, BeginUpdate, Write, WriteMisses, Resnapshot, Reread,
       CheckSent, Deliver, Record, Lose, TypeOK, Go
  <2>2. \A q \in Request : pc[q] \in {"record", "ok", "lost"} =>
                           pc'[q] \in {"record", "ok", "lost"}
    BY <1>2 DEF Step, Create, BeginUpdate, Write, WriteMisses, Resnapshot, Reread,
       CheckSent, Deliver, Record, Lose, TypeOK, Go
  <2> QED
    BY <1>2, <1>3, <2>0, <2>1, <2>2 DEF NoticeInv, TrueNotice, Key
<1> QED
  BY <1>4, <1>5

LEMMA NextIInv == IInv /\ [Next]_vars => IInv'
<1> SUFFICES ASSUME IInv, [Next]_vars PROVE IInv'
  OBVIOUS
<1>1. TypeOK' /\ StageInv' /\ HistoryInv'
  BY Grown
<1>2. ASSUME NEW r \in Request, Step(r) PROVE SnapshotInv' /\ NoticeInv'
  BY <1>2, StepSnapshots, StepNotices
<1>3. CASE Delete \/ UNCHANGED vars
  <2>1. UNCHANGED <<history, pc, prev, seen, inbox>>
    BY <1>3 DEF Delete, vars
  <2>2. \A d : SeenAt(d, task, history) => SeenAt(d, task', history')
    BY Grown
  <2>3. SnapshotInv'
    BY <2>1, <2>2 DEF IInv, SnapshotInv
  <2>4. NoticeInv'
    BY <2>1 DEF IInv, NoticeInv, TrueNotice, Key
  <2> QED
    BY <1>1, <2>3, <2>4 DEF IInv
<1> QED
  BY <1>1, <1>2, <1>3 DEF Next, IInv

\* Whoever was sent a notice was the assignee at the revision it names.
THEOREM TrueNotices == Spec => []NoticesAreTrue
<1>1. IInv => NoticesAreTrue
  BY DEF IInv, NoticeInv, TrueNotice, NoticesAreTrue
<1> QED
  BY <1>1, InitIInv, NextIInv, PTL DEF Spec

-----------------------------------------------------------------------------
(* The last assignee is told                                               *)

Knows(k) == \E r \in Request : inbox[r] = k

SentInv == \A k \in sent : Knows(k)

\* The request that is still about to tell whoever the task is assigned to.
Telling(r) ==
  \/ pc[r] = "reread" /\ changed[r] /\ want[r] # Nobody
  \/ pc[r] \in {"check", "deliver", "record"} /\ Key(seen[r]) = Key(task)
  \/ pc[r] = "lost"

ToldInv == task # None /\ task.assignee # Nobody =>
             Knows(Key(task)) \/ \E r \in Request : Telling(r)

\* A delivered notice stays delivered.
LEMMA KnowledgeStays ==
  ASSUME IInv, [Next]_vars, NEW k \in Person \X Nat, Knows(k)
  PROVE  Knows(k)'
<1>1. PICK r \in Request : inbox[r] = k
  BY DEF Knows
<1>2. inbox[r] # None
  BY <1>1, Markers
<1>3. pc[r] # "deliver"
  BY <1>2 DEF IInv, NoticeInv
<1>4. inbox'[r] = inbox[r]
  BY <1>3 DEF Next, Step, Create, BeginUpdate, Write, WriteMisses, Resnapshot, Reread,
     CheckSent, Deliver, Record, Lose, Delete, vars, IInv, TypeOK
<1> QED
  BY <1>1, <1>4 DEF Knows

LEMMA SentIsKnown ==
  ASSUME IInv, SentInv, [Next]_vars
  PROVE  SentInv'
<1>1. \A k \in sent : Knows(k)'
  BY KnowledgeStays DEF IInv, TypeOK, SentInv
<1>2. ASSUME NEW r \in Request, Record(r) PROVE SentInv'
  <2>1. Knows(Key(seen[r]))
    BY <1>2 DEF Record, IInv, NoticeInv, Knows
  <2>2. Key(seen[r]) \in Person \X Nat
    BY <1>2, KeysAreTrue DEF Record
  <2>3. Knows(Key(seen[r]))'
    BY <1>2, <2>1 DEF Record, Knows, Key
  <2>4. \A k \in sent' : k \in sent \/ k = Key(seen[r])
    BY <1>2 DEF Record
  <2>5. seen' = seen /\ inbox' = inbox
    BY <1>2 DEF Record
  <2> QED
    BY <1>1, <2>1, <2>4, <2>5 DEF SentInv, Knows
<1>3. CASE sent' = sent
  BY <1>1, <1>3 DEF SentInv
<1> QED
  BY <1>2, <1>3 DEF Next, Step, Create, BeginUpdate, Write, WriteMisses, Resnapshot, Reread,
     CheckSent, Deliver, Record, Lose, Delete, vars

\* As long as the task keeps its assignee and revision, so does the duty to
\* tell him.
LEMMA DutyStays ==
  ASSUME IInv, SentInv, task # None, task.assignee # Nobody, Kept,
         NEW r \in Request, Step(r), NEW q \in Request, Telling(q)
  PROVE  Knows(Key(task))' \/ Telling(q)'
<1>1. Key(task') = Key(task) /\ task' \in Task /\ task \in Task
  BY TaskIsDocument DEF Kept, Key, IInv
<1>2. TypeOK /\ NoticeInv
  BY DEF IInv
<1>3. CASE q # r
  BY <1>1, <1>2, <1>3 DEF Step, Create, BeginUpdate, Write, WriteMisses, Resnapshot, Reread,
     CheckSent, Deliver, Record, Lose, Telling, TypeOK, Go, Key
<1>4. CASE q = r
  <2>0. pc[r] \in {"reread", "check", "deliver", "record", "lost"}
    BY <1>4 DEF Telling
  <2>1. CASE Reread(r)
    <3>1. changed[r] /\ want[r] # Nobody
      BY <1>4, <2>1 DEF Telling, Reread
    <3>2. pc'[r] = "check" /\ seen'[r] = task /\ task' = task
      BY <1>2, <2>1, <3>1 DEF Reread, Noticed, Resolves, TypeOK, Go
    <3> QED
      BY <1>4, <3>2 DEF Telling, Key
  <2>2. CASE CheckSent(r)
    <3>1. Key(seen[r]) = Key(task) /\ task' = task /\ seen' = seen /\ inbox' = inbox
      BY <1>4, <2>2 DEF Telling, CheckSent
    <3>2. CASE Key(seen[r]) \in sent
      BY <3>1, <3>2 DEF SentInv, Knows, Key
    <3>3. CASE Key(seen[r]) \notin sent
      <4>1. pc'[r] = "deliver"
        BY <1>2, <2>2, <3>3 DEF CheckSent, AlreadySent, TypeOK, Go
      <4> QED
        BY <1>4, <3>1, <4>1 DEF Telling, Key
    <3> QED
      BY <3>2, <3>3
  <2>3. CASE Deliver(r)
    <3>1. Key(seen[r]) = Key(task) /\ task' = task /\ seen' = seen
      BY <1>4, <2>3 DEF Telling, Deliver
    <3>2. pc'[r] = "record"
      BY <1>2, <2>3 DEF Deliver, TypeOK, Go
    <3> QED
      BY <1>4, <3>1, <3>2 DEF Telling, Key
  <2>4. CASE Record(r)
    <3>1. /\ Key(seen[r]) = Key(task) /\ inbox[r] = Key(seen[r])
          /\ task' = task /\ inbox' = inbox
      BY <1>2, <1>4, <2>4 DEF Telling, Record, NoticeInv
    <3> QED
      BY <3>1 DEF Knows, Key
  <2>5. CASE Lose(r)
    BY <1>2, <1>4, <2>5 DEF Lose, Telling, TypeOK, Go
  <2> QED
    BY <2>0, <2>1, <2>2, <2>3, <2>4, <2>5 DEF Step, Create, BeginUpdate, Write,
       WriteMisses, Resnapshot
<1> QED
  BY <1>3, <1>4

LEMMA DutyNext ==
  ASSUME IInv, SentInv, ToldInv, [Next]_vars
  PROVE  ToldInv'
<1> SUFFICES ASSUME task' # None, task'.assignee # Nobody
             PROVE  Knows(Key(task))' \/ \E q \in Request : Telling(q)'
  BY DEF ToldInv
<1>1. ASSUME task # None, task.assignee # Nobody, Key(task') = Key(task), Knows(Key(task))
      PROVE  Knows(Key(task))'
  <2>1. task \in Task
    BY <1>1, TaskIsDocument DEF IInv
  <2>2. Key(task) \in Person \X Nat
    BY <1>1, <2>1 DEF Task, Assignee, Key
  <2>3. PICK k \in Person \X Nat : k = Key(task) /\ Knows(k)
    BY <1>1, <2>2
  <2>4. Knows(k)'
    BY <2>3, KnowledgeStays
  <2> QED
    BY <1>1, <2>3, <2>4 DEF Knows, Key
<1>2. ASSUME task # None, Kept PROVE task.assignee # Nobody /\ Key(task') = Key(task)
  BY <1>2 DEF Kept, Key
<1>3. CASE Delete \/ UNCHANGED vars
  <2>1. task # None /\ Kept
    <3>1. task # None
      BY <1>3 DEF Delete, vars
    <3>2. task \in Task
      BY <3>1, TaskIsDocument DEF IInv
    <3> QED
      BY <1>3, <3>1, <3>2 DEF Delete, vars, Kept, Task
  <2>2. UNCHANGED <<pc, changed, want, seen>>
    BY <1>3 DEF Delete, vars
  <2>3. \A q \in Request : Telling(q) => Telling(q)'
    BY <1>2, <2>1, <2>2 DEF Telling, Key
  <2> QED
    BY <1>1, <1>2, <2>1, <2>3 DEF ToldInv
<1>4. ASSUME NEW r \in Request, Step(r)
      PROVE  Knows(Key(task))' \/ \E q \in Request : Telling(q)'
  <2>0. TypeOK /\ StageInv
    BY DEF IInv
  <2>1. CASE Create(r)
    <3>1. task' = seen'[r] /\ pc'[r] = "check"
      BY <2>0, <2>1, CreateIsBirth
    <3> QED
      BY <3>1 DEF Telling, Key
  <2>2. CASE Write(r) /\ WillChange(r)
    <3>1. /\ pc'[r] = "reread" /\ changed'[r] /\ want' = want
      BY <2>0, <2>2 DEF Write, TypeOK, Go
    <3>2. task'.assignee = want[r]
      <4>1. task \in Task /\ task # None
        BY <2>0, <2>2, TaskIsDocument DEF Write, StageInv
      <4> QED
        BY <2>2, <4>1 DEF Write, Task
    <3> QED
      BY <3>1, <3>2 DEF Telling
  <2>3. CASE ~Create(r) /\ ~(Write(r) /\ WillChange(r))
    <3>1. Kept
      <4>1. CASE Write(r)
        BY <2>0, <2>3, <4>1, WriteIsTransition
      <4>2. CASE UNCHANGED <<task, history>>
        BY <2>0, <4>2, TaskIsDocument DEF Kept
      <4> QED
        BY <1>4, <2>3, <4>1, <4>2 DEF Step, BeginUpdate, WriteMisses, Resnapshot, Reread,
           CheckSent, Deliver, Record, Lose
    <3>2. task # None
      BY <3>1 DEF Kept
    <3>3. \A q \in Request : Telling(q) => Knows(Key(task))' \/ Telling(q)'
      BY <1>2, <1>4, <3>1, <3>2, DutyStays
    <3> QED
      BY <1>1, <1>2, <3>1, <3>2, <3>3 DEF ToldInv
  <2> QED
    BY <1>4, <2>1, <2>2, <2>3
<1> QED
  BY <1>3, <1>4 DEF Next

\* Once every request has ended and none was lost, whoever the task is
\* assigned to has been told, however many requests raced.
THEOREM LastAssigneeIsTold == Spec => []LastAssigneeKnows
<1>1. Init => SentInv /\ ToldInv
  BY DEF Init, SentInv, ToldInv
<1>2. IInv /\ SentInv /\ ToldInv /\ [Next]_vars => (SentInv /\ ToldInv)'
  BY SentIsKnown, DutyNext
<1>3. ToldInv => LastAssigneeKnows
  BY DEF ToldInv, Knows, Telling, LastAssigneeKnows, Quiet, Ended
<1> QED
  BY <1>1, <1>2, <1>3, InitIInv, NextIInv, PTL DEF Spec

-----------------------------------------------------------------------------
(* 409 means contention                                                    *)

\* Each miss of a live task is a transition since the snapshot it was
\* pinned to.
ContentionInv ==
  \A r \in Request :
    /\ pc[r] = "new" => misses[r] = 0
    /\ pc[r] = "write" => IF prev[r] = None THEN ~task.live
                          ELSE prev[r].rev >= first[r] + misses[r]
    /\ pc[r] = "resnapshot" => ~task.live \/ task.rev >= first[r] + misses[r]
    /\ pc[r] = "conflict" => task # None /\ task.rev >= first[r] + Attempts

\* A deleted task is never written again.
LEMMA DeadStays ==
  ASSUME IInv, [Next]_vars, task # None
  PROVE  task' \in Task /\ task'.rev \in Nat /\ task.rev \in Nat /\ task.rev <= task'.rev
         /\ (~task.live => ~task'.live)
<1>1. task' # None /\ task.rev <= task'.rev /\ TypeOK'
  BY Grown
<1>2. task' \in Task /\ task \in Task
  BY <1>1, TaskIsDocument DEF IInv, TypeOK
<1>3. ~task.live => task' = task
  BY DEF Next, Step, Create, BeginUpdate, Write, WriteMatches, WriteMisses, Resnapshot,
     Reread, CheckSent, Deliver, Record, Lose, Delete, vars
<1> QED
  BY <1>1, <1>2, <1>3 DEF Task

LEMMA ContentionKept ==
  ASSUME IInv, ContentionInv, [Next]_vars, NEW q \in Request,
         UNCHANGED <<misses[q], first[q], prev[q], pc[q]>>
  PROVE  /\ pc'[q] = "new" => misses'[q] = 0
         /\ pc'[q] = "write" => IF prev'[q] = None THEN ~task'.live
                                ELSE prev'[q].rev >= first'[q] + misses'[q]
         /\ pc'[q] = "resnapshot" => ~task'.live \/ task'.rev >= first'[q] + misses'[q]
         /\ pc'[q] = "conflict" => task' # None /\ task'.rev >= first'[q] + Attempts
<1>1. misses[q] \in Nat /\ first[q] \in Nat /\ Attempts \in Nat
  BY AttemptsPositive DEF IInv, TypeOK
<1>2. CASE pc[q] \in {"write", "resnapshot", "conflict"}
  <2>1. task # None
    BY <1>2 DEF IInv, StageInv, ContentionInv
  <2>2. task' # None
    BY <2>1, Grown
  <2> QED
    BY <1>1, <2>1, <2>2, DeadStays DEF ContentionInv
<1> QED
  BY <1>2 DEF ContentionInv

LEMMA ContentionStep ==
  ASSUME IInv, ContentionInv, NEW r \in Request, Step(r)
  PROVE  ContentionInv'
<1>0. TypeOK /\ StageInv /\ SnapshotInv /\ HistoryInv
  BY DEF IInv
<1>1. /\ misses[r] \in Nat /\ first[r] \in Nat /\ Attempts \in Nat
      /\ task # None => task \in Task /\ task.rev \in Nat
      /\ prev[r] # None => prev[r] \in Task /\ prev[r].rev \in Nat
  BY <1>0, AttemptsPositive, TaskIsDocument DEF TypeOK, SnapshotInv, SeenAt, Task
<1>2. \A q \in Request \ {r} : UNCHANGED <<misses[q], first[q], prev[q], pc[q]>>
  BY <1>0 DEF Step, Create, BeginUpdate, Write, WriteMisses, Resnapshot, Reread,
     CheckSent, Deliver, Record, Lose, TypeOK, Go
<1>3. SUFFICES
        /\ pc'[r] # "new"
        /\ pc'[r] = "write" => IF prev'[r] = None THEN ~task'.live
                               ELSE prev'[r].rev >= first'[r] + misses'[r]
        /\ pc'[r] = "resnapshot" => ~task'.live \/ task'.rev >= first'[r] + misses'[r]
        /\ pc'[r] = "conflict" => task' # None /\ task'.rev >= first'[r] + Attempts
  <2>1. ASSUME NEW q \in Request \ {r}
        PROVE  /\ pc'[q] = "new" => misses'[q] = 0
               /\ pc'[q] = "write" => IF prev'[q] = None THEN ~task'.live
                                      ELSE prev'[q].rev >= first'[q] + misses'[q]
               /\ pc'[q] = "resnapshot" => ~task'.live \/ task'.rev >= first'[q] + misses'[q]
               /\ pc'[q] = "conflict" => task' # None /\ task'.rev >= first'[q] + Attempts
    BY <1>2, ContentionKept DEF Next
  <2> QED
    BY <2>1 DEF ContentionInv
<1>4. CASE BeginUpdate(r)
  BY <1>0, <1>1, <1>4 DEF BeginUpdate, ContentionInv, TypeOK, Go
<1>5. CASE WriteMisses(r)
  <2>1. /\ misses'[r] = misses[r] + 1 /\ first'[r] = first[r] /\ task' = task
        /\ pc'[r] = "resnapshot" /\ task # None
    BY <1>0, <1>5 DEF WriteMisses, TypeOK, Go, StageInv
  <2>2. CASE task.live /\ prev[r] # None
    <3>1. task.assignee # prev[r].assignee
      BY <1>5, <2>2 DEF WriteMisses, WriteMatches, PrevAssigned
    <3>2. prev[r].rev <= task.rev /\ prev[r].rev # task.rev
      BY <1>0, <1>1, <2>1, <2>2, <3>1 DEF SnapshotInv, HistoryInv, SeenAt
    <3>3. prev[r].rev >= first[r] + misses[r]
      BY <1>5, <2>2 DEF WriteMisses, ContentionInv
    <3> QED
      BY <1>1, <2>1, <2>2, <3>2, <3>3
  <2>3. CASE ~task.live \/ prev[r] = None
    BY <1>5, <2>1, <2>3 DEF WriteMisses, ContentionInv
  <2> QED
    BY <2>2, <2>3
<1>6. CASE Resnapshot(r)
  <2>1. /\ misses' = misses /\ first' = first /\ task' = task /\ task # None
        /\ prev'[r] = (IF task.live THEN task ELSE None)
        /\ pc'[r] = IF ~task.live THEN "missing"
                    ELSE IF Exhausted(r) THEN "conflict" ELSE "write"
    BY <1>0, <1>6 DEF Resnapshot, TypeOK, Go, StageInv
  <2>2. ~task.live \/ task.rev >= first[r] + misses[r]
    BY <1>6 DEF Resnapshot, ContentionInv
  <2> QED
    BY <1>1, <2>1, <2>2 DEF Exhausted
<1>7. CASE ~(BeginUpdate(r) \/ WriteMisses(r) \/ Resnapshot(r))
  <2>1. pc'[r] \in {"ok", "check", "reread", "deliver", "record", "lost"}
    BY <1>0, <1>7 DEF Step, Create, Write, Reread, CheckSent, Deliver, Record, Lose,
       TypeOK, Go
  <2> QED
    BY <2>1
<1> QED
  BY <1>4, <1>5, <1>6, <1>7

\* A PUT is refused with 409 only when others made as many transitions
\* during it as it had attempts.
THEOREM ConflictIsContention == Spec => []ConflictMeansContention
<1>1. Init => ContentionInv
  BY DEF Init, ContentionInv
<1>2. IInv /\ ContentionInv /\ [Next]_vars => ContentionInv'
  <2> SUFFICES ASSUME IInv, ContentionInv, [Next]_vars PROVE ContentionInv'
    OBVIOUS
  <2>1. CASE Delete \/ UNCHANGED vars
    <3>1. \A q \in Request : UNCHANGED <<misses[q], first[q], prev[q], pc[q]>>
      BY <2>1 DEF Delete, vars
    <3> QED
      BY <3>1, ContentionKept DEF ContentionInv
  <2> QED
    BY <2>1, ContentionStep DEF Next
<1>3. ContentionInv => ConflictMeansContention
  BY DEF ContentionInv, ConflictMeansContention
<1> QED
  BY <1>1, <1>2, <1>3, InitIInv, NextIInv, PTL DEF Spec
=============================================================================
