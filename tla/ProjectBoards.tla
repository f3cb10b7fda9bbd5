--------------------------- MODULE ProjectBoards ---------------------------
(***************************************************************************)
(* Three boards with columns: the staff's projects by phase, the tasks of  *)
(* a project by phase, and the partner's tasks by status.  The staff's     *)
(* boards show what was fetched; a forward drag of a project goes through  *)
(* the phase gate, which may ask before it is forced.  The partner's board *)
(* shows a drag at once, from a copy of the list that every fetch replaces.*)
(***************************************************************************)
EXTENDS Lists

CONSTANTS
  Item,
  Last      \* the last column

Lane == 1..Last
List == [Item -> Lane \cup {None}]

Staff == page \in {"projects", "project"}

\* The items a user can drag, and the column each is drawn in.
Drawn(i) == IF ui.board = None THEN None ELSE ui.board[i]

Init ==
  /\ page \in {"projects", "project", "portal board"}
  /\ server \in {f \in List : \E i \in Item : f[i] # None}
  /\ ui = [shown |-> None, board |-> None, failed |-> FALSE, gate |-> None,
           pending |-> {}, rows |-> FALSE, adding |-> None]
  /\ calls = {Fetch(None)}
  /\ made = 0
  /\ faults = 0
  /\ clean = TRUE

\* The effect of PortalTaskBoard runs when the data changed; SWR keeps the
\* old data if the new is equal.
Fills(list) ==
  IF list = ui.shown THEN ui ELSE [ui EXCEPT !.shown = list, !.board = list]

Arrives(c) == ListArrives(c, Fills(c.answer))

Moves == {"move", "toggle", "advance", "force", "delete", "add"}

\* What a handler meets that started while another one was under way.
Alone(i) ==
  ~\E c \in calls : c.op \in Moves /\ (c.item = i \/ page = "portal board")

Ask(i, op, value, prev) ==
  /\ Start(0, i, op, value, prev)
  /\ clean' = (clean /\ Alone(i))

-----------------------------------------------------------------------------
(* The staff's boards                                                      *)

\* A drag to the next phase asks to advance; any other sets the phase.  What
\* is complete (the last phase) is shown apart and cannot be dragged.
DropProject(i, l) ==
  /\ page = "projects" /\ ui.gate = None
  /\ Drawn(i) \in 1..(Last - 1) /\ l \in 1..(Last - 1) \ {Drawn(i)}
  /\ Ask(i, IF l = Drawn(i) + 1 THEN "advance" ELSE "move", l, Drawn(i))
  /\ UNCHANGED <<page, server, ui, faults>>

\* The server found open tasks: the dialog shows what it said.
Warned(c) ==
  /\ c.op = "advance" /\ c.at = "warn"
  /\ ui' = [ui EXCEPT !.gate = c.answer]
  /\ Ends(c)
  /\ UNCHANGED <<page, server, made, faults, clean>>

\* Advance Anyway, which stays enabled until the first answer.
ForceAdvance ==
  /\ ui.gate # None
  /\ Ask(ui.gate.item, "force", ui.gate.to, ui.gate.from)
  /\ UNCHANGED <<page, server, ui, faults>>

CancelGate ==
  /\ ui.gate # None
  /\ ui' = [ui EXCEPT !.gate = None]
  /\ UNCHANGED <<page, server, calls, made, faults, clean>>

\* A drag in a project, and the card's own menus.
DropTask(i, l) ==
  /\ page = "project"
  /\ Drawn(i) # None /\ l # Drawn(i)
  /\ Ask(i, "move", l, Drawn(i))
  /\ UNCHANGED <<page, server, ui, faults>>

DeleteTask(i) ==
  /\ page = "project"
  /\ Drawn(i) # None
  /\ Ask(i, "delete", None, Drawn(i))
  /\ UNCHANGED <<page, server, ui, faults>>

\* Each column has a form of its own; Enter submits it while it is busy, too.
AddTask(i, l) ==
  /\ page = "project"
  /\ ui.shown # None /\ Drawn(i) = None
  /\ ~\E c \in calls : c.op = "add" /\ c.item = i
  /\ ui' = [ui EXCEPT !.adding = made]
  /\ Ask(i, "add", l, None)
  /\ UNCHANGED <<page, server, faults>>

Done(c) ==
  [ui EXCEPT !.gate = IF c.op = "force" THEN None ELSE @,
             !.adding = IF c.op = "add" THEN None ELSE @]

StaffDone(c) ==
  /\ Staff /\ c.op \in Moves /\ c.at = "ok"
  /\ ui' = Done(c)
  /\ EndsAndFetches(c)
  /\ UNCHANGED <<page, server, made, faults, clean>>

StaffFails(c) ==
  /\ Staff /\ c.op \in Moves /\ c.at = "no"
  /\ ui' = Done(c)
  /\ Ends(c)
  /\ UNCHANGED <<page, server, made, faults, clean>>

-----------------------------------------------------------------------------
(* The partner's tasks                                                     *)

\* The board is mounted anew; what an old one's handlers do to it is lost.
SwitchView ==
  /\ page = "portal board" /\ ui.shown # None
  /\ ui' = [ui EXCEPT !.rows = ~@, !.board = ui.shown]
  /\ calls' = {[c EXCEPT !.inst = None] : c \in calls}
  /\ UNCHANGED <<page, server, made, faults, clean>>

\* handleDragEnd: the handler captures the list as it was rendered.
DragTask(i, l) ==
  /\ page = "portal board" /\ ~ui.rows
  /\ i \notin ui.pending
  /\ Drawn(i) # None /\ l # Drawn(i)
  /\ ui' = [ui EXCEPT !.board[i] = l, !.pending = @ \cup {i}]
  /\ Ask(i, "move", l, ui.shown)
  /\ UNCHANGED <<page, server, faults>>

\* A task whose change is still being saved snaps back, and all others too.
DragPending(i) ==
  /\ page = "portal board" /\ ~ui.rows
  /\ i \in ui.pending
  /\ ui' = [ui EXCEPT !.board = ui.shown]
  /\ UNCHANGED <<page, server, calls, made, faults, clean>>

ToggleTask(i) ==
  /\ page = "portal board" /\ ui.rows
  /\ i \notin ui.pending
  /\ Drawn(i) # None
  /\ ui' = [ui EXCEPT !.pending = @ \cup {i}]
  /\ Ask(i, "toggle", IF Drawn(i) = Last THEN 1 ELSE Last, None)
  /\ UNCHANGED <<page, server, faults>>

\* refreshTasks: the list is fetched, and once it is there the workspace.
PortalSaved(c) ==
  /\ ~Staff /\ c.op \in Moves /\ c.step = 1 /\ c.at = "ok"
  /\ calls' = Refetching((calls \ {c}) \cup {[c EXCEPT !.step = 2, !.at = "waits"]})
  /\ UNCHANGED <<page, server, ui, made, faults, clean>>

PortalListed(c) ==
  /\ c.at = "waits"
  /\ ~\E d \in calls : Latest(d)
  /\ Replace(c, [c EXCEPT !.at = "out"])
  /\ UNCHANGED <<page, server, ui, made, faults, clean>>

\* Fetches do not raise; either way the task is free again.
PortalRefreshed(c) ==
  /\ ~Staff /\ c.op \in Moves /\ c.step = 2 /\ c.at \in {"ok", "no"}
  /\ ui' = [ui EXCEPT !.pending = @ \ {c.item}]
  /\ Ends(c)
  /\ UNCHANGED <<page, server, made, faults, clean>>

RollsBack(c) == c.op = "move" /\ c.inst # None

\* The board goes back to the list that was captured, though a newer one may
\* have been fetched since.
PortalFails(c) ==
  /\ ~Staff /\ c.op \in Moves /\ c.step = 1 /\ c.at = "no"
  /\ ui' = [ui EXCEPT !.pending = @ \ {c.item},
                      !.board = IF RollsBack(c) THEN c.prev ELSE @]
  /\ Ends(c)
  /\ clean' = (clean /\ (RollsBack(c) => c.prev = ui.shown))
  /\ UNCHANGED <<page, server, made, faults>>

-----------------------------------------------------------------------------
(* The server                                                              *)

Next1(c) ==
  CASE c.op \in {"advance", "force"} -> server[c.item] + 1
    [] c.op = "delete" -> None
    [] OTHER -> c.value

Missing(c) ==
  \/ c.op \in Moves \ {"add"} /\ server[c.item] = None
  \/ c.op \in {"advance", "force"} /\ server[c.item] = Last

\* The gate of the backend, modelled in ProjectPhase: there may be open tasks.
Gate(c) ==
  /\ c.op = "advance"
  /\ Replace(c, [c EXCEPT !.at = "warn",
                          !.answer = [item |-> c.item, from |-> server[c.item],
                                      to |-> server[c.item] + 1]])
  /\ UNCHANGED server

Serve(c) ==
  /\ c.at = "out"
  /\ \/ Listing(c, server)
     \/ c.op # "list" /\ c.step = 2 /\ Answered(c, None) /\ UNCHANGED server
     \/ /\ c.op # "list" /\ c.step = 1 /\ ~Missing(c)
        /\ \/ Gate(c)
           \/ Answered(c, Next1(c)) /\ server' = [server EXCEPT ![c.item] = Next1(c)]
  /\ UNCHANGED <<page, ui, made, faults, clean>>

Refuse(c) ==
  /\ c.at = "out"
  /\ \/ c.step = 1 /\ Missing(c) /\ Refused(c, None) /\ UNCHANGED faults
     \/ Fault(c)
  /\ UNCHANGED <<page, server, ui, made, clean>>

-----------------------------------------------------------------------------
User ==
  \/ Retry \/ ForceAdvance \/ CancelGate \/ SwitchView
  \/ \E i \in Item : \/ DeleteTask(i) \/ ToggleTask(i) \/ DragPending(i)
                     \/ \E l \in Lane : \/ DropProject(i, l) \/ DropTask(i, l)
                                        \/ AddTask(i, l) \/ DragTask(i, l)

Next ==
  \/ User
  \/ \E c \in calls :
       \/ Serve(c) \/ Refuse(c) \/ Arrives(c) \/ ListFails(c)
       \/ Warned(c) \/ StaffDone(c) \/ StaffFails(c)
       \/ PortalSaved(c) \/ PortalListed(c) \/ PortalRefreshed(c) \/ PortalFails(c)

Spec == Init /\ [][Next]_vars

-----------------------------------------------------------------------------
(* Properties                                                              *)

Ui == [shown : List \cup {None}, board : List \cup {None}, failed : BOOLEAN,
       gate : [item : Item, from : Lane, to : Lane] \cup {None},
       pending : SUBSET Item, rows : BOOLEAN, adding : Nat \cup {None}]

\* Every variable keeps its type.
TypeOK ==
  /\ page \in {"projects", "project", "portal board"}
  /\ server \in List
  /\ ui \in Ui
  /\ \A c \in calls : c.op \in Moves \cup {"list"}
  /\ made \in 0..MaxCalls[page] /\ faults \in 0..MaxFaults
  /\ clean \in BOOLEAN

\* Once everything is answered, every item is drawn where the server has it,
\* unless the last fetch failed.
BoardSettles == calls = {} => ui.board = server \/ ui.failed

\* So it is if the partner drags one task at a time, and not while a list is
\* fetched (clean).
BoardCatchesUp == clean => BoardSettles

\* A task that cannot be changed waits for an answer, and so does the form of
\* a column.
NoStuckTask ==
  /\ \A i \in ui.pending : \E c \in calls : c.item = i /\ c.op \in Moves
  /\ ui.adding # None => \E c \in calls : c.op = "add"

\* Who forces an advance gets the phase that the dialog named ("Advance to ...
\* anyway?").
AdvancesAsTold == \A c \in calls : c.op = "force" /\ c.at = "ok" => c.answer = c.value

\* So it is if the button is not pressed twice.
ForcedOnce == clean => AdvancesAsTold
=============================================================================
