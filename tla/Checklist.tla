----------------------------- MODULE Checklist -----------------------------
(***************************************************************************)
(* PromotionChecklist: the items of a project, with a box for the team's   *)
(* side and one for the partner's.  A click sends which box to turn over,  *)
(* not what it shall be; the backend reads the box and writes the opposite *)
(* in two steps.  The checklist itself is made by whoever asks first.      *)
(***************************************************************************)
EXTENDS Loads

CONSTANT Item

Sides == {"internal", "partner"}
Doc == [Sides -> BOOLEAN]
List == [Item -> Doc \cup {None}]
Undone == [s \in Sides |-> FALSE]
Parts == {"rows"}

\* The default channels.
Defaults == {[i \in Item |-> IF i \in d THEN Undone ELSE None] : d \in (SUBSET Item) \ {{}}}

Init ==
  /\ page = "checklist"
  /\ server \in {None} \cup Defaults
  /\ ui = [rows |-> None, adding |-> FALSE, loads |-> 1, newest |-> 0]
  /\ calls = {Load(1, Parts)}
  /\ made = 0
  /\ faults = 0
  /\ clean = TRUE

Listed == IF ui.rows = None THEN {} ELSE {i \in Item : ui.rows[i] # None}

Turning(i, s) == {c \in calls : c.op = "toggle" /\ c.item = i /\ c.prev = s}

-----------------------------------------------------------------------------
(* Handlers                                                                *)

\* The label of a box says what a click does.  Nothing keeps the user from
\* clicking while the box is turned over or loaded: clean excludes it.
Toggle(i, s) ==
  /\ i \in Listed
  /\ Start(0, i, "toggle", ~ui.rows[i][s], s)
  /\ clean' = (clean /\ Turning(i, s) = {} /\ ~Waiting(None, {"list"}))
  /\ UNCHANGED <<page, server, ui, faults>>

ShowAdd ==
  /\ ui' = [ui EXCEPT !.adding = ~@]
  /\ UNCHANGED <<page, server, calls, made, faults, clean>>

\* Its button is not disabled meanwhile: two clicks add two items.
Add ==
  /\ ui.adding
  /\ Start(0, None, "add", None, None)
  /\ UNCHANGED <<page, server, ui, faults, clean>>

Done(c) ==
  /\ c.op \in {"toggle", "add"} /\ c.at = "ok"
  /\ EndsAndLoads(c, 1, Parts)
  /\ ui' = [ui EXCEPT !.loads = @ + 1, !.adding = @ /\ c.op = "toggle"]
  /\ UNCHANGED <<page, server, made, faults, clean>>

Fails(c) ==
  /\ c.op \in {"toggle", "add"} /\ c.at = "no"
  /\ Ends(c)
  /\ UNCHANGED <<page, server, ui, made, faults, clean>>

Arrives(c) == Loaded(c, [ui EXCEPT !.rows = c.answer["rows"]])

-----------------------------------------------------------------------------
(* The server                                                              *)

\* _get_or_create_checklist: nothing is found ...
FindNone(c) ==
  /\ server = None
  /\ c.op \in {"list", "add"} /\ c.at = "out"
  /\ Replace(c, [c EXCEPT !.at = "creating"])
  /\ UNCHANGED <<page, server, ui, made, faults, clean>>

\* ... and the defaults are inserted, unless another request was faster: the
\* index on the project refuses the second checklist.
Create(c) ==
  /\ c.at = "creating"
  /\ IF server # None
       THEN Refused(c, None) /\ UNCHANGED server
       ELSE \E d \in Defaults :
              /\ server' = d
              /\ IF c.op = "list" THEN Answered(c, [rows |-> d])
                                  ELSE Replace(c, [c EXCEPT !.at = "found"])
  /\ UNCHANGED <<page, ui, made, faults, clean>>

Find(c) ==
  /\ server # None
  /\ c.at = "out"
  /\ \/ ReadPart(c, "rows", server)
     \/ c.op = "add" /\ Replace(c, [c EXCEPT !.at = "found"])
     \/ /\ c.op = "toggle"
        /\ Replace(c, [c EXCEPT !.at = "read", !.answer = ~server[c.item][c.prev]])
  /\ UNCHANGED <<page, server, ui, made, faults, clean>>

\* toggle_item writes the opposite of what it read.
Turn(c) ==
  /\ c.at = "read"
  /\ server' = [server EXCEPT ![c.item][c.prev] = c.answer]
  /\ Answered(c, None)
  /\ UNCHANGED <<page, ui, made, faults, clean>>

\* A new item takes a place that is free; there is one, or the run ends here.
Push(c) ==
  /\ c.at = "found"
  /\ \E i \in Item :
       /\ server[i] = None
       /\ server' = [server EXCEPT ![i] = Undone]
  /\ Answered(c, None)
  /\ UNCHANGED <<page, ui, made, faults, clean>>

Refuse(c) ==
  /\ c.at \in {"out", "creating", "read", "found"}
  /\ Fault(c)
  /\ UNCHANGED <<page, server, ui, made, clean>>

-----------------------------------------------------------------------------
User ==
  \/ \E i \in Item, s \in Sides : Toggle(i, s)
  \/ ShowAdd \/ Add

Next ==
  \/ User
  \/ \E c \in calls :
       \/ FindNone(c) \/ Create(c) \/ Find(c) \/ Turn(c) \/ Push(c) \/ Refuse(c)
       \/ Arrives(c) \/ LoadFails(c) \/ Done(c) \/ Fails(c)

Spec == Init /\ [][Next]_vars

-----------------------------------------------------------------------------
(* Properties                                                              *)

\* Every variable keeps its type.
TypeOK ==
  /\ page = "checklist"
  /\ server \in List \cup {None}
  /\ ui.rows \in List \cup {None}
  /\ {ui.adding, clean} \subseteq BOOLEAN
  /\ ui.newest \in 0..ui.loads
  /\ made \in 0..MaxCalls[page] /\ faults \in 0..MaxFaults

\* Once everything is answered, the boxes are the server's.  Excluded (clean):
\* loads that failed or were shown after later ones.
ChecklistSettles == calls = {} /\ clean => ui.rows = server

\* A click does what the label of its box said, although it only asks for the
\* opposite.  Excluded (clean): boxes that were being turned over or loaded, or
\* that a failed load had left as they were.
TurnsAsLabelled ==
  \A c \in calls :
    clean /\ c.op = "toggle" /\ c.at = "ok" => server[c.item][c.prev] = c.value
=============================================================================
