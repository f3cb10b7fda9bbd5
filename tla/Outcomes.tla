------------------------------ MODULE Outcomes ------------------------------
(***************************************************************************)
(* OutcomeTracker: the attendees of a project, each with a status, and the *)
(* funnel that counts them.  Attendees are added one by one or in bulk; a  *)
(* status that would go back in the funnel comes back with a warning and   *)
(* is sent again, by force, when the user confirms.  What is typed is left *)
(* out.                                                                    *)
(***************************************************************************)
EXTENDS Loads, FiniteSets

CONSTANT Item

\* OUTCOME_FUNNEL_ORDER; "lost" is outside the order.
Rank == [attended |-> 0, contacted |-> 1, consultation |-> 2, converted |-> 3]
Statuses == DOMAIN Rank \cup {"lost"}
List == [Item -> Statuses \cup {None}]

Backward(old, new) ==
  {old, new} \subseteq DOMAIN Rank /\ Rank[new] < Rank[old]

Funnel(list) == [s \in Statuses |-> Cardinality({i \in Item : list[i] = s})]

Parts == {"rows", "funnel"}

Init ==
  /\ page = "outcomes"
  /\ server \in [Item -> {"contacted", None}]
  /\ ui = [rows |-> None, funnel |-> None, warning |-> None, quick |-> FALSE,
           bulk |-> None, adding |-> FALSE, quickAdding |-> FALSE,
           loads |-> 1, newest |-> 0]
  /\ calls = {Load(1, Parts)}
  /\ made = 0
  /\ faults = 0
  /\ clean = TRUE

Listed == IF ui.rows = None THEN {} ELSE {i \in Item : ui.rows[i] # None}

\* Dialogs are modal.
Behind == ui.warning = None /\ ui.bulk = None

Changing(i) == {c \in calls : c.op \in {"put", "force"} /\ c.item = i}

-----------------------------------------------------------------------------
(* A status                                                                *)

\* Nothing keeps the user from changing a status whose change is under way:
\* clean excludes it.
Change(i, s) ==
  /\ Behind
  /\ i \in Listed /\ s # ui.rows[i]
  /\ Start(0, i, "put", s, None)
  /\ clean' = (clean /\ Changing(i) = {})
  /\ UNCHANGED <<page, server, ui, faults>>

\* The dialog of one warning replaces another's.
Warned(c) ==
  /\ c.at = "warn"
  /\ ui' = [ui EXCEPT !.warning = [item |-> c.item, from |-> c.answer, to |-> c.value]]
  /\ Ends(c)
  /\ UNCHANGED <<page, server, made, faults, clean>>

CancelWarning ==
  /\ ui.warning # None
  /\ ui' = [ui EXCEPT !.warning = None]
  /\ UNCHANGED <<page, server, calls, made, faults, clean>>

\* The dialog stays until the answer, and its button stays enabled.
Confirm ==
  /\ ui.warning # None
  /\ Start(0, ui.warning.item, "force", ui.warning.to, ui.warning.from)
  /\ clean' = (clean /\ Changing(ui.warning.item) = {})
  /\ UNCHANGED <<page, server, ui, faults>>

\* handleForceTransition loads once more than the handler it calls.
Changed(c) ==
  /\ c.op \in {"put", "force"} /\ c.at = "ok"
  /\ LET n == IF c.op = "force" THEN 2 ELSE 1
     IN  /\ EndsAndLoads(c, n, Parts)
         /\ ui' = [ui EXCEPT !.loads = @ + n,
                             !.warning = IF c.op = "force" THEN None ELSE @]
  /\ UNCHANGED <<page, server, made, faults, clean>>

\* The failure was caught inside, so a forced change ends as if it were done.
ChangeFails(c) ==
  /\ c.op \in {"put", "force"} /\ c.at = "no"
  /\ IF c.op = "force"
       THEN /\ EndsAndLoads(c, 1, Parts)
            /\ ui' = [ui EXCEPT !.loads = @ + 1, !.warning = None]
       ELSE Ends(c) /\ UNCHANGED ui
  /\ UNCHANGED <<page, server, made, faults, clean>>

-----------------------------------------------------------------------------
(* Attendees                                                               *)

Edits(u) == ui' = u /\ UNCHANGED <<page, server, calls, made, faults, clean>>

ToggleQuick == Behind /\ Edits([ui EXCEPT !.quick = ~@])
OpenBulk == Behind /\ Edits([ui EXCEPT !.bulk = "text"])
Preview == ui.warning = None /\ ui.bulk = "text" /\ Edits([ui EXCEPT !.bulk = "preview"])
BackToText == ui.warning = None /\ ui.bulk = "preview" /\ Edits([ui EXCEPT !.bulk = "text"])
CloseBulk == ui.warning = None /\ ui.bulk # None /\ Edits([ui EXCEPT !.bulk = None])

QuickAdd ==
  /\ Behind
  /\ ui.quick /\ ~ui.quickAdding
  /\ ui' = [ui EXCEPT !.quickAdding = TRUE]
  /\ Start(0, None, "quick", None, None)
  /\ UNCHANGED <<page, server, faults, clean>>

BulkAdd ==
  /\ ui.warning = None
  /\ ui.bulk = "preview" /\ ~ui.adding
  /\ ui' = [ui EXCEPT !.adding = TRUE]
  /\ Start(0, None, "bulk", None, None)
  /\ UNCHANGED <<page, server, faults, clean>>

\* The answer closes what is open by then.
Added(c) ==
  /\ c.op \in {"quick", "bulk"} /\ c.at = "ok"
  /\ EndsAndLoads(c, 1, Parts)
  /\ ui' = IF c.op = "quick"
             THEN [ui EXCEPT !.loads = @ + 1, !.quick = FALSE, !.quickAdding = FALSE]
             ELSE [ui EXCEPT !.loads = @ + 1, !.bulk = None, !.adding = FALSE]
  /\ UNCHANGED <<page, server, made, faults, clean>>

AddFails(c) ==
  /\ c.op \in {"quick", "bulk"} /\ c.at = "no"
  /\ Ends(c)
  /\ ui' = IF c.op = "quick" THEN [ui EXCEPT !.quickAdding = FALSE]
                             ELSE [ui EXCEPT !.adding = FALSE]
  /\ UNCHANGED <<page, server, made, faults, clean>>

Arrives(c) == Loaded(c, [ui EXCEPT !.rows = c.answer["rows"], !.funnel = c.answer["funnel"]])

-----------------------------------------------------------------------------
(* The server                                                              *)

ServeLoad(c) ==
  /\ \/ ReadPart(c, "rows", server)
     \/ ReadPart(c, "funnel", Funnel(server))
  /\ UNCHANGED server

\* update_outcome compares with what it reads ...
ReadStatus(c) ==
  /\ c.op \in {"put", "force"}
  /\ IF c.op = "put" /\ Backward(server[c.item], c.value)
       THEN Replace(c, [c EXCEPT !.at = "warn", !.answer = server[c.item]])
       ELSE Replace(c, [c EXCEPT !.at = "read"])
  /\ UNCHANGED server

\* ... and writes after another await.
WriteStatus(c) ==
  /\ c.at = "read"
  /\ server' = [server EXCEPT ![c.item] = c.value]
  /\ Answered(c, None)
  /\ UNCHANGED <<page, ui, made, faults, clean>>

\* New attendees take places that are free; there are some, or the run ends.
Insert(c) ==
  /\ c.op \in {"quick", "bulk"}
  /\ \E new \in (SUBSET {i \in Item : server[i] = None}) \ {{}} :
       /\ c.op = "quick" => Cardinality(new) = 1
       /\ server' = [i \in Item |-> IF i \in new THEN "attended" ELSE server[i]]
  /\ Answered(c, None)

Serve(c) ==
  /\ c.at = "out"
  /\ ServeLoad(c) \/ ReadStatus(c) \/ Insert(c)
  /\ UNCHANGED <<page, ui, made, faults, clean>>

Refuse(c) ==
  /\ c.at \in {"out", "read"}
  /\ Fault(c)
  /\ UNCHANGED <<page, server, ui, made, clean>>

-----------------------------------------------------------------------------
User ==
  \/ \E i \in Item, s \in Statuses : Change(i, s)
  \/ CancelWarning \/ Confirm
  \/ ToggleQuick \/ OpenBulk \/ Preview \/ BackToText \/ CloseBulk
  \/ QuickAdd \/ BulkAdd

Next ==
  \/ User
  \/ \E c \in calls :
       \/ Serve(c) \/ WriteStatus(c) \/ Refuse(c) \/ Arrives(c) \/ LoadFails(c)
       \/ Warned(c) \/ Changed(c) \/ ChangeFails(c) \/ Added(c) \/ AddFails(c)

Spec == Init /\ [][Next]_vars

-----------------------------------------------------------------------------
(* Properties                                                              *)

Warning == [item : Item, from : DOMAIN Rank, to : DOMAIN Rank]

\* Every variable keeps its type.
TypeOK ==
  /\ page = "outcomes"
  /\ server \in List
  /\ ui.rows \in List \cup {None}
  /\ ui.funnel = None \/ \A s \in Statuses : ui.funnel[s] \in 0..Cardinality(Item)
  /\ ui.warning \in Warning \cup {None}
  /\ ui.bulk \in {"text", "preview", None}
  /\ {ui.quick, ui.adding, ui.quickAdding, clean} \subseteq BOOLEAN
  /\ ui.newest \in 0..ui.loads
  /\ made \in 0..MaxCalls[page] /\ faults \in 0..MaxFaults

\* Once everything is answered, the rows are the server's and the funnel, which
\* is read beside them, counts the same attendees.  Excluded (clean): loads that
\* failed or were shown after later ones.
OutcomesSettle ==
  calls = {} /\ clean => ui.rows = server /\ ui.funnel = Funnel(server)

\* The dialog names the status from which the attendee would go back, and so
\* does a change that is forced.  Excluded (clean): two changes of one attendee
\* at once.
ForcedBackAsShown ==
  clean =>
    /\ ui.warning # None => \/ server[ui.warning.item] = ui.warning.from
                            \/ Changing(ui.warning.item) # {}
    /\ \A c \in calls : c.op = "force" /\ c.at \in {"out", "read"} => server[c.item] = c.prev

\* What keeps a button disabled waits for an answer, and the rows of one click
\* are inserted once.
AddsOnce ==
  \A op \in {"quick", "bulk"} :
    /\ (IF op = "quick" THEN ui.quickAdding ELSE ui.adding) => \E c \in calls : c.op = op
    /\ \A c, d \in calls : c.op = op /\ d.op = op => c = d
=============================================================================
