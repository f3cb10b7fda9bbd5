------------------------------ MODULE Webhooks ------------------------------
(***************************************************************************)
(* The page of webhook subscriptions.  The signing secret of one is shown  *)
(* once, when it was created or rotated.  A secret is the number of the    *)
(* call that made it.                                                      *)
(***************************************************************************)
EXTENDS Requests

CONSTANT Item

\* A subscription is not created yet (0), has a secret, or is deleted (None).
Live == {i \in Item : server[i] \notin {0, None}}

Init ==
  /\ page = "webhooks"
  /\ server \in [Item -> {0, 1}]
  /\ ui = [listed |-> Live, failed |-> FALSE,
           create |-> FALSE, draft |-> None, creating |-> FALSE, created |-> None,
           rotating |-> None, for |-> None, rotated |-> None]
  /\ calls = {}
  /\ made = 0
  /\ faults = 0
  /\ clean = TRUE

Fetching == \E c \in calls : c.op = "list"

EndsAndFetches(c) ==
  /\ calls' = (calls \ {c}) \cup {Fetch(None)}
  /\ clean' = (clean /\ ~Fetching)

ListArrives(c) ==
  /\ c.op = "list" /\ c.at # "out"
  /\ ui' = [ui EXCEPT !.listed = IF c.at = "ok" THEN c.answer ELSE @, !.failed = c.at = "no"]
  /\ Ends(c)
  /\ UNCHANGED <<page, server, made, faults, clean>>

Behind == ~ui.create /\ ui.rotated = None

-----------------------------------------------------------------------------
OpenCreate ==
  /\ Behind
  /\ ui' = [ui EXCEPT !.create = TRUE]
  /\ UNCHANGED <<page, server, calls, made, faults, clean>>

\* Escape and Done forget the secret; Cancel is not rendered beside one.
CloseCreate ==
  /\ ui.create
  /\ ui' = [ui EXCEPT !.create = FALSE, !.created = None]
  /\ UNCHANGED <<page, server, calls, made, faults, clean>>

\* The URL and the events of a new subscription.
Fill(i) ==
  /\ ui.create /\ ui.created = None
  /\ i # ui.draft
  /\ ui' = [ui EXCEPT !.draft = i]
  /\ UNCHANGED <<page, server, calls, made, faults, clean>>

Create ==
  /\ ui.create /\ ui.created = None /\ ~ui.creating
  /\ ui.draft # None /\ server[ui.draft] = 0
  /\ ui' = [ui EXCEPT !.creating = TRUE]
  /\ Start(0, ui.draft, "create", made + 2, None)
  /\ UNCHANGED <<page, server, faults, clean>>

\* The dialog may be closed by now: then the secret waits in it.
Created(c) ==
  /\ c.op = "create" /\ c.at = "ok"
  /\ ui' = [ui EXCEPT !.created = c.value, !.draft = None, !.creating = FALSE]
  /\ EndsAndFetches(c)
  /\ UNCHANGED <<page, server, made, faults>>

CreateFails(c) ==
  /\ c.op = "create" /\ c.at = "no"
  /\ ui' = [ui EXCEPT !.creating = FALSE]
  /\ Ends(c)
  /\ UNCHANGED <<page, server, made, faults, clean>>

-----------------------------------------------------------------------------
Rotating == \E c \in calls : c.op = "rotate"

\* After a question that blocks the page.  Only the subscription rotated last
\* is disabled.
Rotate(i) ==
  /\ Behind
  /\ i \in ui.listed /\ i # ui.rotating
  /\ ui' = [ui EXCEPT !.rotating = i]
  /\ Start(0, i, "rotate", made + 2, None)
  /\ clean' = (clean /\ ~\E c \in calls : c.op = "rotate" /\ c.item = i)
  /\ UNCHANGED <<page, server, faults>>

Rotated(c) ==
  /\ c.op = "rotate" /\ c.at # "out"
  /\ ui' = [ui EXCEPT !.rotating = None,
                      !.rotated = IF c.at = "ok" THEN c.value ELSE @,
                      !.for = IF c.at = "ok" THEN c.item ELSE @]
  /\ Ends(c)
  /\ UNCHANGED <<page, server, made, faults, clean>>

Dismiss ==
  /\ ui.rotated # None
  /\ ui' = [ui EXCEPT !.rotated = None, !.for = None]
  /\ UNCHANGED <<page, server, calls, made, faults, clean>>

Delete(i) ==
  /\ Behind
  /\ i \in ui.listed
  /\ UNCHANGED ui
  /\ Start(0, i, "delete", None, None)
  /\ UNCHANGED <<page, server, faults, clean>>

Deleted(c) ==
  /\ c.op = "delete" /\ c.at # "out"
  /\ IF c.at = "ok" THEN EndsAndFetches(c) ELSE Ends(c) /\ UNCHANGED clean
  /\ UNCHANGED <<page, server, ui, made, faults>>

-----------------------------------------------------------------------------
(* The server                                                              *)

Missing(c) == c.op \in {"rotate", "delete"} /\ c.item \notin Live

Serve(c) ==
  /\ c.at = "out" /\ ~Missing(c)
  /\ IF c.op = "list"
       THEN Answered(c, Live) /\ UNCHANGED server
       ELSE Answered(c, None) /\ server' = [server EXCEPT ![c.item] = c.value]
  /\ UNCHANGED <<page, ui, made, faults, clean>>

Refuse(c) ==
  /\ c.at = "out"
  /\ \/ Missing(c) /\ Refused(c, None) /\ UNCHANGED faults
     \/ Fault(c)
  /\ UNCHANGED <<page, server, ui, made, clean>>

-----------------------------------------------------------------------------
Next ==
  \/ OpenCreate \/ CloseCreate \/ Create \/ Dismiss
  \/ \E i \in Item : Fill(i) \/ Rotate(i) \/ Delete(i)
  \/ \E c \in calls :
       \/ Serve(c) \/ Refuse(c) \/ ListArrives(c) \/ Created(c) \/ CreateFails(c)
       \/ Rotated(c) \/ Deleted(c)

Spec == Init /\ [][Next]_vars

-----------------------------------------------------------------------------
(* Properties                                                              *)

Ui == [listed : SUBSET Item, failed : BOOLEAN, create : BOOLEAN,
       draft : Item \cup {None}, creating : BOOLEAN, created : Nat \cup {None},
       rotating : Item \cup {None}, for : Item \cup {None}, rotated : Nat \cup {None}]

\* Every variable keeps its type.
TypeOK ==
  /\ page = "webhooks"
  /\ server \in [Item -> Nat \cup {None}]
  /\ ui \in Ui
  /\ \A c \in calls : c.op \in {"list", "create", "rotate", "delete"}
  /\ made \in 0..MaxCalls[page] /\ faults \in 0..MaxFaults
  /\ clean \in BOOLEAN

\* Once everything is answered, the list is the server's, unless its fetches
\* overlapped (clean) or the last one failed.
SubscriptionsSettle ==
  calls = {} /\ clean /\ ~ui.failed => ui.listed = Live

\* A secret that is shown "won't be shown again": it is the one with which
\* the server signs for the subscription that the dialog names, unless that
\* subscription was rotated again before the first answer (clean).
RevealsCurrentSecret ==
  ui.rotated # None /\ clean => server[ui.for] \in {ui.rotated, None}

\* What keeps a button disabled waits for an answer.
NoStuckWebhook ==
  /\ ui.creating => \E c \in calls : c.op = "create"
  /\ ui.rotating # None => Rotating
=============================================================================
