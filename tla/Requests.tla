------------------------------ MODULE Requests ------------------------------
(***************************************************************************)
(* What the pages of the client have in common.  A handler of a component  *)
(* that sends a request is a call: it goes out with what the handler       *)
(* captured, is carried out or refused at some time, in any order, and the *)
(* rest of the handler runs when the answer comes, on whatever is rendered *)
(* by then.  An instance number tells the component that asked from one    *)
(* that was mounted later in its place.                                    *)
(*                                                                         *)
(* A page module extends this one and says what its ui and its part of the *)
(* server hold, which handlers there are and what they do with an answer.  *)
(***************************************************************************)
EXTENDS Naturals

CONSTANTS
  MaxCalls,    \* bound of a run: calls that users of a page make
  MaxFaults,   \* bound of a run: calls that fail for no other reason
  None

Pages ==
  {"task", "portal task", "board", "projects", "project", "portal board",
   "employees", "classes", "locations", "users", "webhooks",
   "profile", "weekly", "analytics", "form", "wizard", "session", "import",
   "inbox", "portal inbox", "settings", "day", "outcomes", "checklist",
   "messages"}

ASSUME BoundsAreNumbers == MaxCalls \in [Pages -> Nat] /\ MaxFaults \in Nat

VARIABLES
  page,     \* which page is rendered; one per behaviour
  server,   \* what the backend has of the things the page is about
  ui,       \* the state of the page's components
  calls,    \* the handlers that wait for an answer
  made,     \* how many calls were made: the next id
  faults,
  clean     \* what the properties of a page exclude has not happened

vars == <<page, server, ui, calls, made, faults, clean>>

Call(id, inst, item, op, value, prev) ==
  [id |-> id, inst |-> inst, item |-> item, op |-> op, value |-> value,
   prev |-> prev, step |-> 1, at |-> "out", answer |-> None]

\* One more of what a run bounds.
Counts == made < MaxCalls[page] /\ made' = made + 1

\* A user's click starts a handler: it captures the value it found and awaits
\* its request.
Start(inst, item, op, value, prev) ==
  /\ Counts
  /\ calls' = calls \cup {Call(made, inst, item, op, value, prev)}

Replace(c, d) == calls' = (calls \ {c}) \cup {d}

\* The handler goes on to its second request.
Continue(c) == Replace(c, [c EXCEPT !.step = 2, !.at = "out", !.answer = None])

Ends(c) == calls' = calls \ {c}

\* A request that no handler waits for: the fetch of a list.
Fetch(item) == Call(None, None, item, "list", "latest", None)

Answered(c, what) == Replace(c, [c EXCEPT !.at = "ok", !.answer = what])

Refused(c, why) == Replace(c, [c EXCEPT !.at = "no", !.answer = why])

\* The network or the backend fails.
Fault(c) ==
  /\ faults < MaxFaults
  /\ faults' = faults + 1
  /\ Refused(c, None)

Waiting(inst, ops) == \E c \in calls : c.inst = inst /\ c.op \in ops
=============================================================================
