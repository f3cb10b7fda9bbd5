------------------------------- MODULE Lists -------------------------------
(***************************************************************************)
(* A page over one list that SWR caches: ui.shown is the cached data.  A   *)
(* handler ends by fetching the list again (mutate without data), which    *)
(* overtakes the fetches that are under way: their answers are dropped.    *)
(* Nothing shows before the first answer (None).                           *)
(***************************************************************************)
EXTENDS Requests

Overtaken(set) ==
  {IF c.op = "list" THEN [c EXCEPT !.value = "overtaken", !.answer = None] ELSE c : c \in set}

Refetching(set) == Overtaken(set) \cup {Fetch(None)}

EndsAndFetches(c) == calls' = Refetching(calls \ {c})

Latest(c) == c.op = "list" /\ c.value = "latest"

\* The answer of a fetch, put into the ui (filled) unless it was overtaken.
ListArrives(c, filled) ==
  /\ c.op = "list" /\ c.at = "ok"
  /\ ui' = IF Latest(c) THEN [filled EXCEPT !.failed = FALSE] ELSE ui
  /\ Ends(c)
  /\ UNCHANGED <<page, server, made, faults, clean>>

ListFails(c) ==
  /\ c.op = "list" /\ c.at = "no"
  /\ ui' = IF Latest(c) THEN [ui EXCEPT !.failed = TRUE] ELSE ui
  /\ Ends(c)
  /\ UNCHANGED <<page, server, made, faults, clean>>

\* The button beside the error, or SWR by itself after a while.
Retry ==
  /\ ui.failed
  /\ ~\E c \in calls : Latest(c)
  /\ calls' = Refetching(calls)
  /\ UNCHANGED <<page, server, ui, made, faults, clean>>

Listing(c, list) ==
  /\ c.op = "list"
  /\ Answered(c, IF Latest(c) THEN list ELSE None)
  /\ UNCHANGED server
=============================================================================
