------------------------------ MODULE Reports ------------------------------
(***************************************************************************)
(* Pages that show the numbers of one filter (an id, dates, a class) and   *)
(* fetch them whenever it changes.  They differ in what becomes of an      *)
(* answer to a filter that was changed meanwhile:                          *)
(*   profile     of a class or location: the request is aborted;           *)
(*   weekly      report, and an employee's profile: it is shown;           *)
(*   analytics   SWR keeps it under its own key, and the numbers of the    *)
(*               last key show until those of the new one are there.       *)
(* The backend's numbers do not change here: what is told apart is whose   *)
(* they are.                                                               *)
(***************************************************************************)
EXTENDS Requests

CONSTANT Filter

Init ==
  /\ page \in {"profile", "weekly", "analytics"}
  /\ server = None
  /\ \E f \in Filter :
       /\ ui = [filter |-> f, shown |-> None, loading |-> TRUE, failed |-> FALSE,
                cached |-> {}, inst |-> 0]
       /\ calls = {Call(0, 0, f, "report", None, None)}
  /\ made = 1
  /\ faults = 0
  /\ clean = TRUE

\* The cleanup of the effect aborts the request of a profile.
KeepsRequests ==
  IF page = "profile" THEN {} ELSE calls

\* SWR does not ask for a key that is being fetched.
Asks(f) ==
  IF page = "analytics" /\ \E c \in calls : c.item = f
    THEN {} ELSE {Call(made, made, f, "report", None, None)}

\* The effect runs when the filter changed; what SWR has cached it does not
\* fetch again.
ChangeFilter(f) ==
  /\ f # ui.filter
  /\ Counts
  /\ IF f \in ui.cached
       THEN /\ ui' = [ui EXCEPT !.filter = f, !.shown = f, !.loading = FALSE,
                                !.failed = FALSE, !.inst = made]
            /\ calls' = calls
       ELSE /\ ui' = [ui EXCEPT !.filter = f, !.loading = TRUE, !.failed = FALSE,
                                !.inst = made]
            /\ calls' = KeepsRequests \cup Asks(f)
  /\ clean' = (clean /\ (page = "weekly" => calls = {}))
  /\ UNCHANGED <<page, server, faults>>

Fills(c) ==
  IF page # "analytics"
    THEN [ui EXCEPT !.shown = c.item, !.loading = FALSE, !.failed = FALSE]
    ELSE [ui EXCEPT !.cached = @ \cup {c.item},
                    !.shown = IF c.item = ui.filter THEN c.item ELSE @,
                    !.loading = @ /\ c.item # ui.filter]

Arrives(c) ==
  /\ c.at = "ok"
  /\ ui' = Fills(c)
  /\ Ends(c)
  /\ UNCHANGED <<page, server, made, faults, clean>>

\* What was shown goes away, except in analytics: the tab shows no error.
Fails(c) ==
  /\ c.at = "no"
  /\ IF page # "analytics"
       THEN /\ ui' = [ui EXCEPT !.shown = None, !.loading = FALSE, !.failed = TRUE]
            /\ UNCHANGED clean
       ELSE /\ ui' = [ui EXCEPT !.loading = @ /\ c.item # ui.filter]
            /\ clean' = FALSE
  /\ Ends(c)
  /\ UNCHANGED <<page, server, made, faults>>

\* SWR tries again after a while.
Retry ==
  /\ page = "analytics" /\ ui.filter \notin ui.cached /\ ~ui.loading
  /\ ui' = [ui EXCEPT !.loading = TRUE]
  /\ calls' = calls \cup {Call(made, ui.inst, ui.filter, "report", None, None)}
  /\ UNCHANGED <<page, server, made, faults, clean>>

Serve(c) ==
  /\ c.at = "out"
  /\ Answered(c, None)
  /\ UNCHANGED <<page, server, ui, made, faults, clean>>

Refuse(c) ==
  /\ c.at = "out"
  /\ Fault(c)
  /\ UNCHANGED <<page, server, ui, made, clean>>

Next ==
  \/ Retry
  \/ \E f \in Filter : ChangeFilter(f)
  \/ \E c \in calls : Serve(c) \/ Refuse(c) \/ Arrives(c) \/ Fails(c)

Spec == Init /\ [][Next]_vars

-----------------------------------------------------------------------------
(* Properties                                                              *)

\* Every variable keeps its type.
TypeOK ==
  /\ page \in {"profile", "weekly", "analytics"}
  /\ server = None
  /\ ui \in [filter : Filter, shown : Filter \cup {None}, loading : BOOLEAN,
             failed : BOOLEAN, cached : SUBSET Filter, inst : Nat]
  /\ \A c \in calls : c.op = "report" /\ c.item \in Filter
  /\ made \in 0..MaxCalls[page] /\ faults \in 0..MaxFaults
  /\ clean \in BOOLEAN

\* Numbers that are shown without a sign of loading are those of the filter:
\* "a slow earlier response can't overwrite a faster newer one".  The weekly
\* report does not see to that, and analytics not after a failure (clean).
ReportFitsFilter == clean /\ ~ui.loading => ui.shown \in {ui.filter, None}

\* Who waits for numbers has asked for them.
NoStuckReport == ui.loading => \E c \in calls : c.item = ui.filter
=============================================================================
