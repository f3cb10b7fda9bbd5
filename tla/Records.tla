------------------------------ MODULE Records ------------------------------
(***************************************************************************)
(* The managers of employees, classes and locations: a cached list, a      *)
(* dialog that adds or edits a record, and a question before one is        *)
(* deleted.  Both can be closed while their request is under way, and what *)
(* its answer does it does to whatever dialog is open by then.             *)
(*                                                                         *)
(* A location has coordinates and a drive time, which a selected place     *)
(* fills in after a lookup.  main is the place (the coordinates), and in   *)
(* the other records the rest of the form.                                 *)
(***************************************************************************)
EXTENDS Lists

CONSTANTS Item, Value

Located == page = "locations"

\* The drive time from the hub to a place, or one that somebody typed.
Drive == Value \cup {"typed", None}
Doc == [main : Value, drive : Drive]
List == [Item -> Doc \cup {None}]
Listed == IF ui.shown = None THEN {} ELSE {i \in Item : ui.shown[i] # None}

Init ==
  /\ page \in {"employees", "classes", "locations"}
  /\ server \in [Item -> {[main |-> v, drive |-> v] : v \in Value} \cup {None}]
  /\ ui = [shown |-> None, failed |-> FALSE, open |-> FALSE, editing |-> None,
           main |-> None, drive |-> None, touched |-> FALSE, lookup |-> FALSE,
           warned |-> FALSE, saving |-> FALSE, target |-> None]
  /\ calls = {Fetch(None)}
  /\ made = 0
  /\ faults = 0
  /\ clean = TRUE

Fills(list) == [ui EXCEPT !.shown = list]

Arrives(c) == ListArrives(c, Fills(c.answer))

\* A dialog is modal: nothing behind it can be clicked.
Behind == ~ui.open /\ ui.target = None /\ ui.shown # None

-----------------------------------------------------------------------------
(* The form                                                                *)

\* Opening fills the form anew, also that of a location, which stays mounted.
Opens(i, main, drive) ==
  /\ ui' = [ui EXCEPT !.open = TRUE, !.editing = i, !.main = main, !.drive = drive,
                      !.touched = FALSE, !.warned = FALSE]
  /\ clean' = (clean /\ ~ui.lookup)
  /\ UNCHANGED <<page, server, calls, made, faults>>

OpenEdit(i) ==
  /\ Behind
  /\ i \in Listed
  /\ Opens(i, ui.shown[i].main, ui.shown[i].drive)

OpenNew ==
  /\ Behind
  /\ Opens(None, None, None)

\* What closing leaves in the form is replaced when it opens again.
Closed(u) ==
  [u EXCEPT !.open = FALSE, !.editing = None, !.main = None,
            !.drive = None, !.touched = FALSE, !.warned = FALSE]

CloseForm ==
  /\ ui.open
  /\ ui' = Closed(ui)
  /\ UNCHANGED <<page, server, calls, made, faults, clean>>

\* Typing a place by hand (its coordinates) leaves the drive time as it is.
TypeMain(v) ==
  /\ ui.open /\ v # ui.main
  /\ ui' = [ui EXCEPT !.main = v]
  /\ clean' = (clean /\ ~Located)
  /\ UNCHANGED <<page, server, calls, made, faults>>

TypeDrive(d) ==
  /\ ui.open /\ Located /\ d # ui.drive
  /\ ui' = [ui EXCEPT !.drive = d, !.touched = d # None, !.warned = FALSE]
  /\ clean' = (clean /\ ~ui.lookup)
  /\ UNCHANGED <<page, server, calls, made, faults>>

\* handlePlaceSelect: "Preserve an explicit drive-time value if the user
\* already typed one."
SelectPlace(v) ==
  /\ ui.open /\ Located /\ ~ui.saving
  /\ IF ui.touched
       THEN /\ ui' = [ui EXCEPT !.main = v]
            /\ UNCHANGED <<calls, made>>
       ELSE /\ ui' = [ui EXCEPT !.main = v, !.lookup = TRUE, !.warned = FALSE]
            /\ Start(0, None, "drive", v, None)
  /\ clean' = (clean /\ ~ui.lookup)
  /\ UNCHANGED <<page, server, faults>>

\* The answer fills the form that is open by then; a lookup that fails says so.
DriveAnswered(c) ==
  /\ c.op = "drive" /\ c.at # "out"
  /\ ui' = [ui EXCEPT !.drive = IF c.at = "ok" /\ ui.open THEN c.answer ELSE @,
                      !.warned = @ \/ (c.at = "no" /\ ui.open),
                      !.lookup = FALSE]
  /\ Ends(c)
  /\ UNCHANGED <<page, server, made, faults, clean>>

\* The id and the form are those of the render in which it was submitted.
Submit ==
  /\ ui.open
  /\ ~ui.saving /\ ~ui.lookup
  /\ ui.main # None /\ (Located => ui.drive # None)
  /\ ui' = [ui EXCEPT !.saving = TRUE]
  /\ Start(0, ui.editing, "save", [main |-> ui.main, drive |-> ui.drive], None)
  /\ clean' = (clean /\ ~ui.warned)
  /\ UNCHANGED <<page, server, faults>>

\* setDialogOpen(false) closes what is open, be it another record's form.
Saved(c) ==
  /\ c.op = "save" /\ c.at = "ok"
  /\ ui' = [Closed(ui) EXCEPT !.saving = FALSE]
  /\ EndsAndFetches(c)
  /\ UNCHANGED <<page, server, made, faults, clean>>

SaveFails(c) ==
  /\ c.op = "save" /\ c.at = "no"
  /\ ui' = [ui EXCEPT !.saving = FALSE]
  /\ Ends(c)
  /\ UNCHANGED <<page, server, made, faults, clean>>

-----------------------------------------------------------------------------
(* Deletion                                                                *)

OpenDelete(i) ==
  /\ Behind
  /\ i \in Listed
  /\ ui' = [ui EXCEPT !.target = i]
  /\ UNCHANGED <<page, server, calls, made, faults, clean>>

CancelDelete ==
  /\ ui.target # None
  /\ ui' = [ui EXCEPT !.target = None]
  /\ UNCHANGED <<page, server, calls, made, faults, clean>>

\* The question of a class is closed at once, the others' by the answer.
Delete ==
  /\ ui.target # None
  /\ ui' = IF page = "classes" THEN [ui EXCEPT !.target = None] ELSE ui
  /\ Start(0, ui.target, "delete", None, None)
  /\ UNCHANGED <<page, server, faults, clean>>

\* finally setDeleteTarget(null): whichever question is open by then.
Asked(c) == IF page = "classes" THEN ui ELSE [ui EXCEPT !.target = None]

Deleted(c) ==
  /\ c.op = "delete" /\ c.at = "ok"
  /\ ui' = Asked(c)
  /\ EndsAndFetches(c)
  /\ UNCHANGED <<page, server, made, faults, clean>>

DeleteFails(c) ==
  /\ c.op = "delete" /\ c.at = "no"
  /\ ui' = Asked(c)
  /\ Ends(c)
  /\ UNCHANGED <<page, server, made, faults, clean>>

-----------------------------------------------------------------------------
(* The server                                                              *)

Missing(c) == c.op \in {"save", "delete"} /\ c.item # None /\ server[c.item] = None

\* A new record takes a place that is free; there is one, or the run ends here.
Written(c, i) ==
  /\ i = c.item \/ (c.item = None /\ server[i] = None)
  /\ server' = [server EXCEPT ![i] = IF c.op = "save" THEN c.value ELSE None]

Serve(c) ==
  /\ c.at = "out" /\ ~Missing(c)
  /\ \/ Listing(c, server)
     \/ c.op = "drive" /\ Answered(c, c.value) /\ UNCHANGED server
     \/ c.op \in {"save", "delete"} /\ Answered(c, None) /\ \E i \in Item : Written(c, i)
  /\ UNCHANGED <<page, ui, made, faults, clean>>

Refuse(c) ==
  /\ c.at = "out"
  /\ \/ Missing(c) /\ Refused(c, None) /\ UNCHANGED faults
     \/ ~Missing(c) /\ Fault(c)
  /\ UNCHANGED <<page, server, ui, made, clean>>

-----------------------------------------------------------------------------
User ==
  \/ Retry \/ OpenNew \/ CloseForm \/ Submit \/ CancelDelete \/ Delete
  \/ \E i \in Item : OpenEdit(i) \/ OpenDelete(i)
  \/ \E v \in Value : TypeMain(v) \/ SelectPlace(v)
  \/ \E d \in {"typed", None} : TypeDrive(d)

Next ==
  \/ User
  \/ \E c \in calls :
       \/ Serve(c) \/ Refuse(c) \/ Arrives(c) \/ ListFails(c)
       \/ DriveAnswered(c) \/ Saved(c) \/ SaveFails(c) \/ Deleted(c) \/ DeleteFails(c)

Spec == Init /\ [][Next]_vars

-----------------------------------------------------------------------------
(* Properties                                                              *)

Ui == [shown : List \cup {None}, failed : BOOLEAN, open : BOOLEAN,
       editing : Item \cup {None}, main : Value \cup {None}, drive : Drive,
       touched : BOOLEAN, lookup : BOOLEAN, warned : BOOLEAN, saving : BOOLEAN,
       target : Item \cup {None}]

\* Every variable keeps its type.
TypeOK ==
  /\ page \in {"employees", "classes", "locations"}
  /\ server \in List
  /\ ui \in Ui
  /\ \A c \in calls : c.op \in {"list", "drive", "save", "delete"}
  /\ made \in 0..MaxCalls[page] /\ faults \in 0..MaxFaults
  /\ clean \in BOOLEAN

\* Once everything is answered, the list is the server's, unless its fetch
\* failed.
RecordsCatchUp == calls = {} => ui.shown = server \/ ui.failed

\* What keeps a button disabled waits for an answer.
NoStuckForm ==
  /\ ui.saving => \E c \in calls : c.op = "save"
  /\ ui.lookup => \E c \in calls : c.op = "drive"

\* A drive time that nobody typed is that of the place in the form, or the
\* form says that it is being looked up or could not be.  Excluded (clean):
\* coordinates typed by hand, a record saved beside that warning, and a
\* form that is changed or opened while a lookup is under way.
DriveFitsPlace ==
  Located /\ clean /\ ui.open =>
    \/ ui.drive \in {ui.main, "typed", None}
    \/ ui.lookup \/ ui.warned
=============================================================================
