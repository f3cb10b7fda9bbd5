------------------------------- MODULE Import -------------------------------
(***************************************************************************)
(* The dialog that imports schedules from a CSV file.  A file is chosen,   *)
(* the backend says which of its rows are valid, and the user imports      *)
(* these.  The dialog is mounted anew each time it is opened.              *)
(***************************************************************************)
EXTENDS Requests

CONSTANT Item

\* server: the files with a valid row, and how often the rows of each file
\* were imported.
Fresh(inst, open) ==
  [inst |-> inst, open |-> open, file |-> None, preview |-> None,
   uploading |-> FALSE, committing |-> FALSE]

Init ==
  /\ page = "import"
  /\ \E valid \in SUBSET Item : server = [valid |-> valid, imported |-> [i \in Item |-> 0]]
  /\ ui = Fresh(0, FALSE)
  /\ calls = {}
  /\ made = 0
  /\ faults = 0
  /\ clean = TRUE

Mounted(c) == ui.open /\ c.inst = ui.inst

-----------------------------------------------------------------------------
OpenDialog ==
  /\ ~ui.open
  /\ ui.inst < MaxCalls[page]
  /\ ui' = Fresh(ui.inst + 1, TRUE)
  /\ UNCHANGED <<page, server, calls, made, faults, clean>>

\* The Cancel button waits for requests under way; Escape does not.
CloseDialog ==
  /\ ui.open
  /\ ui' = [ui EXCEPT !.open = FALSE]
  /\ UNCHANGED <<page, server, calls, made, faults, clean>>

\* "Reset preview when new file is selected."
SelectFile(i) ==
  /\ ui.open /\ ui.preview = None
  /\ ui' = [ui EXCEPT !.file = i, !.preview = None]
  /\ clean' = (clean /\ ~ui.uploading)
  /\ UNCHANGED <<page, server, calls, made, faults>>

ChangeFile ==
  /\ ui.open /\ ui.preview # None
  /\ ui' = [ui EXCEPT !.preview = None]
  /\ UNCHANGED <<page, server, calls, made, faults, clean>>

Preview ==
  /\ ui.open /\ ui.preview = None
  /\ ui.file # None /\ ~ui.uploading
  /\ ui' = [ui EXCEPT !.uploading = TRUE]
  /\ Start(ui.inst, ui.file, "preview", None, None)
  /\ UNCHANGED <<page, server, faults, clean>>

Previewed(c) ==
  /\ c.op = "preview" /\ c.at = "ok"
  /\ ui' = IF Mounted(c) THEN [ui EXCEPT !.preview = c.item, !.uploading = FALSE] ELSE ui
  /\ Ends(c)
  /\ UNCHANGED <<page, server, made, faults, clean>>

PreviewFails(c) ==
  /\ c.op = "preview" /\ c.at = "no"
  /\ ui' = IF Mounted(c) THEN [ui EXCEPT !.uploading = FALSE] ELSE ui
  /\ Ends(c)
  /\ UNCHANGED <<page, server, made, faults, clean>>

Commit ==
  /\ ui.open /\ ui.preview # None
  /\ ui.preview \in server.valid /\ ~ui.committing
  /\ ui' = [ui EXCEPT !.committing = TRUE]
  /\ Start(ui.inst, ui.preview, "commit", None, None)
  /\ UNCHANGED <<page, server, faults, clean>>

\* The dialog of the page closes, whether or not it is the one that asked.
Committed(c) ==
  /\ c.op = "commit" /\ c.at = "ok"
  /\ ui' = IF Mounted(c) THEN [ui EXCEPT !.open = FALSE, !.committing = FALSE]
                              ELSE [ui EXCEPT !.open = FALSE]
  /\ Ends(c)
  /\ UNCHANGED <<page, server, made, faults, clean>>

CommitFails(c) ==
  /\ c.op = "commit" /\ c.at = "no"
  /\ ui' = IF Mounted(c) THEN [ui EXCEPT !.committing = FALSE] ELSE ui
  /\ Ends(c)
  /\ UNCHANGED <<page, server, made, faults, clean>>

Serve(c) ==
  /\ c.at = "out"
  /\ Answered(c, None)
  /\ server' = IF c.op = "commit" THEN [server EXCEPT !.imported[c.item] = @ + 1] ELSE server
  /\ UNCHANGED <<page, ui, made, faults, clean>>

Refuse(c) ==
  /\ c.at = "out"
  /\ Fault(c)
  /\ UNCHANGED <<page, server, ui, made, clean>>

-----------------------------------------------------------------------------
Next ==
  \/ OpenDialog \/ CloseDialog \/ ChangeFile \/ Preview \/ Commit
  \/ \E i \in Item : SelectFile(i)
  \/ \E c \in calls :
       Previewed(c) \/ PreviewFails(c) \/ Committed(c) \/ CommitFails(c) \/ Serve(c) \/ Refuse(c)

Spec == Init /\ [][Next]_vars

-----------------------------------------------------------------------------
(* Properties                                                              *)

\* Every variable keeps its type.
TypeOK ==
  /\ page = "import"
  /\ server \in [valid : SUBSET Item, imported : [Item -> 0..MaxCalls[page]]]
  /\ ui \in [inst : Nat, open : BOOLEAN, file : Item \cup {None}, preview : Item \cup {None},
             uploading : BOOLEAN, committing : BOOLEAN]
  /\ \A c \in calls : c.op \in {"preview", "commit"} /\ c.item \in Item
  /\ made \in 0..MaxCalls[page] /\ faults \in 0..MaxFaults
  /\ clean \in BOOLEAN

\* Unless the user left a request behind (clean), what can be imported is what
\* the file that is named in the dialog holds.
PreviewFitsFile ==
  clean /\ ui.open /\ ui.preview # None => ui.preview = ui.file

\* One component has at most one import under way, and its button is enabled
\* again when that is answered.
ImportsOnce ==
  /\ \A c, d \in calls : c.op = "commit" /\ d.op = "commit" /\ c.inst = d.inst => c = d
  /\ ui.open /\ ui.uploading => Waiting(ui.inst, {"preview"})
  /\ ui.open /\ ui.committing => Waiting(ui.inst, {"commit"})
=============================================================================
