----------------------------- MODULE TaskModal -----------------------------
(***************************************************************************)
(* The task dialog of a browser: the staff's TaskDetailModal over the      *)
(* board of ProjectDetail, or the partner's PortalTaskDetailModal.  Every  *)
(* async handler is a call that goes out, is served (in any order) and is  *)
(* answered; what the handler does after an await uses what it captured    *)
(* before.  The parent renders the dialog only while a task is selected,   *)
(* so closing unmounts it and a reopened dialog is a new instance, to      *)
(* which the answers of the old one mean nothing.                          *)
(*                                                                         *)
(* text stands for title, description and internal notes, which are saved  *)
(* when they lose the focus; owner for the fields that are saved at once   *)
(* (assignee, due date, owner); flag for spotlight and at-risk.            *)
(***************************************************************************)
EXTENDS Requests

CONSTANTS
  Task, Status, Text,
  Member      \* whom a comment can mention

Owner == {"internal", "partner"}
Flag == {"off", "on"}
Flipped(f) == IF f = "on" THEN "off" ELSE "on"

Doc == [status : Status, flag : Flag, text : Text, owner : Owner,
        comments : Nat, files : Nat, live : BOOLEAN]
Draft == [body : BOOLEAN, mentions : SUBSET Member]
NoDraft == [body |-> FALSE, mentions |-> {}]

Staff == page = "task"
Open == ui # None
Shown == Open /\ ~ui.loading /\ ui.view # None

\* The render condition of the parents: an answer reaches the dialog that asked.
Reaches(c) == Open /\ ui.inst = c.inst

Init ==
  /\ page \in {"task", "portal task"}
  /\ \E s \in Status, x \in Text, o \in Owner :
       server = [t \in Task |-> [status |-> s, flag |-> "off", text |-> x, owner |-> o,
                                 comments |-> 0, files |-> 1, live |-> TRUE]]
  /\ ui = None
  /\ calls = {}
  /\ made = 0
  /\ faults = 0
  /\ clean = TRUE

-----------------------------------------------------------------------------
(* Calls                                                                   *)

\* Handlers after which the dialog shows what a GET brought.
Reloading == {"load", "comment", "upload", "detach"}
Writing == {"status", "flag"}

\* A handler that starts beside others which make the outcome a matter of
\* luck: a write beside a reload, or beside one that wrote the same value.
Overlaps(op, value) ==
  \E c \in calls :
    \/ op \in Writing /\ c.op \in Reloading
    \/ op \in Reloading /\ c.op \in Writing
    \/ op \in Writing /\ c.op = op /\ c.value = value

\* A handler of the dialog starts.
Ask(op, value, prev) ==
  /\ Start(ui'.inst, ui'.task, op, value, prev)
  /\ clean' = (clean /\ ~Overlaps(op, value))

Gets(c) == c.op = "load" \/ c.step = 2

Applied(d, c) ==
  CASE c.op = "status" -> [d EXCEPT !.status = c.value]
    [] c.op = "flag" -> [d EXCEPT !.flag = c.value]
    [] c.op = "text" -> [d EXCEPT !.text = c.value]
    [] c.op = "owner" -> [d EXCEPT !.owner = c.value]
    [] c.op = "comment" -> [d EXCEPT !.comments = @ + 1]
    [] c.op = "upload" -> [d EXCEPT !.files = @ + 1]
    [] c.op = "detach" -> [d EXCEPT !.files = @ - 1]
    [] c.op = "delete" -> [d EXCEPT !.live = FALSE]

\* An earlier write is still under way: the network changed their order.
Overtakes(c) ==
  c.op \in Writing /\ \E d \in calls : d.op = c.op /\ d.at = "out" /\ d.id < c.id

\* Mutant: a file is deleted that is not there any more.
ServeBlindly(c) ==
  /\ c.at = "out"
  /\ server[c.item].live
  /\ IF Gets(c)
       THEN Answered(c, server[c.item]) /\ UNCHANGED server
       ELSE Answered(c, None) /\ server' = [server EXCEPT ![c.item] = Applied(@, c)]
  /\ clean' = (clean /\ ~Overtakes(c))
  /\ UNCHANGED <<page, ui, made, faults>>

\* The server carries the request out and answers.
Serve(c) ==
  /\ c.at = "out"
  /\ server[c.item].live
  /\ c.op = "detach" /\ c.step = 1 => server[c.item].files > 0
  /\ IF Gets(c)
       THEN Answered(c, server[c.item]) /\ UNCHANGED server
       ELSE Answered(c, None) /\ server' = [server EXCEPT ![c.item] = Applied(@, c)]
  /\ clean' = (clean /\ ~Overtakes(c))
  /\ UNCHANGED <<page, ui, made, faults>>

\* A request that fails: the task or the file is gone, or anything else.
Gone(c) ==
  \/ ~server[c.item].live
  \/ c.op = "detach" /\ c.step = 1 /\ server[c.item].files = 0

Refuse(c) ==
  /\ c.at = "out"
  /\ \/ Gone(c) /\ Refused(c, None) /\ UNCHANGED faults
     \/ ~Gone(c) /\ Fault(c)
  /\ UNCHANGED <<page, server, ui, made, clean>>

\* Somebody else moves, edits or deletes the task.
Elsewhere(t) ==
  /\ server[t].live
  /\ Counts
  /\ \/ \E s \in Status \ {server[t].status} : server' = [server EXCEPT ![t].status = s]
     \/ server' = [server EXCEPT ![t].live = FALSE]
  /\ clean' = FALSE
  /\ UNCHANGED <<page, ui, calls, faults>>

-----------------------------------------------------------------------------
(* Opening, loading, closing                                               *)

OpenTask(t) ==
  /\ ~Open
  /\ ui' = [task |-> t, inst |-> made, loading |-> TRUE, view |-> None,
               id |-> None, text |-> None, owner |-> None, draft |-> NoDraft,
               sending |-> FALSE, busy |-> FALSE, uploading |-> FALSE]
  /\ Start(made, t, "load", None, None)
  /\ clean' = (calls = {})
  /\ UNCHANGED <<page, server, faults>>

Close ==
  /\ Open
  /\ ui' = None
  /\ UNCHANGED <<page, server, calls, made, faults, clean>>

\* loadTask and loadData put everything they got into the state.
Filled(m, c) ==
  [m EXCEPT !.view = c.answer, !.id = c.item, !.loading = FALSE,
            !.text = c.answer.text, !.owner = c.answer.owner]

\* A load that fails: the staff's closes the dialog that is open, its own or
\* not; the portal's shows the error and a button that tries again.
LoadBreaks(c) ==
  IF Staff
    THEN ui' = None
    ELSE ui' = IF Reaches(c) THEN [ui EXCEPT !.view = None, !.loading = FALSE,
                                                   !.draft = NoDraft]
                                ELSE ui

Loaded(c) ==
  /\ c.op = "load" /\ c.at = "ok"
  /\ ui' = IF Reaches(c) THEN Filled(ui, c) ELSE ui
  /\ Ends(c)
  /\ UNCHANGED <<page, server, made, faults, clean>>

LoadFails(c) ==
  /\ c.op = "load" /\ c.at = "no"
  /\ LoadBreaks(c)
  /\ Ends(c)
  /\ UNCHANGED <<page, server, made, faults, clean>>

Retry ==
  /\ ~Staff /\ Open /\ ~ui.loading /\ ui.view = None
  /\ ui' = [ui EXCEPT !.loading = TRUE]
  /\ Ask("load", None, None)
  /\ UNCHANGED <<page, server, faults>>

-----------------------------------------------------------------------------
(* Fields                                                                  *)

TypeText(x) ==
  /\ Staff /\ Shown
  /\ x # ui.text
  /\ ui' = [ui EXCEPT !.text = x]
  /\ UNCHANGED <<page, server, calls, made, faults, clean>>

\* A field that loses the focus is saved if it differs from the task that was
\* loaded, which a save leaves as it is.
Unsaved == ui.text # ui.view.text

BlurText ==
  /\ Staff /\ Shown
  /\ Unsaved
  /\ UNCHANGED ui
  /\ Ask("text", ui.text, None)
  /\ UNCHANGED <<page, server, faults>>

PickOwner(o) ==
  /\ Staff /\ Shown
  /\ o # ui.owner
  /\ ui' = [ui EXCEPT !.owner = o]
  /\ Ask("owner", o, None)
  /\ UNCHANGED <<page, server, faults>>

\* saveField only reports how it went; nothing is rolled back.
FieldAnswered(c) ==
  /\ c.op \in {"text", "owner"} /\ c.at # "out"
  /\ Ends(c)
  /\ UNCHANGED <<page, server, ui, made, faults, clean>>

-----------------------------------------------------------------------------
(* Status and flags: shown at once, rolled back when refused               *)

\* The portal lets partners change their own tasks, one change at a time.
MayWrite == Staff \/ ui.view.owner = "partner"

PickStatus(s) ==
  /\ Shown
  /\ MayWrite
  /\ s # ui.view.status
  /\ ~Staff => ~ui.busy
  /\ ui' = [ui EXCEPT !.view.status = s, !.busy = ~Staff]
  /\ Ask("status", s, ui.view.status)
  /\ UNCHANGED <<page, server, faults>>

ToggleFlag ==
  /\ Staff /\ Shown
  /\ ui' = [ui EXCEPT !.view.flag = Flipped(@)]
  /\ Ask("flag", Flipped(ui.view.flag), ui.view.flag)
  /\ UNCHANGED <<page, server, faults>>

\* The view a handler may touch: that of its own instance, still loaded.
Touches(c) == Reaches(c) /\ ui.view # None

StatusSaved(c) ==
  /\ c.op = "status" /\ c.step = 1 /\ c.at = "ok"
  /\ Continue(c)
  /\ UNCHANGED <<page, server, ui, made, faults, clean>>

\* The GET after it: the staff's dialog merges it if the status is still the
\* one that was set, the portal's was busy until its page was refreshed.
StatusRefreshed(c) ==
  /\ c.op = "status" /\ c.step = 2 /\ c.at # "out"
  /\ ui' = IF ~Reaches(c) THEN ui
              ELSE IF Staff /\ c.at = "ok" /\ ui.view.status = c.value
                     THEN [ui EXCEPT !.view.status = c.answer.status]
              ELSE [ui EXCEPT !.busy = FALSE]
  /\ Ends(c)
  /\ UNCHANGED <<page, server, made, faults, clean>>

\* What c captured was shown for an earlier write that was refused since, or
\* one that is still to be carried out will make it stale.  The code goes back
\* to it all the same: two changes in a row that are both refused leave the
\* first one on the screen.
Baseless(c) ==
  LET earlier == {d \in calls : /\ d.op = c.op /\ d.item = c.item /\ d.id < c.id
                                /\ d.step = 1 /\ d.at # "ok"}
      there == IF c.op = "status" THEN server[c.item].status ELSE server[c.item].flag
  IN  /\ \A d \in earlier : d.value # c.prev
      /\ c.prev = there => \E d \in earlier : d.at = "out"

\* Mutant: the rollback does not look whether the status was changed again.
StatusFailsBlindly(c) ==
  /\ c.op = "status" /\ c.step = 1 /\ c.at = "no"
  /\ ui' = IF Touches(c) THEN [ui EXCEPT !.view.status = c.prev, !.busy = FALSE]
                            ELSE ui
  /\ Ends(c)
  /\ clean' = (clean /\ ~Baseless(c))
  /\ UNCHANGED <<page, server, made, faults>>

\* The staff's rollback spares a status that was changed again; the portal's
\* does not have to.
StatusFails(c) ==
  /\ c.op = "status" /\ c.step = 1 /\ c.at = "no"
  /\ ui' =
       IF ~Reaches(c) THEN ui
       ELSE IF ui.view # None /\ (Staff => ui.view.status = c.value)
              THEN [ui EXCEPT !.view.status = c.prev, !.busy = FALSE]
              ELSE [ui EXCEPT !.busy = FALSE]
  /\ Ends(c)
  /\ clean' = (clean /\ ~Baseless(c))
  /\ UNCHANGED <<page, server, made, faults>>

FlagAnswered(c) ==
  /\ c.op = "flag" /\ c.at # "out"
  /\ ui' = IF c.at = "no" /\ Touches(c) /\ ui.view.flag = c.value
                THEN [ui EXCEPT !.view.flag = c.prev]
                ELSE ui
  /\ clean' = (clean /\ (c.at = "no" => ~Baseless(c)))
  /\ Ends(c)
  /\ UNCHANGED <<page, server, made, faults>>

-----------------------------------------------------------------------------
(* Conversations                                                           *)

\* Typing drops the mentions whose names are no longer in the text.
TypeBody(b, kept) ==
  /\ Shown
  /\ kept \subseteq ui.draft.mentions
  /\ ~b => kept = {}
  /\ ui' = [ui EXCEPT !.draft = [body |-> b, mentions |-> kept]]
  /\ UNCHANGED <<page, server, calls, made, faults, clean>>

AcceptMember(m) ==
  /\ Shown
  /\ m \notin ui.draft.mentions
  /\ ui' = [ui EXCEPT !.draft = [body |-> TRUE, mentions |-> @.mentions \cup {m}]]
  /\ UNCHANGED <<page, server, calls, made, faults, clean>>

Send ==
  /\ Shown
  /\ ~ui.sending /\ ui.draft.body
  /\ ui' = [ui EXCEPT !.sending = TRUE]
  /\ Ask("comment", None, None)
  /\ UNCHANGED <<page, server, faults>>

CommentPosted(c) ==
  /\ c.op = "comment" /\ c.step = 1 /\ c.at = "ok"
  /\ Continue(c)
  /\ UNCHANGED <<page, server, ui, made, faults, clean>>

\* The thread was fetched again (the staff's loads the whole task), and the
\* draft is cleared, whatever was typed since.
CommentShown(c) ==
  /\ c.op = "comment" /\ c.step = 2 /\ c.at = "ok"
  /\ ui' =
       IF ~Reaches(c) THEN ui
       ELSE LET m == IF Staff THEN Filled(ui, c)
                     ELSE IF ui.view = None THEN ui
                     ELSE [ui EXCEPT !.view.comments = c.answer.comments]
            IN  [m EXCEPT !.draft = NoDraft, !.sending = FALSE]
  /\ Ends(c)
  /\ UNCHANGED <<page, server, made, faults, clean>>

\* The POST failed, or in the portal the GET after it: the draft stays.
CommentFails(c) ==
  /\ c.op = "comment" /\ c.at = "no"
  /\ IF Staff /\ c.step = 2
       THEN LoadBreaks(c)
       ELSE ui' = IF Reaches(c) THEN [ui EXCEPT !.sending = FALSE] ELSE ui
  /\ Ends(c)
  /\ UNCHANGED <<page, server, made, faults, clean>>

-----------------------------------------------------------------------------
(* Attachments and deletion                                                *)

Upload ==
  /\ Shown
  /\ MayWrite
  /\ ~Staff => ~ui.uploading
  /\ ui' = [ui EXCEPT !.uploading = ~Staff]
  /\ Ask("upload", None, None)
  /\ UNCHANGED <<page, server, faults>>

Detach ==
  /\ Staff /\ Shown
  /\ ui.view.files > 0
  /\ UNCHANGED ui
  /\ Ask("detach", None, None)
  /\ UNCHANGED <<page, server, faults>>

\* Then the task is loaded again; the portal's loadData shows that it loads,
\* which takes the conversation off the page, draft and all.
FileStored(c) ==
  /\ c.op \in {"upload", "detach"} /\ c.step = 1 /\ c.at = "ok"
  /\ ui' = IF Staff \/ ~Reaches(c) THEN ui
              ELSE [ui EXCEPT !.loading = TRUE, !.draft = NoDraft,
                                 !.sending = FALSE]
  /\ Continue(c)
  /\ UNCHANGED <<page, server, made, faults, clean>>

FilesShown(c) ==
  /\ c.op \in {"upload", "detach"} /\ c.step = 2 /\ c.at = "ok"
  /\ ui' = IF Reaches(c) THEN [Filled(ui, c) EXCEPT !.uploading = FALSE] ELSE ui
  /\ Ends(c)
  /\ UNCHANGED <<page, server, made, faults, clean>>

FileFails(c) ==
  /\ c.op \in {"upload", "detach"} /\ c.at = "no"
  /\ IF c.step = 1
       THEN ui' = IF Reaches(c) THEN [ui EXCEPT !.uploading = FALSE] ELSE ui
     ELSE IF Staff THEN ui' = None
     ELSE ui' = IF Reaches(c) THEN [ui EXCEPT !.view = None, !.loading = FALSE,
                                          !.draft = NoDraft, !.uploading = FALSE]
                                 ELSE ui
  /\ Ends(c)
  /\ UNCHANGED <<page, server, made, faults, clean>>

Delete ==
  /\ Staff /\ Shown
  /\ UNCHANGED ui
  /\ Ask("delete", None, None)
  /\ UNCHANGED <<page, server, faults>>

\* onClose, which closes whatever dialog is open by then.
Deleted(c) ==
  /\ c.op = "delete" /\ c.at # "out"
  /\ ui' = IF c.at = "ok" THEN None ELSE ui
  /\ Ends(c)
  /\ UNCHANGED <<page, server, made, faults, clean>>

-----------------------------------------------------------------------------
User ==
  \/ \E t \in Task : OpenTask(t)
  \/ Close \/ Retry \/ BlurText \/ ToggleFlag \/ Send \/ Upload \/ Detach \/ Delete
  \/ \E x \in Text : TypeText(x)
  \/ \E o \in Owner : PickOwner(o)
  \/ \E s \in Status : PickStatus(s)
  \/ \E b \in BOOLEAN : \E kept \in SUBSET Member : TypeBody(b, kept)
  \/ \E m \in Member : AcceptMember(m)

Answer(c) ==
  \/ Loaded(c) \/ LoadFails(c) \/ FieldAnswered(c)
  \/ StatusSaved(c) \/ StatusRefreshed(c) \/ StatusFails(c) \/ FlagAnswered(c)
  \/ CommentPosted(c) \/ CommentShown(c) \/ CommentFails(c)
  \/ FileStored(c) \/ FilesShown(c) \/ FileFails(c) \/ Deleted(c)

Next ==
  \/ User
  \/ \E c \in calls : Serve(c) \/ Refuse(c) \/ Answer(c)
  \/ \E t \in Task : Elsewhere(t)

Spec == Init /\ [][Next]_vars

-----------------------------------------------------------------------------
(* Properties                                                              *)

Calling == [id : Nat, inst : Nat, item : Task, op : Writing \cup Reloading \cup
           {"text", "owner", "delete"},
         value : Status \cup Flag \cup Text \cup Owner \cup {None},
         prev : Status \cup Flag \cup {None}, step : {1, 2},
         at : {"out", "ok", "no"}, answer : Doc \cup {None}]

Modal == [task : Task, inst : Nat, loading : BOOLEAN, view : Doc \cup {None},
          id : Task \cup {None}, text : Text \cup {None}, owner : Owner \cup {None},
          draft : Draft, sending : BOOLEAN, busy : BOOLEAN, uploading : BOOLEAN]

\* Every variable keeps its type.
TypeOK ==
  /\ page \in {"task", "portal task"}
  /\ server \in [Task -> Doc]
  /\ ui \in Modal \cup {None}
  /\ calls \subseteq Calling
  /\ made \in 0..MaxCalls[page] /\ faults \in 0..MaxFaults
  /\ clean \in BOOLEAN

\* What the dialog shows is the task it was opened for, whatever answers of
\* dialogs that were closed meanwhile come late ("Don't merge into a
\* different task").
ShowsOwnTask == Open /\ ui.view # None => ui.id = ui.task

\* Once everything is answered, the status and the flag that the dialog shows
\* are the server's: refused changes were rolled back, and no GET that was
\* under way put an older value back.  Changes of others, and handlers that
\* overlap each other, may break that (clean).
StatusSettles ==
  Shown /\ calls = {} /\ clean =>
    /\ ui.view.status = server[ui.task].status
    /\ ui.view.flag = server[ui.task].flag

\* No spinner turns for ever: what keeps a control disabled waits for an
\* answer, also after a failure and when the dialog was closed and reopened.
NoStuckSpinner ==
  Open =>
    /\ ui.loading => Waiting(ui.inst, Reloading)
    /\ ui.sending => Waiting(ui.inst, {"comment"})
    /\ ui.busy => Waiting(ui.inst, {"status"})
    /\ ui.uploading => Waiting(ui.inst, {"upload"})
=============================================================================
