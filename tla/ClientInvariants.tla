-------------------------- MODULE ClientInvariants --------------------------
(***************************************************************************)
(* What the proofs about Client keep true, page by page, so that its       *)
(* properties follow.                                                      *)
(***************************************************************************)
EXTENDS Client, Sequences

-----------------------------------------------------------------------------
(* The wizard                                                              *)

Sending ==
  [repeat : {"none", "simple", "custom"}, rule : Wizard!Rules \cup {None},
   ends : Wizard!Endings, count : BOOLEAN, class : {None, "old", "new"}]

WizardUi ==
  [step : 0..2, staff : BOOLEAN, class : {None, "old", "new"}, place : BOOLEAN,
   quick : BOOLEAN, creating : BOOLEAN, repeat : {"none", "simple", "custom"},
   ends : Wizard!Endings, count : BOOLEAN, rule : Wizard!Rules,
   draft : Wizard!Rules \cup {None}, sent : Sending \cup {None}]

\* What was sent was valid when it was.
WizardInv == ui \in WizardUi /\ Wizard!SendsWholeRule

-----------------------------------------------------------------------------
(* The schedule board                                                      *)

BoardFields == {"view", "inst", "cache", "fresh", "failed", "banner", "selecting",
                "chosen", "busy", "confirm", "conflict", "reason"}

\* The reason in the dialog was typed for the conflict it shows.
BoardInv ==
  /\ ui = [f \in BoardFields |-> ui[f]]
  /\ Board!ForcedWasAsked

-----------------------------------------------------------------------------
(* The schedule form                                                       *)

FormFields == {"inst", "edit", "slot", "shown", "failed", "due", "override", "loading",
               "discard", "scope", "ask", "deleting", "refused", "overlap"}

\* A save belongs to an opening of the form that there was, and sends what
\* this opening still shows; the override is offered for what was refused.
SaveInv ==
  /\ \A c \in calls : c.op = "save" /\ c.inst = ui.inst => c.value = ui.slot
  /\ \A c \in calls : c.op = "save" /\ c.prev.force => c.prev.asked
  /\ ui.override => ui.refused = ui.slot

FormInv ==
  /\ ui = [f \in FormFields |-> ui[f]]
  /\ made \in Nat
  /\ ui.inst # None => ui.inst \in Nat /\ ui.inst < made
  /\ \A c \in calls : c.op = "save" => c.inst # None /\ c.inst \in Nat /\ c.inst < made
  /\ clean => SaveInv

-----------------------------------------------------------------------------
(* The project boards                                                      *)

BoardsFields == {"shown", "board", "failed", "gate", "pending", "rows", "adding"}
CallFields == {"id", "inst", "item", "op", "value", "prev", "step", "at", "answer"}

IsCall(c) == c = [f \in CallFields |-> c[f]]

\* The parts of the state that are functions.
PlainInv ==
  /\ ui = [f \in BoardsFields |-> ui[f]]
  /\ server = [i \in Item |-> server[i]]
  /\ \A c \in calls : IsCall(c)

\* Only the board of projects has a gate.
Ungated == ui.gate = None /\ \A c \in calls : c.op \notin {"advance", "force"}

\* A call says what the server has, or had when it was carried out.
Told(c, columns) ==
  /\ c.op = "force" /\ c.at = "out" => c.value = columns[c.item] + 1
  /\ c.op = "force" /\ c.at = "ok" => c.answer = c.value
  /\ c.op = "advance" /\ c.at = "warn" =>
       c.answer.item = c.item /\ c.answer.to = columns[c.item] + 1

Moving(set, i) == {c \in set : c.op # "list" /\ c.item = i}

\* A dialog names the phase that comes next, until its own answer is sent.
GateTold(gate, set, columns) ==
  gate # None =>
    /\ gate.item \in Item
    /\ \A c \in Moving(set, gate.item) : c.op = "force"
    /\ Moving(set, gate.item) # {} \/ gate.to = columns[gate.item] + 1

\* If nothing is asked twice, a project has one change under way at a time.
ToldInv ==
  /\ \A c \in calls : /\ c.op \in Projects!Moves \cup {"list"} /\ c.at # "waits"
                      /\ c.op # "list" => c.step = 1 /\ c.item \in Item
                      /\ Told(c, server)
  /\ \A i \in Item : \A c, d \in Moving(calls, i) : c = d
  /\ GateTold(ui.gate, calls, server)

\* What is kept on each of the pages that force something.
ForcingInv ==
  /\ page = "board" => BoardInv
  /\ page = "form" => FormInv
  /\ page \in Boards =>
       /\ PlainInv
       /\ page # "projects" => Ungated
       /\ page = "projects" /\ clean => ToldInv

-----------------------------------------------------------------------------
(* What is disabled waits for an answer                                    *)

AreCalls(S) == \A c \in S : IsCall(c)

\* The same handler, further on.
SameCall(c, d) == d.op = c.op /\ d.inst = c.inst /\ d.item = c.item /\ d.id = c.id

Late(c) == [c EXCEPT !.value = "overtaken", !.answer = None]

-----------------------------------------------------------------------------
(* The task dialogs                                                        *)

TaskFields == {"task", "inst", "loading", "view", "id", "text", "owner", "draft",
               "sending", "busy", "uploading"}

\* In the portal a file that was stored makes the dialog load.
LoadsFor(c, u) ==
  /\ c.inst = u.inst
  /\ \/ c.op = "load"
     \/ ~TaskPage!Staff /\ c.op \in {"upload", "detach"} /\ c.step = 2

SpinsFor(u, S) ==
  /\ u = [f \in TaskFields |-> u[f]]
  /\ u.loading => \E c \in S : LoadsFor(c, u)
  /\ u.sending => \E c \in S : c.inst = u.inst /\ c.op = "comment"
  /\ u.busy => ~TaskPage!Staff /\ \E c \in S : c.inst = u.inst /\ c.op = "status"
  /\ u.uploading => ~TaskPage!Staff /\ \E c \in S : c.inst = u.inst /\ c.op = "upload"

TaskWaits == AreCalls(calls) /\ (ui # None => SpinsFor(ui, calls))

-----------------------------------------------------------------------------
(* The schedule board                                                      *)

\* The bar of bulk actions waits for a request of this view.
Barring(u, c) == c.id = u.busy /\ c.inst = u.inst /\ c.op \in Board!Bulk

BoardWaits ==
  /\ ui = [f \in BoardFields |-> ui[f]]
  /\ AreCalls(calls)
  /\ ui.busy # None => \E c \in calls : Barring(ui, c)

-----------------------------------------------------------------------------
(* The project boards                                                      *)

ProjectsWaits ==
  /\ PlainInv
  /\ page # "projects" => Ungated
  /\ Projects!Staff => ui.pending = {}
  /\ ~Projects!Staff => ui.adding = None
  /\ Projects!NoStuckTask

-----------------------------------------------------------------------------
(* The managers                                                            *)

RecordFields == {"shown", "failed", "open", "editing", "main", "drive", "touched",
                 "lookup", "warned", "saving", "target"}

RecordsWaits ==
  /\ ui = [f \in RecordFields |-> ui[f]]
  /\ AreCalls(calls)
  /\ Lookups!NoStuckForm

-----------------------------------------------------------------------------
(* The accounts                                                            *)

UserFields == {"lists", "failed", "dialog", "email", "sent", "inviting", "for", "sessions",
               "spinner", "revoking", "target"}

UsersWait ==
  /\ ui = [f \in UserFields |-> ui[f]]
  /\ AreCalls(calls)
  /\ Accounts!NoStuckButton

-----------------------------------------------------------------------------
(* The webhooks                                                            *)

HookFields == {"listed", "failed", "create", "draft", "creating", "created", "rotating", "for",
               "rotated"}

HooksWait ==
  /\ ui = [f \in HookFields |-> ui[f]]
  /\ AreCalls(calls)
  /\ Hooks!NoStuckWebhook

-----------------------------------------------------------------------------
(* The reports                                                             *)

ReportFields == {"filter", "shown", "loading", "failed", "cached", "inst"}

ReportsWait ==
  /\ ui = [f \in ReportFields |-> ui[f]]
  /\ AreCalls(calls)
  /\ Numbers!NoStuckReport

-----------------------------------------------------------------------------
(* The form and the wizard of a schedule                                   *)

FormWaits ==
  /\ ui = [f \in FormFields |-> ui[f]]
  /\ AreCalls(calls)
  /\ Form!NoStuckForm

WizardWaits == WizardInv /\ Wizard!NoStuckQuick

-----------------------------------------------------------------------------
(* The session                                                             *)

SessionWaits ==
  /\ AreCalls(calls)
  /\ \A c \in calls : c.at = "wait" => c.inst # None /\ c.op \in {"get", "change"}
  /\ Browser!NoStuckCall

-----------------------------------------------------------------------------
(* The import                                                              *)

ImportFields == {"inst", "open", "file", "preview", "uploading", "committing"}

\* A commit of the dialog that is mounted is the one it waits for.
ImportWaits ==
  /\ ui = [f \in ImportFields |-> ui[f]]
  /\ AreCalls(calls)
  /\ ui.inst \in Nat
  /\ \A c \in calls : c.inst \in Nat /\ c.inst <= ui.inst
  /\ \A c \in calls : c.op = "commit" /\ c.inst = ui.inst => ui.committing
  /\ Csv!ImportsOnce

-----------------------------------------------------------------------------
(* The inboxes                                                             *)

InboxFields == {"open", "at", "rows", "alerts", "hidden", "failed"}

InboxWaits ==
  /\ ui = [f \in InboxFields |-> ui[f]]
  /\ AreCalls(calls)
  /\ Bell!NoStuckBell

-----------------------------------------------------------------------------
(* The settings                                                            *)

SettingsFields == {"inst", "loading", "employee", "offered", "prefs", "prefsLoading",
                   "saving", "password", "changing"}

SettingsWait ==
  /\ ui = [f \in SettingsFields |-> ui[f]]
  /\ AreCalls(calls)
  /\ Personal!NoStuckSetting

-----------------------------------------------------------------------------
(* The outcomes                                                            *)

OutcomesFields == {"rows", "funnel", "warning", "quick", "bulk", "adding", "quickAdding",
                   "loads", "newest"}

\* A button is disabled exactly while its call is under way.
Adding(op, disabled, S) ==
  /\ disabled => \E c \in S : c.op = op
  /\ \A c \in S : c.op = op => disabled /\ c.at # "warn"
  /\ \A c, d \in S : c.op = op /\ d.op = op => c = d

OutcomesWait ==
  /\ ui = [f \in OutcomesFields |-> ui[f]]
  /\ AreCalls(calls)
  /\ Adding("quick", ui.quickAdding, calls)
  /\ Adding("bulk", ui.adding, calls)

-----------------------------------------------------------------------------
(* The conversations                                                       *)

ThreadsFields == {"active", "cache", "failed", "inst", "draft", "sending", "delivery"}

\* The thread that is mounted as inst has a handler under way.
Handled(S, inst) == \E c \in S : c.inst = inst /\ c.op \in {"send", "refresh"}

ThreadsWait ==
  /\ ui = [f \in ThreadsFields |-> ui[f]]
  /\ AreCalls(calls)
  /\ ui.sending => Handled(calls, ui.inst)

-----------------------------------------------------------------------------
(* All pages                                                               *)

StuckInv ==
  /\ page \in TaskPages => TaskWaits
  /\ page = "board" => BoardWaits
  /\ page \in Boards => ProjectsWaits
  /\ page \in Managers => RecordsWaits
  /\ page = "users" => UsersWait
  /\ page = "webhooks" => HooksWait
  /\ page \in Figures => ReportsWait
  /\ page = "form" => FormWaits
  /\ page = "wizard" => WizardWaits
  /\ page = "session" => SessionWaits
  /\ page = "import" => ImportWaits
  /\ page \in Bells => InboxWaits
  /\ page = "settings" => SettingsWait
  /\ page = "outcomes" => OutcomesWait
  /\ page = "messages" => ThreadsWait

-----------------------------------------------------------------------------
(* What is shown belongs to what it is shown for: the task dialogs         *)

\* The answers that a dialog waits for are about its task, and until the task
\* was loaded it shows nothing and waits for nothing else.
ShowsFor(u, S) ==
  /\ u = [f \in TaskFields |-> u[f]]
  /\ u.inst \in Nat /\ u.inst < made
  /\ \A c \in S : c.inst = u.inst => c.item = u.task
  /\ \/ u.id = u.task
     \/ u.view = None /\ \A c \in S : c.inst = u.inst => c.op = "load"

TaskShows ==
  /\ made \in Nat
  /\ AreCalls(calls)
  /\ \A c \in calls : c.inst \in Nat /\ c.inst < made
  /\ ui # None => ShowsFor(ui, calls)

\* Whatever becomes of a call, the calls that wait are calls that waited.
Heirs(S) == \A d \in calls' : IsCall(d) /\ \E e \in S : SameCall(e, d)

-----------------------------------------------------------------------------
(* The sessions of an account                                              *)

\* A call that gets its answer.
Answering(c, x, y) == [c EXCEPT !.at = x, !.answer = y]

UsersShow ==
  /\ ui = [f \in UserFields |-> ui[f]]
  /\ AreCalls(calls)
  /\ \A c \in calls : c.op = "sessions" =>
       c.inst = 0 /\ (c.at = "ok" => c.answer \in {c.item, None})
  /\ clean /\ ui.for # None =>
       /\ ui.sessions \in {ui.for, None}
       /\ \A c \in calls : c.op = "sessions" => c.item = ui.for

-----------------------------------------------------------------------------
(* The secrets of webhooks                                                 *)

HookCall(c) ==
  /\ c.op \in {"list", "create", "rotate", "delete"}
  /\ c.op # "list" => c.item \in Item
  /\ c.op \in {"create", "rotate"} => c.value \in Nat \ {0}
  /\ c.op = "delete" => c.value = None

\* The secret that an answer brings is the server's until somebody rotates it
\* again, and nobody does while it is shown.
Secrets ==
  /\ \A c, d \in calls : c.op = "rotate" /\ d.op = "rotate" /\ c.item = d.item => c = d
  /\ \A c \in calls : c.op = "rotate" /\ c.at = "ok" => server[c.item] \in {c.value, None}
  /\ ui.rotated # None =>
       /\ ui.for \in Item /\ ui.rotated \in Nat \ {0}
       /\ server[ui.for] \in {ui.rotated, None}
       /\ \A c \in calls : c.op = "rotate" => c.item # ui.for

\* A subscription that is being created has no secret yet.
HooksShow ==
  /\ made \in Nat
  /\ ui = [f \in HookFields |-> ui[f]]
  /\ server = [i \in Item |-> server[i]]
  /\ AreCalls(calls)
  /\ \A c \in calls : HookCall(c)
  /\ ui.draft \in Item \cup {None}
  /\ \A c, d \in calls : c.op = "create" /\ d.op = "create" => c = d
  /\ \A c \in calls : c.op = "create" => ui.creating /\ (c.at = "out" => server[c.item] = 0)
  /\ clean => Secrets

-----------------------------------------------------------------------------
(* The numbers of a filter                                                 *)

\* A profile aborts what it asked for before; the weekly report is clean as
\* long as nothing else was under way when its filter changed.
ReportsShow ==
  /\ page \in Figures
  /\ ui = [f \in ReportFields |-> ui[f]]
  /\ AreCalls(calls)
  /\ page # "analytics" => ui.cached = {}
  /\ page = "profile" \/ (clean /\ page # "analytics") => \A c \in calls : c.item = ui.filter
  /\ Numbers!ReportFitsFilter

-----------------------------------------------------------------------------
(* The preview of a file                                                   *)

Previews(c) == c.op = "preview" /\ c.inst = ui.inst

\* The dialog that is open waits for one preview at most, of its file.
ImportShows ==
  /\ ui = [f \in ImportFields |-> ui[f]] /\ ui.inst \in Nat
  /\ AreCalls(calls)
  /\ \A c \in calls : c.inst \in Nat /\ c.inst <= ui.inst
  /\ ui.open => \A c, d \in calls : Previews(c) => ui.uploading /\ (Previews(d) => c = d)
  /\ clean /\ ui.open => \A c \in calls : Previews(c) => c.item = ui.file
  /\ Csv!PreviewFitsFile

-----------------------------------------------------------------------------
(* The drive time to a place                                               *)

Fits(doc) == doc.drive \in {doc.main, "typed", None}
AllFit(list) == \A i \in Item : list[i] # None => Fits(list[i])

\* One lookup at most is under way, for the place in the form that is open; and
\* what was saved, and is opened again, fitted when it was saved.
Fitting ==
  /\ AllFit(server)
  /\ ui.shown # None => AllFit(ui.shown)
  /\ \A c \in calls : c.op = "save" => Fits(c.value)
  /\ \A c \in calls : c.op = "list" /\ c.value = "latest" /\ c.at = "ok" => AllFit(c.answer)
  /\ \A c, d \in calls : c.op = "drive" /\ d.op = "drive" => c = d
  /\ \A c \in calls : c.op = "drive" =>
       /\ ui.lookup /\ c.at \in {"out", "ok", "no"}
       /\ c.at = "ok" => c.answer = c.value
       /\ ui.open => c.value = ui.main /\ ~ui.touched
  /\ ui.open /\ ui.touched => ui.drive = "typed"
  /\ ui.open => Fits(ui) \/ ui.lookup \/ ui.warned

RecordsShow ==
  /\ ui = [f \in RecordFields |-> ui[f]]
  /\ server = [i \in Item |-> server[i]]
  /\ AreCalls(calls)
  /\ Lookups!Located /\ clean => Fitting

-----------------------------------------------------------------------------
(* The conflicts of a schedule form                                        *)

\* The checks that are out are of the form that is open; unless two overlapped
\* or another one is due, of what it holds: when none is out, that is shown.
FormShows ==
  /\ ui = [f \in FormFields |-> ui[f]] /\ made \in Nat
  /\ AreCalls(calls) /\ (ui.due => ui.inst # None)
  /\ \A c \in calls : c.op \in {"check", "leg"} => ui.inst # None /\ c.inst = ui.inst
  /\ ui.inst # None /\ ~ui.overlap /\ ~ui.due =>
       /\ \A c \in calls : c.op = "check" => c.value = ui.slot
       /\ ui.failed \/ ui.shown = ui.slot \/ \E c \in calls : c.op = "check"

-----------------------------------------------------------------------------
(* The warnings of a funnel                                                *)

IsChange(c) == c.op \in {"put", "force"}

\* A status that is kept back, or from which a forced change starts.
Stands(item, from) == server[item] = from /\ from \in Funnels!Statuses

\* Without two changes of an attendee at once, what a warning or a forced change
\* starts from is the server's, until this change is written.
Warns ==
  /\ \A c, d \in calls : IsChange(c) /\ IsChange(d) /\ c.item = d.item => c = d
  /\ \A c \in calls :
       /\ c.at = "warn" => Stands(c.item, c.answer)
       /\ c.op = "force" /\ c.at \in {"out", "read"} => Stands(c.item, c.prev)
  /\ ui.warning # None =>
       /\ ui.warning.from \in Funnels!Statuses
       /\ \/ server[ui.warning.item] = ui.warning.from
          \/ \E c \in calls : IsChange(c) /\ c.item = ui.warning.item
       /\ \A c \in calls : IsChange(c) /\ c.item = ui.warning.item => c.op = "force"

OutcomesShow ==
  /\ ui = [f \in OutcomesFields |-> ui[f]] /\ server = [i \in Item |-> server[i]]
  /\ AreCalls(calls)
  /\ \A c \in calls : /\ IsChange(c) => c.item \in Item
                      /\ c.at = "read" => IsChange(c)
                      /\ c.at = "warn" => c.op = "put"
  /\ ui.warning # None => ui.warning.item \in Item
  /\ clean => Warns

\* A load with one more of its parts, and a call that was only looked at.
Filling(c, x, y) == [c EXCEPT !.answer = y, !.at = x]
Reading(c, x) == [c EXCEPT !.at = x]

-----------------------------------------------------------------------------
(* The text of a conversation                                              *)

\* A text stays with its conversation while it is written and sent.
ThreadsShow ==
  /\ ui = [f \in ThreadsFields |-> ui[f]]
  /\ AreCalls(calls)
  /\ clean => /\ {ui.draft, ui.delivery} \subseteq {ui.active, None}
              /\ \A c \in calls : c.op = "send" => c.value = c.item /\ c.item = ui.active

-----------------------------------------------------------------------------
(* All pages                                                               *)

ShowsInv ==
  /\ page \in TaskPages => TaskShows
  /\ page = "users" => UsersShow
  /\ page = "webhooks" => HooksShow
  /\ page \in Figures => ReportsShow
  /\ page = "form" => FormShows
  /\ page = "import" => ImportShows
  /\ page \in Managers => RecordsShow
  /\ page = "outcomes" => OutcomesShow
  /\ page = "messages" => ThreadsShow

-----------------------------------------------------------------------------
(* Lists that catch up                                                     *)

\* A fetch whose answer counts.
Counting(c) == c.op = "list" /\ c.value = "latest"

\* A change that was carried out and whose handler will fetch the list.
Due(S, ops) == \E c \in S : c.op \in ops /\ c.at = "ok"

\* What is shown is what there is, or a fetch failed, or one is on its way or
\* to come; and so is what a fetch brings.
CatchesUp(S, ops, doc, shown, failed) ==
  /\ \A c \in S : Counting(c) /\ c.at = "ok" => c.answer = doc \/ Due(S, ops)
  /\ shown = doc \/ failed \/ Due(S, ops) \/ \E c \in S : Counting(c)

-----------------------------------------------------------------------------
(* The managers catch up                                                   *)

RecordsSettle == CatchesUp(calls, {"save", "delete"}, server, ui.shown, ui.failed)

-----------------------------------------------------------------------------
(* The schedule board catches up                                           *)

\* A fetch whose answer counts, and a change after which the list is fetched.
NewestOf(c, k) == c.op = "list" /\ c.value = "latest" /\ c.item = k
Changing(c) == c.op \in {"status", "relocate"} \/ (c.op \in Board!Bulk /\ c.at = "ok")
Changed(S) == \E c \in S : Changing(c)

\* A cache that counts as fresh catches up.
KeyCatchesUp(k, list, S, u) ==
  /\ \A c \in S : NewestOf(c, k) /\ c.at = "ok" => c.answer = list \/ Changed(S)
  /\ u.fresh[k] => \/ u.cache[k] = list \/ u.failed[k]
                   \/ Changed(S) \/ \E c \in S : NewestOf(c, k)

BoardOps == Board!Bulk \cup {"list", "status", "relocate"}

BoardForms(u) ==
  /\ u.view \in Board!View
  /\ u.cache = [k \in Board!Keys |-> u.cache[k]]
  /\ u.fresh = [k \in Board!Keys |-> u.fresh[k]]
  /\ u.failed = [k \in Board!Keys |-> u.failed[k]]
  /\ u.fresh[Board!Key(u.view)]
  /\ \A k \in Board!Keys : u.failed[k] => u.banner

BoardKeeps ==
  /\ BoardForms(ui)
  /\ \A c \in calls : c.op \in BoardOps
  /\ \A k \in Board!Keys : KeyCatchesUp(k, server, calls, ui)

-----------------------------------------------------------------------------
(* The inboxes catch up                                                    *)

InboxOps == {"read", "read each", "read all", "dismiss", "dismiss all"}
PollFields == {"pending", "rows", "alerts"}

\* The changes to a row that are on their way.
Dismissing(c, i) == c.op = "dismiss all" \/ (c.op = "dismiss" /\ c.item = i)
ReadingIt(c, i) == c.op = "read all" \/ (c.op \in {"read", "read each"} /\ c.item = i)
Away(S, i) == \E c \in S : c.at = "out" /\ Dismissing(c, i)
Seen(S, i) == \E c \in S : c.at = "out" /\ ReadingIt(c, i)

\* A row is shown as it will be when they are carried out.
RowFits(S, row, shown, i) ==
  /\ Away(S, i) => shown = None
  /\ ~Away(S, i) =>
       /\ row = "unread" /\ Seen(S, i) => shown = "read"
       /\ row = "unread" /\ ~Seen(S, i) => shown = "unread"
       /\ row = "read" => shown = "read"
       /\ row \notin Bell!Kept => shown = None

\* A change was refused, and its handler will know.
Lost(S) == \E c \in S : c.op # "poll" /\ c.at = "no"

\* A poll that nothing disturbed is up to date, and alone.
Undisturbed(S, rows) ==
  \A c \in S : c.op = "poll" /\ c.value # FALSE =>
    /\ \A e \in S : e.op = "poll"
    /\ c.answer.rows \in {None, rows}

InboxForm(c) ==
  /\ c.op \in InboxOps \cup {"poll"}
  /\ c.op = "poll" => c.answer = [f \in PollFields |-> c.answer[f]]

InboxForms(S) == \A c \in S : InboxForm(c)

InboxFits ==
  /\ ui.rows = [i \in Item |-> ui.rows[i]]
  /\ Lost(calls) \/ \A i \in Item : RowFits(calls, server.row[i], ui.rows[i], i)

InboxKeeps ==
  /\ server = [f \in {"row", "alerts"} |-> server[f]]
  /\ server.row = [i \in Item |-> server.row[i]]
  /\ InboxForms(calls)
  /\ Undisturbed(calls, Bell!Rows)
  /\ clean => InboxFits

\* Two sets of calls with the same changes.
SameWrites(S, T) == \A e : e.op # "poll" => (e \in T <=> e \in S)

\* What requests for these items do to a row.
Dismisses(op, items, j) == (op = "dismiss all" /\ items # {}) \/ (op = "dismiss" /\ j \in items)
ReadsThem(op, items, j) ==
  (op = "read all" /\ items # {}) \/ (op \in {"read", "read each"} /\ j \in items)

-----------------------------------------------------------------------------
(* Tokens                                                                  *)

Some(S) == S \cup {None}

Jar == DOMAIN ui.jar

Pair == [access : Some(Nat), refresh : Some(Nat)]

TabState == [at : {"app", "login"}, user : BOOLEAN, loading : BOOLEAN]

SessionOps == {"get", "change", "me", "refresh", "login", "logout"}

SessionCalls ==
  [id : Nat, inst : Some(Item), item : Jar, op : SessionOps, value : Some(Nat),
   prev : Some(Nat), step : {1, 2},
   at : {"out", "ok", "no", "denied", "reused", "wait"}, answer : Pair \cup {None}]

\* The answer of the call is going to set the cookies.
Stores(c) == c.op \in Browser!Sets \cup {"logout"} /\ c.at = "ok"

GoodCall(c) ==
  /\ c \in SessionCalls
  /\ Stores(c) => c.answer \in Pair
  /\ c.inst # None => c.item = ui.of[c.inst]
  /\ c.op = "me" => c.inst \in Item

Ages == {"live", "recent", "old"}

Servers == [tokens : Seq(Ages), version : Nat, alarm : BOOLEAN]

Uis == [of : [Item -> Jar], jar : [Jar -> Pair], tab : [Item -> TabState]]

SessionShape ==
  /\ server \in Servers
  /\ ui \in Uis
  /\ \A c \in calls : GoodCall(c)
  /\ made \in Nat

\* What a tab's calls tell about it.
TabsAsk ==
  /\ \A c \in calls : c.inst \in Item
  /\ \A c \in calls : c.op = "change" => ui.tab[c.inst].user
  /\ \A c \in calls : c.op = "me" <=> ui.tab[c.inst].loading
  /\ \A t \in Item : ui.tab[t].loading => ~ui.tab[t].user
  /\ \A c, d \in calls : c.op = "me" /\ d.op = "me" /\ c.inst = d.inst => c = d

AtMost(v, n) == v # None => v <= n

\* What a call brings and what it gets is no newer than the password, and a
\* logout takes the cookies away.
BoundCall(c, version) ==
  /\ AtMost(c.value, version)
  /\ Stores(c) => AtMost(c.answer.access, version)
  /\ c.op = "logout" /\ c.at = "ok" => c.answer = Browser!NoCookies

\* Somebody is signed in with the cookies, or is just being asked for.
Claimed(j) ==
  \/ \E t \in Item : ui.of[t] = j /\ ui.tab[t].user
  \/ \E c \in calls : /\ c.item = j /\ c.op = "me" /\ c.value = server.version
                      /\ c.at \in {"out", "ok"}

AccessInv ==
  /\ \A j \in Jar : AtMost(ui.jar[j].access, server.version)
  /\ \A c \in calls : BoundCall(c, server.version)
  /\ \A j \in Jar : ui.jar[j].access = server.version => Claimed(j)

Token(v) == v # None => v \in DOMAIN server.tokens

\* Every refresh token is one browser's, that of an answer is nobody's yet.
Owned ==
  /\ \A j \in Jar : Token(ui.jar[j].refresh)
  /\ \A c \in calls : Token(c.prev)
  /\ \A j, k \in Jar : ui.jar[j].refresh = ui.jar[k].refresh /\ ui.jar[j].refresh # None => j = k
  /\ \A j \in Jar, c \in calls : ui.jar[j].refresh = c.prev /\ c.prev # None => c.item = j
  /\ \A c \in calls : Stores(c) /\ c.answer.refresh # None =>
       /\ Token(c.answer.refresh)
       /\ \A j \in Jar : ui.jar[j].refresh # c.answer.refresh
       /\ \A d \in calls : d.prev # c.answer.refresh
       /\ \A d \in calls : Stores(d) /\ d.answer.refresh = c.answer.refresh => c = d

\* Tokens that the browsers hold, send and are about to get have not been used
\* up for long.
Fresh ==
  /\ ~server.alarm
  /\ \A c \in calls : Stores(c) /\ c.op # "logout" => c.answer.refresh \in Browser!Live
  /\ \A c \in calls : c.op = "refresh" /\ c.prev # None => server.tokens[c.prev] # "old"
  /\ \A j \in Jar : ui.jar[j].refresh # None =>
       \/ ui.jar[j].refresh \in Browser!Live
       \/ server.tokens[ui.jar[j].refresh] = "recent" /\ \E c \in calls : c.item = j /\ Stores(c)

SessionInv ==
  /\ SessionShape
  /\ clean => TabsAsk /\ AccessInv /\ Owned /\ Fresh /\ IsFiniteSet(calls)

-----------------------------------------------------------------------------
(* What a step does to the calls                                           *)

\* The same call, but for how far it has come.
Same(d, c) ==
  d.inst = c.inst /\ d.item = c.item /\ d.op = c.op /\ d.value = c.value /\ d.prev = c.prev

\* The server does one of these with a call.
Outcome(c, d) ==
  \/ /\ d.at = "denied" /\ server' = server
     /\ c.op \in {"get", "me"} => c.value # server.version
  \/ /\ c.op = "refresh" /\ c.prev # None
     /\ c.prev \notin Browser!Live /\ server.tokens[c.prev] # "recent"
     /\ d.at = "reused"
     /\ server' = [server EXCEPT !.tokens = Browser!Revoked(server.tokens), !.alarm = TRUE]
  \/ /\ c.op = "refresh" /\ c.prev \in Browser!Live
     /\ d.at = "ok"
     /\ d.answer = [access |-> server.version, refresh |-> Len(server.tokens) + 1]
     /\ server'.version = server.version /\ server'.alarm = server.alarm
     /\ server'.tokens = Append([server.tokens EXCEPT ![c.prev] = "recent"], "live")
  \/ /\ c.op = "logout" /\ d.at = "ok" /\ d.answer = Browser!NoCookies
     /\ server'.version = server.version /\ server'.alarm = server.alarm
     /\ server'.tokens = IF c.prev = None THEN server.tokens
                         ELSE [server.tokens EXCEPT ![c.prev] = "recent"]
  \/ /\ c.op = "login" /\ d.at = "ok"
     /\ d.answer = [access |-> server.version, refresh |-> Len(server.tokens) + 1]
     /\ server'.version = server.version /\ server'.alarm = server.alarm
     /\ server'.tokens = Append(server.tokens, "live")
  \/ /\ c.op = "change" /\ d.at = "ok"
     /\ d.answer = [access |-> server.version + 1, refresh |-> Len(server.tokens) + 1]
     /\ server'.version = server.version + 1 /\ server'.alarm = server.alarm
     /\ server'.tokens = Append(Browser!Revoked(server.tokens), "live")
     /\ clean' = (clean /\ Cardinality(Browser!Live \cup {e.prev : e \in calls}) < 2)
  \/ /\ c.op \in {"get", "me"} /\ c.value = server.version /\ d.at = "ok" /\ d.answer = None
     /\ server' = server

\* The calls that waited for a refresh go out again.
Resent(calls2, c) ==
  \A e \in calls2 :
    \/ e \in calls /\ e # c
    \/ \E d \in calls : /\ e.inst = d.inst /\ e.item = d.item /\ e.op = d.op /\ e.at = "out"
                        /\ e.value = c.answer.access /\ e.prev = c.answer.refresh
                        /\ d.inst = c.inst /\ d.at = "wait"

-----------------------------------------------------------------------------
(* The task dialogs keep their types                                       *)

\* A call carries what it writes and what it goes back to, and was answered
\* with a task if it asked for one.
Writes(op, value, prev) ==
  /\ op = "status" => value \in Status /\ prev \in Status
  /\ op = "flag" => value \in TaskPage!Flag /\ prev \in TaskPage!Flag
  /\ op = "text" => value \in Value
  /\ op = "owner" => value \in TaskPage!Owner

Carries(c) ==
  /\ Writes(c.op, c.value, c.prev)
  /\ TaskPage!Gets(c) /\ c.at = "ok" => c.answer \in TaskPage!Doc

\* The fields are edited from what was loaded, and the staff's dialog keeps
\* showing what it loaded.
Holds(u) ==
  /\ u.view # None => u.text \in Value
  /\ TaskPage!Staff /\ u.id = u.task => u.view \in TaskPage!Doc /\ u.text \in Value

TaskTyped ==
  /\ TaskPage!TypeOK
  /\ \A c \in calls : Carries(c)
  /\ ui # None => Holds(ui)

TaskOps == TaskPage!Writing \cup TaskPage!Reloading \cup {"text", "owner", "delete"}
TaskValues == Status \cup TaskPage!Flag \cup Value \cup TaskPage!Owner \cup {None}
TaskPrevs == Status \cup TaskPage!Flag \cup {None}

-----------------------------------------------------------------------------
(* Status and flag settle                                                  *)

\* A write that the server may still carry out, or that was refused.
Unserved(c, op) == c.op = op /\ c.step = 1 /\ c.at # "ok"

\* What is shown is what the last write will make it, or else what there is;
\* what a write goes back to was shown right before it.
Settling(op, S, shown, held) ==
  /\ \A c, d \in S : c.op = op /\ d.op = op => (c.value = d.value => c = d) /\ (c.id = d.id => c = d)
  /\ \A x, d, g \in S :
       /\ Unserved(x, op) /\ Unserved(d, op) /\ g.op = op
       /\ d.id < x.id /\ d.value = x.prev
       => g.id <= d.id \/ x.id <= g.id
  /\ \/ \E m \in S : Unserved(m, op) /\ m.value = shown /\ \A d \in S : d.op = op => d.id <= m.id
     \/ shown = held /\ \A d \in S : Unserved(d, op) => d.at = "no" /\ d.value # shown

\* What holds of a dialog, what it shows, its calls and the task, as long as
\* nothing spoilt it.
Tidy(inst, view, busy, S, doc) ==
  /\ \A c \in S : c.inst = inst
  /\ \A c, d \in S : c.op \in TaskPage!Writing => d.op \notin TaskPage!Reloading
  /\ \A c \in S : c.op \in TaskPage!Writing => view # None
  /\ \A c \in S : c.op \in TaskPage!Reloading /\ TaskPage!Gets(c) /\ c.at = "ok" =>
       c.answer.status = doc.status /\ c.answer.flag = doc.flag
  /\ view # None =>
       Settling("status", S, view.status, doc.status) /\ Settling("flag", S, view.flag, doc.flag)
  /\ \A c \in S : c.op = "status" /\ c.step = 2 /\ c.at = "ok" =>
       c.answer.status = c.value \/ doc.status # c.value
  /\ ~TaskPage!Staff =>
       /\ \A c \in S : c.op = "status" => busy /\ (Unserved(c, "status") => view.status = c.value)
       /\ \A c, d \in S : c.op = "status" /\ d.op = "status" => c = d
  /\ \A c \in S : c.op = "flag" => c.step = 1

TaskSettles ==
  /\ \A c \in calls : c.id < made
  /\ clean /\ ui # None => Tidy(ui.inst, ui.view, ui.busy, calls, server[ui.task])

Reads(c, doc) ==
  c.op \in TaskPage!Reloading /\ TaskPage!Gets(c) /\ c.at = "ok" =>
    c.answer.status = doc.status /\ c.answer.flag = doc.flag

-----------------------------------------------------------------------------
(* The boxes of a checklist                                               *)

CheckFields == {"rows", "adding", "loads", "newest"}

\* Handlers that will load when they end.
WillLoad(S) == \E c \in S : c.op \in {"toggle", "add"} /\ c.at = "ok"

Turned(S, i, s) == \E c \in S : c.op = "toggle" /\ c.item = i /\ c.prev = s /\ c.at = "ok"

\* Rows that the server had once: it has their items still.
Past(r, doc) ==
  doc \in Promotion!List /\ r \in Promotion!List /\ \A i \in Item : r[i] # None => doc[i] # None

\* Rows that a load brought are the server's, but for what was done since by
\* handlers that will load.
FreshRows(r, S, doc) ==
  /\ r # None
  /\ WillLoad(S) \/ r = doc
  /\ \A i \in Item, s \in Promotion!Sides :
       r[i] # None => r[i][s] = doc[i][s] \/ Turned(S, i, s)

\* A box that is being turned over is not turned over by anybody else, and
\* becomes what its label said.
Turns(S, doc) ==
  \A c \in S : c.op = "toggle" =>
    /\ c.at = "out" => doc[c.item][c.prev] # c.value
    /\ c.at = "read" => c.answer = c.value
    /\ c.at = "ok" => doc[c.item][c.prev] = c.value
    /\ \A d \in S : d.op = "toggle" /\ d.item = c.item /\ d.prev = c.prev => d = c

\* The newest load is shown, or still to come.
LoadsCome(u, S, doc) ==
  /\ u.newest = u.loads \/ \E m \in S : m.op = "list" /\ m.id = u.loads
  /\ u.newest = u.loads =>
       /\ \A m \in S : m.op = "list" => m.id # u.loads
       /\ FreshRows(u.rows, S, doc)
  /\ \A m \in S : m.op = "list" /\ m.id = u.loads /\ m.at = "ok" => FreshRows(m.answer["rows"], S, doc)

CheckCall(c, n, doc) ==
  /\ IsCall(c)
  /\ c.op \in {"list", "toggle", "add"}
  /\ c.at \in IF c.op = "toggle" THEN {"out", "read", "ok", "no"}
                                  ELSE {"out", "creating", "found", "ok", "no"}
  /\ c.at = "found" => c.op = "add" /\ doc \in Promotion!List
  /\ c.op = "list" =>
       /\ c.inst = None /\ c.id \in Nat /\ c.id <= n
       /\ c.at \in {"out", "creating"} => c.answer = [p \in {"rows"} |-> None]
       /\ c.at = "ok" => Past(c.answer["rows"], doc)
  /\ c.op = "toggle" =>
       /\ doc \in Promotion!List /\ c.item \in Item /\ doc[c.item] # None
       /\ c.prev \in Promotion!Sides /\ c.value \in BOOLEAN
       /\ c.at = "read" => c.answer \in BOOLEAN

CheckTyped ==
  /\ Promotion!TypeOK
  /\ ui = [f \in CheckFields |-> ui[f]]
  /\ ui.loads \in Nat
  /\ ui.rows # None => Past(ui.rows, server)
  /\ \A c \in calls : CheckCall(c, ui.loads, server)
  /\ \A c, d \in calls : c.op = "list" /\ d.op = "list" /\ c.id = d.id => c = d

CheckTidy == clean => Turns(calls, server) /\ LoadsCome(ui, calls, server)

\* A list only grows.
Grows(doc, doc2) ==
  doc \in Promotion!List =>
    doc2 \in Promotion!List /\ \A i \in Item : doc[i] # None => doc2[i] # None

-----------------------------------------------------------------------------
(* Task dialogs and checklists                                             *)

SettlesInv ==
  /\ page \in TaskPages => TaskTyped /\ TaskShows /\ TaskSettles
  /\ page = "checklist" => CheckTyped /\ CheckTidy

-----------------------------------------------------------------------------
(* Webhooks catch up                                                       *)

Listing(c) == Counting(c) /\ c.at \in {"out", "ok", "no"}

HooksSettle ==
  /\ \A c \in calls : c.op = "list" => Listing(c)
  /\ clean => CatchesUp(calls, {"create", "delete"}, Hooks!Live, ui.listed, ui.failed)

-----------------------------------------------------------------------------
(* The lists of accounts catch up                                          *)

UserOps == Accounts!Actions \cup {"list", "invite", "uninvite", "unlock", "sessions", "revoke"}

\* The changes after which a list is fetched again.
Changes(l) ==
  CASE l = "users" -> Accounts!Actions
    [] l = "invitations" -> {"invite", "uninvite"}
    [] l = "lockouts" -> {"unlock"}

UserCall(c) ==
  /\ c.op \in UserOps /\ c.at \in {"out", "ok", "no"}
  /\ c.op = "list" => c.item \in Accounts!Lists
  /\ c.op # "list" => c.item \in Item
  /\ c.op = "role" => c.value \in {"viewer", "admin"}

AccountFields == {"state", "locked", "devices"}

AreAccounts(accounts) ==
  /\ accounts = [i \in Item |-> accounts[i]]
  /\ \A i \in Item : accounts[i] = [f \in AccountFields |-> accounts[i][f]]

UsersTyped ==
  /\ AreAccounts(server)
  /\ ui.lists = [l \in Accounts!Lists |-> ui.lists[l]]
  /\ ui.target \in Item \cup {None} /\ ui.email \in Item \cup {None}
  /\ ui.for \in Item \cup {None}
  /\ \A c \in calls : UserCall(c)

FetchOf(c, l) == c.op = "list" /\ c.item = l

\* A list catches up, like the one list of other pages.
ListCatchesUp(l, content) ==
  /\ \A c \in calls : FetchOf(c, l) /\ c.at = "ok" => c.answer = content \/ Due(calls, Changes(l))
  /\ \/ ui.lists[l] = content \/ l \in ui.failed
     \/ Due(calls, Changes(l)) \/ \E c \in calls : FetchOf(c, l)

UsersSettle ==
  /\ UsersTyped
  /\ clean => \A l \in Accounts!Lists : ListCatchesUp(l, Accounts!Content(l))

-----------------------------------------------------------------------------
(* The conversations catch up                                              *)

Newest(c, p) == c.op \in {"list", "refresh"} /\ c.value = "latest" /\ c.item = p
Delivered(S, p) == \E c \in S : c.op = "send" /\ c.at = "ok" /\ c.item = p

\* A conversation catches up, unless it is neither shown nor cached.
ThreadCatchesUp(p, messages, S, u) ==
  /\ \A c \in S : Newest(c, p) /\ c.at = "ok" => c.answer = messages \/ Delivered(S, p)
  /\ \/ p # u.active /\ u.cache[p] = None
     \/ u.failed[p] \/ u.cache[p] = messages
     \/ Delivered(S, p) \/ \E c \in S : Newest(c, p)

ThreadsSettle ==
  /\ ui.active \in Item
  /\ ui.cache = [p \in Item |-> ui.cache[p]] /\ ui.failed = [p \in Item |-> ui.failed[p]]
  /\ server = [p \in Item |-> server[p]]
  /\ \A c \in calls : c.item \in Item
  /\ clean => \A p \in Item : ThreadCatchesUp(p, server[p], calls, ui)

-----------------------------------------------------------------------------
(* The settings catch up                                                   *)

ServerFields == {"offered", "connected", "prefs"}

Own(c, u) == c.inst = u.inst
AsksEmployee(c, u) == c.op \in {"employee", "again"} /\ Own(c, u)

\* The preferences are loaded, or saved once, and not both.
FlagsTell(S, u) ==
  /\ \A c \in S : c.op = "save" /\ Own(c, u) => u.saving /\ ~u.prefsLoading
  /\ \A c \in S : c.op = "prefs" /\ Own(c, u) => u.prefsLoading
OneAtATime(S, inst) ==
  \A c, d \in S : c.op = d.op /\ c.op \in {"save", "prefs"} /\ c.inst = inst /\ d.inst = inst => c = d
PrefsInTurn(S, u) == FlagsTell(S, u) /\ OneAtATime(S, u.inst)

\* The connections catch up, and so do the preferences.
ConnectionsCatchUp(S, u, connected) ==
  /\ \A c \in S : AsksEmployee(c, u) /\ c.at = "ok" => c.answer = connected
  /\ \/ u.employee \in {None, connected}
     \/ \E c \in S : c.op = "disconnect" /\ c.at = "ok" /\ Own(c, u)
     \/ \E c \in S : AsksEmployee(c, u)

PrefsCatchUp(S, u, prefs) ==
  /\ \A c \in S : c.op \in {"prefs", "save"} /\ Own(c, u) /\ c.at = "ok" => c.answer = prefs
  /\ u.prefs \in {None, prefs} \/ \E c \in S : c.op = "save" /\ Own(c, u)

SettingsKeep ==
  /\ ui = [f \in SettingsFields |-> ui[f]] /\ AreCalls(calls)
  /\ server = [f \in ServerFields |-> server[f]]
  /\ ui.inst \in Nat /\ \A c \in calls : c.inst \in 0..ui.inst
  /\ PrefsInTurn(calls, ui)
  /\ clean => /\ ConnectionsCatchUp(calls, ui, server.connected)
              /\ PrefsCatchUp(calls, ui, server.prefs)

-----------------------------------------------------------------------------
(* The outcomes catch up                                                   *)

\* A change that was carried out and whose handler will load.
Carried(S) == \E c \in S : c.op \in {"put", "force", "quick", "bulk"} /\ c.at = "ok"

\* A load that started after the k-th.
LoadsAfter(S, k) == \E l \in S : l.op = "list" /\ l.id > k

\* Loads are counted, and bring both parts.
Numbered(S, loads, newest) ==
  /\ loads \in Nat /\ newest \in Nat /\ newest <= loads
  /\ \A c \in S : c.op = "list" => c.id \in Nat /\ c.id <= loads

BringsParts(c) ==
  /\ c.answer = [p \in Funnels!Parts |-> c.answer[p]]
  /\ c.at = "ok" => c.answer["rows"] # None /\ c.answer["funnel"] # None

Full(S) == \A c \in S : c.op = "list" /\ c.at \in {"out", "ok"} => BringsParts(c)

\* What a load brings is what there is, unless a change was carried out or
\* another load comes after it; and so is what is shown.
PartsCatchUp(S, newest, doc, count) ==
  \A c \in S : c.op = "list" /\ c.id > newest /\ c.at \in {"out", "ok"} =>
    \/ Carried(S) \/ LoadsAfter(S, c.id)
    \/ c.answer["rows"] \in {None, doc} /\ c.answer["funnel"] \in {None, count}

RowsCatchUp(S, newest, rows, funnel, doc, count) ==
  Carried(S) \/ LoadsAfter(S, newest) \/ (rows = doc /\ funnel = count)

OutcomesKeep ==
  /\ Numbered(calls, ui.loads, ui.newest)
  /\ Full(calls)
  /\ clean => /\ PartsCatchUp(calls, ui.newest, server, Funnels!Funnel(server))
              /\ RowsCatchUp(calls, ui.newest, ui.rows, ui.funnel, server, Funnels!Funnel(server))

\* A handler that is through loads, and may load twice.
NewLoads(loads, n) == {Funnels!Load(k, Funnels!Parts) : k \in (loads + 1)..(loads + n)}

LoadingAgain(S, c, loads, n) == (S \ {c}) \cup NewLoads(loads, n)

-----------------------------------------------------------------------------
(* The project boards catch up                                             *)

\* A change that was carried out and whose handler will fetch the list.
Stored(S) == \E c \in S : c.op \in Projects!Moves /\ c.step = 1 /\ c.at = "ok"

FetchesUp(S, doc, shown, failed) ==
  /\ \A c \in S : Counting(c) /\ c.at = "ok" => c.answer = doc \/ Stored(S)
  /\ shown = doc \/ failed \/ Stored(S) \/ \E c \in S : Counting(c)

\* Lists have a column for every item.
OverItems(list) == list = [i \in Item |-> list[i]]

ListsAreFull(S, shown) ==
  /\ \A c \in S : Counting(c) /\ c.at = "ok" => OverItems(c.answer)
  /\ shown = None \/ OverItems(shown)

\* A partner's change that is neither carried out nor rolled back.
Unsettled(c) == c.op \in Projects!Moves /\ c.step = 1 /\ c.at # "ok"

Known(c) == c.op = "list" \/ c.op \in Projects!Moves

PortalCalls(S) ==
  \A c \in S : c.op \in {"list", "move", "toggle"} /\ (c.op # "list" => c.item \in Item)

\* One change at a time, each item is drawn as it was fetched, as the server has
\* it or as it was dragged just now.
DrawnWell(S, board, shown, doc) ==
  /\ board = shown \/ OverItems(board)
  /\ \A c, d \in S : c.op \in Projects!Moves /\ d.op \in Projects!Moves => c = d
  /\ \A i \in Item : \/ board[i] \in {shown[i], doc[i]}
                     \/ \E c \in S : Unsettled(c) /\ c.item = i
  /\ \A c \in S : Unsettled(c) =>
       \/ board[c.item] = shown[c.item]
       \/ Projects!RollsBack(c) /\ board[c.item] = c.value

BoardsKeep ==
  /\ FetchesUp(calls, server, ui.shown, ui.failed)
  /\ ListsAreFull(calls, ui.shown)
  /\ \A c \in calls : Known(c)
  /\ Projects!Staff => ui.board = ui.shown
  /\ ~Projects!Staff => PortalCalls(calls)
  /\ ~Projects!Staff /\ clean => /\ DrawnWell(calls, ui.board, ui.shown, server)
                                 /\ ui.rows => ui.board = ui.shown

\* While no move is under way, the day is as the backend has it or a list is;
\* a list that was answered before a move was dropped when it started.
DayCatchesUp ==
  /\ ui = [items |-> ui.items, dragged |-> ui.dragged]
  /\ \A c \in calls : IsCall(c)
  /\ \/ \E c \in calls : c.op = "relocate"
     \/ /\ \A c \in calls : c.op = "list" /\ c.at = "ok" => c.answer = server
        /\ ui.items = server \/ \E c \in calls : c.op = "list"

-----------------------------------------------------------------------------
(* All pages catch up                                                      *)

CatchInv ==
  /\ page = "board" => BoardKeeps
  /\ page \in Boards => BoardsKeep
  /\ page \in Managers => RecordsSettle
  /\ page = "users" => UsersSettle
  /\ page = "webhooks" => HooksSettle
  /\ page \in Bells => InboxKeeps
  /\ page = "settings" => SettingsKeep
  /\ page = "day" => DayCatchesUp
  /\ page = "outcomes" => OutcomesKeep
  /\ page = "messages" => ThreadsSettle

-----------------------------------------------------------------------------
(* The layout of a day                                                     *)

\* R orders S.


Linear(S, R) ==
  /\ \A x \in S : <<x, x>> \notin R
  /\ \A x, y \in S : x = y \/ <<x, y>> \in R \/ <<y, x>> \in R
  /\ \A x, y, z \in S : <<x, y>> \in R /\ <<y, z>> \in R => <<x, z>> \in R

\* x is the last of S.
Latest(S, R, x) == \A y \in S \ {x} : <<y, x>> \in R

\* The items of S in the order R.
Ascends(seq, S, R) ==
  /\ seq \in [1..Cardinality(S) -> S]
  /\ \A m, n \in 1..Cardinality(S) : m < n => <<seq[m], seq[n]>> \in R

\* What a fold over seq makes of the items that are in the set.
Made(g, set, seq) ==
  IF set = {} THEN <<>>
  ELSE Calendar!Assign(g[set \ {Calendar!Max(set)}], seq[Calendar!Max(set)])

\* The sets of at most k of n positions.
UpTo(n, k) == {T \in SUBSET (1..n) : Cardinality(T) <= k}

\* Of n schedules it is known when they are, whose and where.
DayTyped(n) == n \in Nat /\ ui.items \in [1..n -> Calendar!Drawn]

\* A schedule is put into the first column that is over when it begins, or into
\* a new one.
AssignedTo(n, C, i, D, k) ==
  /\ D \in Seq(Seq(1..n))
  /\ k \in 1..(Len(C) + 1)
  /\ k <= Len(C) => /\ Len(D) = Len(C)
                    /\ D[k] = Append(C[k], i)
                    /\ Calendar!Finishes(C[k][Len(C[k])]) <= Calendar!Begins(i)
  /\ k > Len(C) => Len(D) = k /\ D[k] = Append(<<>>, i)
  /\ \A l \in 1..Len(C) : l # k => D[l] = C[l]
  /\ \A l \in 1..Len(C) : l < k => Calendar!Begins(i) < Calendar!Finishes(C[l][Len(C[l])])

\* What is in a column, and what is last in it.
Within(C, k) == {C[k][p] : p \in 1..Len(C[k])}
Final(C, k) == C[k][Len(C[k])]

\* The columns after m schedules: each of those is in one of them, what is in
\* one column does not overlap, and a schedule is kept out of every earlier
\* column by another that goes on when it begins.
PackedSoFar(n, m, C) ==
  /\ C \in Seq(Seq(1..n))
  /\ \A k \in 1..Len(C) : C[k] # <<>>
  /\ \A k \in 1..Len(C) : \A i \in Within(C, k) :
       /\ \E q \in 1..m : i = Calendar!Sorted[q]
       /\ Calendar!Finishes(i) <= Calendar!Finishes(Final(C, k))
  /\ \A q \in 1..m : \E k \in 1..Len(C) : Calendar!Sorted[q] \in Within(C, k)
  /\ \A k, l \in 1..Len(C) : \A i \in Within(C, k) : i \in Within(C, l) => k = l
  /\ \A k \in 1..Len(C) : \A i, j \in Within(C, k) : i # j =>
       Calendar!Finishes(i) <= Calendar!Begins(j) \/ Calendar!Finishes(j) <= Calendar!Begins(i)
  /\ \A k, l \in 1..Len(C) : \A i \in Within(C, k) : l < k =>
       \E j \in Within(C, l) : /\ Calendar!Begins(j) <= Calendar!Begins(i)
                               /\ Calendar!Begins(i) < Calendar!Finishes(j)

\* The schedules that the backend has begin and end on the day, also in the lists
\* that it answers; a drag asks for times for one of them.
DayKept ==
  \E n \in Nat :
    /\ DayTyped(n)
    /\ n <= Length
    /\ server \in [1..n -> Calendar!Booking]
    /\ ui = [items |-> ui.items, dragged |-> ui.dragged]
    /\ ui.dragged \in 1..n \cup {None}
    /\ \A c \in calls : IsCall(c) /\ Calendar!Asks(c, n)

-----------------------------------------------------------------------------
(* Types                                                                   *)

\* What a run bounds is counted, and clean is a flag.
Counted == made \in 0..MaxCalls[page] /\ faults \in 0..MaxFaults /\ clean \in BOOLEAN

\* So a step leaves it.
Tallies ==
  /\ made' \in {made, made + 1} /\ (made' # made => made < MaxCalls[page])
  /\ faults' \in {faults, faults + 1} /\ (faults' # faults => faults < MaxFaults)
  /\ clean' \in BOOLEAN

\* What calls ask for, and the lists that arrive.
Arrived(c) == c.op = "list" /\ c.value = "latest" /\ c.at = "ok"

Asking(S, asks, list) ==
  \A c \in S : /\ IsCall(c)
               /\ <<c.op, c.item, c.value>> \in asks
               /\ Arrived(c) => c.answer \in list

\* The schedule board.
BoardAsks ==
  ({"list"} \X Board!Keys \X {"latest", "overtaken"})
    \cup ({"status"} \X Item \X Status)
    \cup ({"relocate"} \X Item \X Value)
    \cup ({"bulk status"} \X (SUBSET Item) \X Status)
    \cup ({"bulk delete"} \X (SUBSET Item) \X {None})

BoardCalls(S) == Asking(S, BoardAsks, Board!List)
BoardTyped == server \in Board!List /\ ui \in Board!Ui /\ BoardCalls(calls)

\* The project boards.
Gate == [item : Item, from : Projects!Lane, to : Projects!Lane]
ProjectAsks ==
  ({"list"} \X {None} \X {"latest", "overtaken"})
    \cup ({"move", "toggle", "advance", "force", "add"} \X Item \X Projects!Lane)
    \cup ({"delete"} \X Item \X {None})

\* What a warning says, and what a failed drag goes back to.
AsksBack(c) ==
  /\ c.at = "warn" => c.op = "advance" /\ c.answer \in Gate
  /\ ~Projects!Staff /\ c.op = "move" => c.prev \in Projects!List \cup {None}

ProjectsTyped ==
  /\ server \in Projects!List /\ ui \in Projects!Ui /\ Asking(calls, ProjectAsks, Projects!List)
  /\ \A c \in calls : AsksBack(c)

\* The managers.
RecordAsks ==
  ({"list"} \X {None} \X {"latest", "overtaken"})
    \cup ({"drive"} \X {None} \X Value)
    \cup ({"save"} \X (Item \cup {None}) \X Lookups!Doc)
    \cup ({"delete"} \X Item \X {None})
\* A lookup brings a value.
Looked(S) == \A c \in S : c.op = "drive" /\ c.at = "ok" => c.answer \in Value
RecordsTyped ==
  /\ server \in Lookups!List /\ ui \in Lookups!Ui
  /\ Asking(calls, RecordAsks, Lookups!List) /\ Looked(calls)

\* The accounts.
\* A list that was fetched, and whose sessions were.
Brings(c) ==
  /\ c.op = "list" /\ c.at = "ok" =>
       c.answer \in IF c.item = "users" THEN [Item -> Accounts!State \cup {None}] ELSE SUBSET Item
  /\ c.op = "sessions" /\ c.at = "ok" => c.answer \in Item \cup {None}
AccountsTyped ==
  server \in [Item -> Accounts!Account] /\ ui \in Accounts!Ui /\ \A c \in calls : Brings(c)

\* The webhooks.
HookAsks ==
  {<<"list", None, "latest">>}
    \cup ({"create", "rotate"} \X Item \X Nat)
    \cup ({"delete"} \X Item \X {None})
HooksTyped ==
  server \in [Item -> Nat \cup {None}] /\ ui \in Hooks!Ui /\ Asking(calls, HookAsks, SUBSET Item)

\* The numbers.
ReportsUi == [filter : Item, shown : Item \cup {None}, loading : BOOLEAN,
              failed : BOOLEAN, cached : SUBSET Item, inst : Nat]
ReportAsks == {"report"} \X Item \X {None}
ReportsTyped == server = None /\ ui \in ReportsUi /\ Asking(calls, ReportAsks, {})

\* The schedule form.
FormUi ==
  [inst : Nat \cup {None}, edit : Single \cup {None}, slot : Value \cup {None}, shown : Value \cup {None},
   failed : BOOLEAN, due : BOOLEAN, override : BOOLEAN, loading : BOOLEAN, discard : BOOLEAN,
   scope : {"this", "future"}, ask : BOOLEAN, deleting : BOOLEAN, refused : Value \cup {None},
   overlap : BOOLEAN]
FormCall(c) == c.op \in {"check", "leg", "save", "delete", "series"} /\ c.value \in Value \cup {None}
FormTyped == server \in [Value -> Form!Kinds] /\ ui \in FormUi /\ \A c \in calls : FormCall(c)

\* The import.
ImportUi ==
  [inst : Nat, open : BOOLEAN, file : Item \cup {None}, preview : Item \cup {None},
   uploading : BOOLEAN, committing : BOOLEAN]

\* The imports that the server may still carry out.
Commits(S) == {c \in S : c.op = "commit" /\ c.at = "out"}

\* As many imports as were asked for.
ImportCounts(S, imported, n) == \A i \in Item : imported[i] + Cardinality(Commits(S)) <= n

ImportTyped ==
  /\ server \in [valid : SUBSET Item, imported : [Item -> Nat]]
  /\ ui \in ImportUi
  /\ \A c \in calls : IsCall(c) /\ c.op \in {"preview", "commit"} /\ c.item \in Item
  /\ IsFiniteSet(calls)
  /\ ImportCounts(calls, server.imported, made)

\* The inboxes.
InboxUi == [open : BOOLEAN, at : {"idle", "loading", "ready"}, rows : [Item -> Bell!Row],
            alerts : SUBSET Item, hidden : SUBSET Item, failed : BOOLEAN]
InboxServer == [row : [Item -> {None, "unread", "read", "dismissed"}], alerts : SUBSET Item]
InboxCall(c) ==
  /\ c.item \in Item \cup {None}
  /\ c.op \in {"read", "read each", "dismiss"} => c.item \in Item
  /\ c.op = "poll" => /\ c.value \in BOOLEAN
                      /\ c.answer.rows \in [Item -> Bell!Row] \cup {None}
                      /\ c.answer.alerts \in (SUBSET Item) \cup {None}
InboxTyped == server \in InboxServer /\ ui \in InboxUi /\ \A c \in calls : InboxCall(c)

\* The settings.
SettingsUi ==
  [inst : Nat, loading : BOOLEAN, employee : (SUBSET Item) \cup {None}, offered : SUBSET Item,
   prefs : Value \cup {None}, prefsLoading : BOOLEAN, saving : BOOLEAN, password : BOOLEAN,
   changing : BOOLEAN]
SettingsServer == [offered : SUBSET Item, connected : SUBSET Item, prefs : Value]
SettingCall(c) ==
  /\ IsCall(c) /\ c.item \in Item \cup {None}
  /\ c.op = "connect" => c.item \in Item
  /\ c.op = "save" => c.value \in Value
  /\ c.op \in {"employee", "again", "config"} /\ c.at = "ok" => c.answer \in SUBSET Item
  /\ c.op \in {"prefs", "save"} /\ c.at = "ok" => c.answer \in Value
SettingsTyped == server \in SettingsServer /\ ui \in SettingsUi /\ \A c \in calls : SettingCall(c)

\* The outcomes.
Tallied == [Funnels!Statuses -> 0..Cardinality(Item)]
OutcomesUi ==
  [rows : Funnels!List \cup {None}, funnel : Tallied \cup {None}, warning : Funnels!Warning \cup {None},
   quick : BOOLEAN, bulk : {"text", "preview", None}, adding : BOOLEAN, quickAdding : BOOLEAN,
   loads : Nat, newest : Nat]
OutcomeCall(c) ==
  /\ c.op \in {"put", "force"} => c.value \in Funnels!Statuses
  /\ c.at = "warn" => {c.answer, c.value} \subseteq DOMAIN Funnels!Rank
  /\ c.op = "list" /\ c.at \in {"out", "ok"} =>
       c.answer["rows"] \in Funnels!List \cup {None} /\ c.answer["funnel"] \in Tallied \cup {None}
OutcomesTyped == server \in Funnels!List /\ ui \in OutcomesUi /\ \A c \in calls : OutcomeCall(c)

\* The conversations.
ThreadsUi ==
  [active : Item, cache : [Item -> Threads!Messages \cup {None}], failed : [Item -> BOOLEAN], inst : Nat,
   draft : Item \cup {None}, sending : BOOLEAN, delivery : Item \cup {None}]
ThreadCall(c) ==
  /\ IsCall(c) /\ c.item \in Item
  /\ c.op = "send" => c.id \in 0..(MaxCalls["messages"] - 1)
  /\ c.op \in Threads!Fetches /\ c.value = "latest" /\ c.at = "ok" => c.answer \in Threads!Messages
ThreadsTyped ==
  server \in [Item -> Threads!Messages] /\ ui \in ThreadsUi /\ \A c \in calls : ThreadCall(c)

\* What each page keeps, but for what its other invariants say of types.
TypesInv ==
  /\ page \in Pages
  /\ Counted
  /\ page = "board" => BoardTyped
  /\ page \in Boards => ProjectsTyped
  /\ page \in Managers => RecordsTyped
  /\ page = "users" => AccountsTyped
  /\ page = "webhooks" => HooksTyped
  /\ page \in Figures => ReportsTyped
  /\ page = "form" => FormTyped
  /\ page = "wizard" => server = None
  /\ page = "import" => ImportTyped
  /\ page \in Bells => InboxTyped
  /\ page = "settings" => SettingsTyped
  /\ page = "day" => DayKept
  /\ page = "outcomes" => OutcomesTyped
  /\ page = "messages" => ThreadsTyped

=============================================================================
