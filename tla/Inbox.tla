------------------------------- MODULE Inbox -------------------------------
(***************************************************************************)
(* The bell of the staff and of a partner.  It shows the rows of the       *)
(* stored inbox and, for the staff, live alerts that the backend computes  *)
(* on every poll.  Reading and dismissing show at once and are sent behind *)
(* the user's back; what goes wrong there the next poll puts right.        *)
(***************************************************************************)
EXTENDS Requests

CONSTANT Item

Portal == page = "portal inbox"

\* A row of the inbox is not written yet, unread, read or dismissed; an alert
\* is raised or not.
Kept == {"unread", "read"}
Rows == [i \in Item |-> IF server.row[i] \in Kept THEN server.row[i] ELSE None]

Init ==
  /\ page \in {"inbox", "portal inbox"}
  /\ server = [row |-> [i \in Item |-> None], alerts |-> {}]
  /\ ui = [open |-> FALSE, at |-> "idle", rows |-> [i \in Item |-> None],
           alerts |-> {}, hidden |-> {}, failed |-> FALSE]
  /\ calls = {}
  /\ made = 0
  /\ faults = 0
  /\ clean = FALSE

Shown(i) == ui.rows[i] # None

Polls == {c \in calls : c.op = "poll"}
Writes == calls \ Polls

\* A poll is undisturbed while no row is changed by anyone else and nothing of
\* the panel is on its way; only such a poll is sure to be up to date.
Disturb(cs) == {IF c.op = "poll" THEN [c EXCEPT !.value = FALSE] ELSE c : c \in cs}

Poll(id, quiet) ==
  [Call(id, 0, None, "poll", quiet, None)
     EXCEPT !.answer = [pending |-> IF Portal THEN {"rows"} ELSE {"rows", "alerts"},
                        rows |-> None, alerts |-> None]]

-----------------------------------------------------------------------------
(* Fetching                                                                *)

\* The staff's panel polls from the first time that it is opened, and aborts
\* a poll under way; the partner's loads when it is opened and polls then.
Bell ==
  /\ IF ui.open \/ ui.at # "idle"
       THEN /\ ui' = [ui EXCEPT !.open = ~@]
            /\ UNCHANGED <<calls, made>>
       ELSE /\ Counts
            /\ ui' = [ui EXCEPT !.open = TRUE, !.at = "loading"]
            /\ calls' = calls \cup {Poll(made, Writes = {})}
  /\ UNCHANGED <<page, server, faults, clean>>

ClickElsewhere ==
  /\ ui.open
  /\ ui' = [ui EXCEPT !.open = FALSE]
  /\ UNCHANGED <<page, server, calls, made, faults, clean>>

Polling == calls' = (IF Portal THEN calls ELSE Writes) \cup {Poll(made, Writes = {})}

\* The interval, or the tab is visible again.
Tick ==
  /\ ui.at # "idle"
  /\ Counts /\ Polling
  /\ UNCHANGED <<page, server, ui, faults, clean>>

Retry ==
  /\ ui.open /\ ui.failed
  /\ Counts /\ Polling
  /\ ui' = [ui EXCEPT !.failed = FALSE, !.at = "loading"]
  /\ UNCHANGED <<page, server, faults, clean>>

\* The partner's failed write asks for the rows again.
Reload(cs) ==
  IF Portal THEN cs \cup {Poll(MaxCalls[page], cs \subseteq Polls)} ELSE cs

\* The staff's panel waits for both of its requests; the partner's has one.
Settled(c) == c.answer.pending = {}

\* What a request that failed should have brought stays as it was.
Or(new, old) == IF new = None THEN old ELSE new

Polled(c) ==
  /\ c.op = "poll" /\ Settled(c)
  /\ ui' = [ui EXCEPT !.at = "ready",
                      !.rows = Or(c.answer.rows, @),
                      !.alerts = Or(c.answer.alerts, @),
                      !.failed = c.answer.rows = None /\ c.answer.alerts = None]
  /\ clean' = IF c.answer.rows = None THEN clean ELSE c.value
  /\ Ends(c)
  /\ UNCHANGED <<page, server, made, faults>>

-----------------------------------------------------------------------------
(* Reading and dismissing                                                  *)

Read(rows, which) == [i \in Item |-> IF i \in which /\ rows[i] = "unread" THEN "read" ELSE rows[i]]
Unread == {i \in Item : ui.rows[i] = "unread"}

\* The panel shows the change and sends it.
Write(u, items, op) ==
  /\ Counts
  /\ ui' = u
  /\ calls' = Disturb(calls) \cup {Call(made, 0, i, op, None, None) : i \in items}
  /\ UNCHANGED <<page, server, faults, clean>>

\* A click on a row reads it; its link is followed, and the panel closes, when
\* that was answered.
Click(i) ==
  /\ ui.open /\ Shown(i)
  /\ IF ui.rows[i] = "unread"
       THEN Write([ui EXCEPT !.rows = Read(@, {i})], {i}, "read")
       ELSE ui' = [ui EXCEPT !.open = FALSE] /\ UNCHANGED <<page, server, calls, made, faults, clean>>

Dismiss(i) ==
  /\ ui.open /\ Shown(i)
  /\ Write([ui EXCEPT !.rows[i] = None], {i}, "dismiss")

\* One request for all of the staff's rows; one for each of the partner's.
ReadAll ==
  /\ ui.open /\ Unread # {}
  /\ Write([ui EXCEPT !.rows = Read(@, Item)], IF Portal THEN Unread ELSE {None},
           IF Portal THEN "read each" ELSE "read all")

\* Live alerts are hidden in this panel only.
DismissAll ==
  /\ ~Portal /\ ui.open
  /\ (\E i \in Item : Shown(i)) \/ ui.alerts \ ui.hidden # {}
  /\ Write([ui EXCEPT !.rows = [i \in Item |-> None], !.hidden = ui.alerts], {None}, "dismiss all")

HideAlert(i) ==
  /\ ui.open /\ i \in ui.alerts \ ui.hidden
  /\ ui' = [ui EXCEPT !.hidden = @ \cup {i}]
  /\ UNCHANGED <<page, server, calls, made, faults, clean>>

Written(c) ==
  /\ c.op # "poll" /\ c.at = "ok"
  /\ ui' = IF c.op = "read" THEN [ui EXCEPT !.open = FALSE] ELSE ui
  /\ Ends(c)
  /\ UNCHANGED <<page, server, made, faults, clean>>

\* The staff's panel ignores the failure: the next poll shows the row again.
WriteFails(c) ==
  /\ c.op # "poll" /\ c.at = "no"
  /\ ui' = IF c.op = "read" THEN [ui EXCEPT !.open = FALSE] ELSE ui
  /\ calls' = Reload(calls \ {c})
  /\ clean' = FALSE
  /\ UNCHANGED <<page, server, made, faults>>

-----------------------------------------------------------------------------
(* The backend                                                             *)

\* A row is written, or alerts come and go.
Notify(i) ==
  /\ server.row[i] = None
  /\ server' = [server EXCEPT !.row[i] = "unread"]
  /\ calls' = Disturb(calls)
  /\ clean' = FALSE
  /\ UNCHANGED <<page, ui, made, faults>>

Alert(alerts) ==
  /\ ~Portal /\ alerts # server.alerts
  /\ server' = [server EXCEPT !.alerts = alerts]
  /\ UNCHANGED <<page, ui, calls, made, faults, clean>>

PollServed(c) ==
  /\ c.op = "poll"
  /\ \/ /\ "rows" \in c.answer.pending
        /\ Replace(c, [c EXCEPT !.answer.rows = Rows, !.answer.pending = @ \ {"rows"}])
     \/ /\ "alerts" \in c.answer.pending
        /\ Replace(c, [c EXCEPT !.answer.alerts = server.alerts, !.answer.pending = @ \ {"alerts"}])
  /\ UNCHANGED <<page, server, ui, made, faults, clean>>

PollFails(c) ==
  /\ c.op = "poll" /\ ~Settled(c)
  /\ faults < MaxFaults
  /\ faults' = faults + 1
  /\ Replace(c, [c EXCEPT !.answer.pending = {}])
  /\ UNCHANGED <<page, server, ui, made, clean>>

Serve(c) ==
  /\ c.op # "poll" /\ c.at = "out"
  /\ Answered(c, None)
  /\ server' = [server EXCEPT !.row =
       CASE c.op \in {"read", "read each"} -> Read(@, {c.item})
         [] c.op = "read all" -> Read(@, Item)
         [] c.op = "dismiss" -> [@ EXCEPT ![c.item] = "dismissed"]
         [] c.op = "dismiss all" -> [i \in Item |-> IF @[i] \in Kept THEN "dismissed" ELSE @[i]]]
  /\ UNCHANGED <<page, ui, made, faults, clean>>

Refuse(c) ==
  /\ c.op # "poll" /\ c.at = "out"
  /\ Fault(c)
  /\ UNCHANGED <<page, server, ui, made, clean>>

-----------------------------------------------------------------------------
Next ==
  \/ Bell \/ ClickElsewhere \/ Tick \/ Retry \/ ReadAll \/ DismissAll
  \/ \E i \in Item : Click(i) \/ Dismiss(i) \/ HideAlert(i) \/ Notify(i)
  \/ \E alerts \in SUBSET Item : Alert(alerts)
  \/ \E c \in calls :
       Polled(c) \/ Written(c) \/ WriteFails(c) \/ PollServed(c) \/ PollFails(c) \/ Serve(c) \/ Refuse(c)

Spec == Init /\ [][Next]_vars

-----------------------------------------------------------------------------
(* Properties                                                              *)

Row == {"unread", "read", None}

\* Every variable keeps its type.
TypeOK ==
  /\ page \in {"inbox", "portal inbox"}
  /\ server \in [row : [Item -> {None, "unread", "read", "dismissed"}], alerts : SUBSET Item]
  /\ ui \in [open : BOOLEAN, at : {"idle", "loading", "ready"}, rows : [Item -> Row],
             alerts : SUBSET Item, hidden : SUBSET Item, failed : BOOLEAN]
  /\ \A c \in calls : c.item \in Item \cup {None}
  /\ made \in 0..MaxCalls[page] /\ faults \in 0..MaxFaults
  /\ clean \in BOOLEAN

\* "Next poll will reconcile any partial failure": after a poll that nothing
\* disturbed (clean), the panel shows the inbox as it is, also when it was
\* changed in the panel since and every change was taken.
InboxReconciles == clean /\ calls = {} => ui.rows = Rows

\* The panel waits for rows only while a poll is under way.
NoStuckBell == ui.at = "loading" => Polls # {}
=============================================================================
