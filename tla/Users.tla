------------------------------- MODULE Users -------------------------------
(***************************************************************************)
(* The administrator's page of accounts.  Its three lists are plain states *)
(* that an answer overwrites whenever it comes: nothing tells the fetch    *)
(* that is the latest.  The dialog of an account's sessions is one, too.   *)
(***************************************************************************)
EXTENDS Requests

CONSTANT Item

State == {"none", "invited", "pending", "rejected", "viewer", "admin"}
Account == [state : State, locked : BOOLEAN, devices : BOOLEAN]
Lists == {"users", "invitations", "lockouts"}

\* What the endpoints of the lists answer.
Contents(accounts) ==
  [users |-> [i \in Item |-> IF accounts[i].state \in {"none", "invited"} THEN None
                                                              ELSE accounts[i].state],
   invitations |-> {i \in Item : accounts[i].state = "invited"},
   lockouts |-> {i \in Item : accounts[i].locked}]

Content(list) == Contents(server)[list]

Fetches(list) == Call(None, None, list, "list", None, None)
Fetching(list) == \E c \in calls : c.op = "list" /\ c.item = list

\* The page has loaded its lists.
Init ==
  /\ page = "users"
  /\ server \in [Item -> {[state |-> s, locked |-> s = "viewer", devices |-> TRUE] :
                          s \in {"none", "pending", "viewer"}}]
  /\ ui = [lists |-> Contents(server), failed |-> {},
           dialog |-> FALSE, email |-> None, sent |-> None, inviting |-> FALSE,
           for |-> None, sessions |-> None, spinner |-> FALSE, revoking |-> FALSE,
           target |-> None]
  /\ calls = {}
  /\ made = 0
  /\ faults = 0
  /\ clean = TRUE

ListArrives(c) ==
  /\ c.op = "list" /\ c.at # "out"
  /\ ui' = [ui EXCEPT !.lists[c.item] = IF c.at = "ok" THEN c.answer ELSE @,
                      !.failed = IF c.at = "ok" THEN @ \ {c.item} ELSE @ \cup {c.item}]
  /\ Ends(c)
  /\ UNCHANGED <<page, server, made, faults, clean>>

\* A handler that ends by fetching a list.
EndsAndFetches(c, list) ==
  /\ calls' = (calls \ {c}) \cup {Fetches(list)}
  /\ clean' = (clean /\ ~Fetching(list))

\* Dialogs are modal.
Behind == ~ui.dialog /\ ui.for = None /\ ui.target = None

Shown(i) == ui.lists.users[i]

-----------------------------------------------------------------------------
(* Accounts: useUserAdminActions                                           *)

Actions == {"approve", "reject", "role", "delete"}

Act(i, op, value) ==
  /\ Start(0, i, op, value, None)
  /\ UNCHANGED <<page, server, faults, clean>>

Decide(i, op) ==
  /\ Behind
  /\ Shown(i) = "pending" /\ op \in {"approve", "reject"}
  /\ UNCHANGED ui
  /\ Act(i, op, None)

ChangeRole(i, role) ==
  /\ Behind
  /\ Shown(i) \in {"viewer", "admin", "rejected"} /\ role \in {"viewer", "admin"} \ {Shown(i)}
  /\ UNCHANGED ui
  /\ Act(i, "role", role)

RequestDelete(i) ==
  /\ Behind
  /\ Shown(i) \in {"viewer", "admin", "rejected"}
  /\ ui' = [ui EXCEPT !.target = i]
  /\ UNCHANGED <<page, server, calls, made, faults, clean>>

CancelDelete ==
  /\ ui.target # None
  /\ ui' = [ui EXCEPT !.target = None]
  /\ UNCHANGED <<page, server, calls, made, faults, clean>>

\* The dialog closes before the request goes out.
ConfirmDelete ==
  /\ ui.target # None
  /\ ui' = [ui EXCEPT !.target = None]
  /\ Act(ui.target, "delete", None)

Acted(c) ==
  /\ c.op \in Actions /\ c.at # "out"
  /\ IF c.at = "ok" THEN EndsAndFetches(c, "users") ELSE Ends(c) /\ UNCHANGED clean
  /\ UNCHANGED <<page, server, ui, made, faults>>

-----------------------------------------------------------------------------
(* Invitations and lockouts                                                *)

OpenInvite ==
  /\ Behind
  /\ ui' = [ui EXCEPT !.dialog = TRUE]
  /\ UNCHANGED <<page, server, calls, made, faults, clean>>

CloseInvite ==
  /\ ui.dialog
  /\ ui' = [ui EXCEPT !.dialog = FALSE, !.email = None, !.sent = None]
  /\ UNCHANGED <<page, server, calls, made, faults, clean>>

TypeEmail(i) ==
  /\ ui.dialog /\ ui.sent = None /\ i # ui.email
  /\ ui' = [ui EXCEPT !.email = i]
  /\ UNCHANGED <<page, server, calls, made, faults, clean>>

Invite ==
  /\ ui.dialog /\ ui.sent = None /\ ui.email # None /\ ~ui.inviting
  /\ ui' = [ui EXCEPT !.inviting = TRUE]
  /\ Act(ui.email, "invite", None)

\* The panel shows what was sent, also in a dialog that was closed meanwhile.
Invited(c) ==
  /\ c.op = "invite" /\ c.at = "ok"
  /\ ui' = [ui EXCEPT !.sent = c.item, !.inviting = FALSE]
  /\ EndsAndFetches(c, "invitations")
  /\ UNCHANGED <<page, server, made, faults>>

InviteFails(c) ==
  /\ c.op = "invite" /\ c.at = "no"
  /\ ui' = [ui EXCEPT !.inviting = FALSE]
  /\ Ends(c)
  /\ UNCHANGED <<page, server, made, faults, clean>>

RevokeInvitation(i) ==
  /\ Behind
  /\ i \in ui.lists.invitations
  /\ UNCHANGED ui
  /\ Act(i, "uninvite", None)

ClearLockout(i) ==
  /\ Behind
  /\ i \in ui.lists.lockouts
  /\ UNCHANGED ui
  /\ Act(i, "unlock", None)

Cleared(c) ==
  /\ c.op \in {"uninvite", "unlock"} /\ c.at # "out"
  /\ IF c.at = "ok"
       THEN EndsAndFetches(c, IF c.op = "unlock" THEN "lockouts" ELSE "invitations")
       ELSE Ends(c) /\ UNCHANGED clean
  /\ UNCHANGED <<page, server, ui, made, faults>>

-----------------------------------------------------------------------------
(* Sessions of an account                                                  *)

\* Mutant: the sessions of the last account stay until others are there.
OpenSessionsKeeping(i) ==
  /\ Behind
  /\ Shown(i) \in {"viewer", "admin", "rejected"}
  /\ ui' = [ui EXCEPT !.for = i, !.spinner = TRUE]
  /\ Start(0, i, "sessions", None, None)
  /\ clean' = (clean /\ ~Waiting(0, {"sessions"}))
  /\ UNCHANGED <<page, server, faults>>

OpenSessions(i) ==
  /\ Behind
  /\ Shown(i) \in {"viewer", "admin", "rejected"}
  /\ ui' = [ui EXCEPT !.for = i, !.sessions = None, !.spinner = TRUE]
  /\ Start(0, i, "sessions", None, None)
  /\ clean' = (clean /\ ~Waiting(0, {"sessions"}))
  /\ UNCHANGED <<page, server, faults>>

CloseSessions ==
  /\ ui.for # None
  /\ ui' = [ui EXCEPT !.for = None, !.sessions = None]
  /\ UNCHANGED <<page, server, calls, made, faults, clean>>

\* Whoever's dialog is open by then, or none.
SessionsArrive(c) ==
  /\ c.op = "sessions" /\ c.at # "out"
  /\ ui' = [ui EXCEPT !.sessions = IF c.at = "ok" THEN c.answer ELSE @, !.spinner = FALSE]
  /\ Ends(c)
  /\ UNCHANGED <<page, server, made, faults, clean>>

RevokeSessions ==
  /\ ui.for # None /\ ~ui.revoking /\ ui.sessions # None
  /\ ui' = [ui EXCEPT !.revoking = TRUE]
  /\ Act(ui.for, "revoke", None)

Revoked(c) ==
  /\ c.op = "revoke" /\ c.at # "out"
  /\ ui' = [ui EXCEPT !.sessions = IF c.at = "ok" THEN None ELSE @, !.revoking = FALSE]
  /\ Ends(c)
  /\ UNCHANGED <<page, server, made, faults, clean>>

-----------------------------------------------------------------------------
(* The server                                                              *)

Gone(a) == a.state \in {"none", "invited"}

Write(a, c) ==
  CASE c.op = "approve" -> [a EXCEPT !.state = "viewer"]
    [] c.op = "reject" -> [a EXCEPT !.state = "rejected"]
    [] c.op = "role" -> [a EXCEPT !.state = c.value]
    [] c.op = "delete" -> [a EXCEPT !.state = "none", !.devices = FALSE]
    [] c.op = "invite" -> [a EXCEPT !.state = "invited"]
    [] c.op = "uninvite" -> [a EXCEPT !.state = "none"]
    [] c.op = "unlock" -> [a EXCEPT !.locked = FALSE]
    [] c.op = "revoke" -> [a EXCEPT !.devices = FALSE]

Missing(c) ==
  \/ c.op \in Actions \cup {"sessions", "revoke"} /\ Gone(server[c.item])
  \/ c.op = "invite" /\ server[c.item].state # "none"
  \/ c.op = "uninvite" /\ server[c.item].state # "invited"

Serve(c) ==
  /\ c.at = "out"
  /\ \/ /\ c.op = "list" /\ Answered(c, Content(c.item))
        /\ UNCHANGED server
     \/ /\ c.op = "sessions" /\ ~Missing(c)
        /\ Answered(c, IF server[c.item].devices THEN c.item ELSE None)
        /\ UNCHANGED server
     \/ /\ c.op \notin {"list", "sessions"} /\ ~Missing(c)
        /\ Answered(c, None)
        /\ server' = [server EXCEPT ![c.item] = Write(@, c)]
  /\ UNCHANGED <<page, ui, made, faults, clean>>

Refuse(c) ==
  /\ c.at = "out"
  /\ \/ c.op # "list" /\ Missing(c) /\ Refused(c, None) /\ UNCHANGED faults
     \/ Fault(c)
  /\ UNCHANGED <<page, server, ui, made, clean>>

-----------------------------------------------------------------------------
User ==
  \/ CancelDelete \/ ConfirmDelete \/ OpenInvite \/ CloseInvite \/ Invite
  \/ CloseSessions \/ RevokeSessions
  \/ \E i \in Item :
       \/ \E op \in {"approve", "reject"} : Decide(i, op)
       \/ \E role \in {"viewer", "admin"} : ChangeRole(i, role)
       \/ RequestDelete(i) \/ TypeEmail(i) \/ RevokeInvitation(i) \/ ClearLockout(i)
       \/ OpenSessions(i)

Next ==
  \/ User
  \/ \E c \in calls :
       \/ Serve(c) \/ Refuse(c) \/ ListArrives(c) \/ Acted(c) \/ Invited(c)
       \/ InviteFails(c) \/ Cleared(c) \/ SessionsArrive(c) \/ Revoked(c)

Spec == Init /\ [][Next]_vars

-----------------------------------------------------------------------------
(* Properties                                                              *)

Shelves == [users : [Item -> State \cup {None}], invitations : SUBSET Item,
            lockouts : SUBSET Item]

Ui == [lists : Shelves, failed : SUBSET Lists, dialog : BOOLEAN,
       email : Item \cup {None}, sent : Item \cup {None}, inviting : BOOLEAN,
       for : Item \cup {None}, sessions : Item \cup {None}, spinner : BOOLEAN,
       revoking : BOOLEAN, target : Item \cup {None}]

\* Every variable keeps its type.
TypeOK ==
  /\ page = "users"
  /\ server \in [Item -> Account]
  /\ ui \in Ui
  /\ \A c \in calls : c.op \in Actions \cup {"list", "invite", "uninvite", "unlock",
                                             "sessions", "revoke"}
  /\ made \in 0..MaxCalls[page] /\ faults \in 0..MaxFaults
  /\ clean \in BOOLEAN

\* Once everything is answered, the three lists are the server's, unless the
\* last fetch of one failed.  Two fetches of a list under way at once may
\* answer in the wrong order (clean).
ListsSettle ==
  calls = {} /\ clean => \A l \in Lists \ ui.failed : ui.lists[l] = Content(l)

\* The sessions in the dialog are those of the account it names, unless a
\* second dialog was opened while the first one's were being fetched (clean).
ShowsOwnSessions == clean /\ ui.for # None => ui.sessions \in {ui.for, None}

\* What keeps a button disabled, or a spinner turning, waits for an answer.
NoStuckButton ==
  /\ ui.inviting => Waiting(0, {"invite"})
  /\ ui.spinner => Waiting(0, {"sessions"})
  /\ ui.revoking => Waiting(0, {"revoke"})
=============================================================================
